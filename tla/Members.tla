------------------------------- MODULE Members -------------------------------
(***************************************************************************)
(* With whom a board is shared: the panel of the dialog                    *)
(* (web/src/board/members) and what the server does with its calls         *)
(* (internal/usecase/member.go).  An owner types a login, is shown who     *)
(* signed in with it last, and only then invites that person.  A login may *)
(* pass to someone else at any time.  Closing the dialog drops the panel   *)
(* with all it holds; a call on its way still reaches the server.          *)
(***************************************************************************)
EXTENDS Naturals

CONSTANTS
    Logins, NoLogin,
    Users, Nobody, Me,  \* Me: the one at this screen
    Unlisted,           \* the list that has not been read
    MaxTurns            \* bound on what the user and the others do

ASSUME MembersAssumption ==
    /\ Me \in Users /\ Nobody \notin Users /\ NoLogin \notin Logins /\ MaxTurns \in Nat

VARIABLES
    holder,     \* server: who signed in last with a login
    roleOf,     \* server: the members of the board
    dialog,     \* it is open
    login,      \* the field
    invitee,    \* who is shown before the invitation
    inviteRole,
    list,       \* members of the panel
    listError,
    reads,      \* readings of the list outside a call: unanswered, or what they answer
    call,       \* the call that makes the panel busy
    left,       \* calls of a panel that was closed
    shown,      \* every login and person this user has been shown together
    turns

sharing == <<holder, roleOf, dialog, login, invitee, inviteRole, list, listError, reads, call, left,
             shown, turns>>

Roles   == {"owner", "editor", "viewer"}
Sharing == [Users -> Roles \cup {"none"}]
Invitee == [login : Logins, user : Users]
NoInvitee == [login |-> NoLogin, user |-> Nobody]
NotBusy  == [op |-> "none"]
Busy    == call # NotBusy

SharingTyped ==
    /\ holder \in [Logins -> Users \cup {Nobody}] /\ roleOf \in Sharing
    /\ dialog \in BOOLEAN /\ login \in Logins \cup {NoLogin}
    /\ invitee \in Invitee \cup {NoInvitee} /\ inviteRole \in Roles
    /\ list \in Sharing \cup {Unlisted} /\ listError \in BOOLEAN
    /\ reads \subseteq Sharing \cup {Unlisted}
    /\ call.op \in {"none", "lookup", "invite", "setRole", "remove", "list"}
    /\ \A c \in left : c.op \in {"invite", "setRole", "remove"}
    /\ shown \subseteq Invitee /\ turns \in 0 .. MaxTurns

SharingInit ==
    /\ holder \in [Logins -> Users \cup {Nobody}]
    /\ roleOf \in {f \in Sharing : f[Me] = "owner"}
    /\ dialog = FALSE /\ login = NoLogin /\ invitee = NoInvitee /\ inviteRole = "editor"
    /\ list = Unlisted /\ listError = FALSE /\ reads = {} /\ call = NotBusy /\ left = {}
    /\ shown = {} /\ turns = 0

Turn   == turns < MaxTurns /\ turns' = turns + 1
Server == <<holder, roleOf>>

-----------------------------------------------------------------------------
(* The panel *)

OpenSharing ==
    /\ ~dialog /\ dialog' = TRUE /\ reads' = {Unlisted}
    /\ UNCHANGED <<Server, login, invitee, inviteRole, list, listError, call, left, shown, turns>>

CloseSharing ==
    /\ dialog /\ dialog' = FALSE /\ login' = NoLogin /\ invitee' = NoInvitee
    /\ inviteRole' = "editor" /\ list' = Unlisted /\ listError' = FALSE /\ reads' = {}
    /\ call' = NotBusy
    /\ left' = IF call.op \in {"invite", "setRole", "remove"} /\ call.step = "sent"
                 THEN left \cup {call} ELSE left
    /\ UNCHANGED <<Server, shown, turns>>

RetryList ==
    /\ dialog /\ listError /\ Turn
    /\ listError' = FALSE /\ reads' = reads \cup {Unlisted}
    /\ UNCHANGED <<Server, dialog, login, invitee, inviteRole, list, call, left, shown>>

ServeRead ==
    /\ Unlisted \in reads
    /\ reads' = (reads \ {Unlisted}) \cup {roleOf}
    /\ UNCHANGED <<Server, dialog, login, invitee, inviteRole, list, listError, call, left, shown,
                   turns>>

\* Readings may answer in any order, and each answer is shown.
ReadArrives(r) ==
    /\ reads' = reads \ {r}
    /\ \/ r # Unlisted /\ list' = r /\ listError' = FALSE
       \/ listError' = TRUE /\ UNCHANGED list
    /\ UNCHANGED <<Server, dialog, login, invitee, inviteRole, call, left, shown, turns>>

\* Whoever is shown belongs to the login that stood in the field before.
TypeLogin(l) ==
    /\ dialog /\ l # login /\ Turn
    /\ login' = l /\ invitee' = NoInvitee
    /\ UNCHANGED <<Server, dialog, inviteRole, list, listError, reads, call, left, shown>>

ChooseRole(r) ==
    /\ dialog /\ r # inviteRole /\ Turn /\ inviteRole' = r
    /\ UNCHANGED <<Server, dialog, login, invitee, list, listError, reads, call, left, shown>>

CancelInvitation ==
    /\ invitee # NoInvitee /\ ~Busy /\ invitee' = NoInvitee
    /\ UNCHANGED <<Server, dialog, login, inviteRole, list, listError, reads, call, left, shown,
                   turns>>

Ask(c) ==
    /\ dialog /\ ~Busy /\ call' = c
    /\ UNCHANGED <<Server, dialog, login, invitee, inviteRole, list, listError, reads, left, shown>>

Lookup ==
    /\ login # NoLogin /\ UNCHANGED turns
    /\ Ask([op |-> "lookup", step |-> "sent", login |-> login])

Invite ==
    /\ invitee # NoInvitee /\ Turn
    /\ Ask([op |-> "invite", step |-> "sent", login |-> invitee.login, user |-> invitee.user,
            role |-> inviteRole])

ChangeRole(u, r) ==
    /\ list # Unlisted /\ list[u] \notin {"none", r} /\ Turn
    /\ Ask([op |-> "setRole", step |-> "sent", user |-> u, role |-> r])

RemoveMember(u) ==
    /\ list # Unlisted /\ list[u] # "none" /\ Turn
    /\ Ask([op |-> "remove", step |-> "sent", user |-> u])

-----------------------------------------------------------------------------
(* The server *)

\* Every call but the reading of the list is an owner's.
Owner == roleOf[Me] = "owner"
AnotherOwner(u) == \E o \in Users \ {u} : roleOf[o] = "owner"

(* Fault: whoever has the login now is invited. *)
AnyHolder(c) == holder[c.login] # Nobody

\* Invite looks the login up again.
SameHolder(c) == holder[c.login] = c.user

Allowed(c) ==
    CASE c.op = "invite"  -> Owner /\ SameHolder(c) /\ roleOf[holder[c.login]] = "none"
      [] c.op = "setRole" -> /\ Owner /\ roleOf[c.user] # "none"
                             /\ (c.role = "owner" \/ AnotherOwner(c.user))
      [] c.op = "remove"  -> Owner /\ roleOf[c.user] # "none" /\ AnotherOwner(c.user)

Done(c) ==
    CASE c.op = "invite"  -> [roleOf EXCEPT ![holder[c.login]] = c.role]
      [] c.op = "setRole" -> [roleOf EXCEPT ![c.user] = c.role]
      [] c.op = "remove"  -> [roleOf EXCEPT ![c.user] = "none"]

\* invitee_changed and invalid_input: who is shown cannot be invited any more.
RefusalOf(c) ==
    IF c.op = "invite" /\ Owner /\ holder[c.login] # c.user THEN "changed" ELSE "refused"

ServeSharing ==
    /\ call.op \in {"invite", "setRole", "remove"} /\ call.step = "sent"
    /\ IF Allowed(call)
         THEN roleOf' = Done(call) /\ call' = [call EXCEPT !.step = "done"]
         ELSE call' = [call EXCEPT !.step = RefusalOf(call)] /\ UNCHANGED roleOf
    /\ UNCHANGED <<holder, dialog, login, invitee, inviteRole, list, listError, reads, left, shown,
                   turns>>

ServeLeft(c) ==
    /\ left' = left \ {c}
    /\ IF Allowed(c) THEN roleOf' = Done(c) ELSE UNCHANGED roleOf
    /\ UNCHANGED <<holder, dialog, login, invitee, inviteRole, list, listError, reads, call, shown,
                   turns>>

\* LookupInvitee.
ServeLookup ==
    /\ call.op = "lookup" /\ call.step = "sent"
    /\ call' = IF Owner /\ holder[call.login] # Nobody
                 THEN [op |-> "lookup", step |-> "found", login |-> call.login,
                       user |-> holder[call.login]]
                 ELSE [call EXCEPT !.step = "refused"]
    /\ UNCHANGED <<Server, dialog, login, invitee, inviteRole, list, listError, reads, left, shown,
                   turns>>

ServeListing ==
    /\ call.op = "list" /\ call.step = "sent"
    /\ call' = [op |-> "list", step |-> "served", list |-> roleOf]
    /\ UNCHANGED <<Server, dialog, login, invitee, inviteRole, list, listError, reads, left, shown,
                   turns>>

\* A sign-in: a login passes to whom GitHub gave it.
SignsIn(l, u) ==
    /\ holder[l] # u /\ Turn /\ holder' = [holder EXCEPT ![l] = u]
    /\ UNCHANGED <<roleOf, dialog, login, invitee, inviteRole, list, listError, reads, call, left,
                   shown>>

\* Another owner shares, changes a role or removes a member.
OthersShare(u, r) ==
    /\ r # roleOf[u] /\ Turn
    /\ (r = "owner" \/ AnotherOwner(u))
    /\ \E o \in Users \ {Me} : roleOf[o] = "owner"
    /\ roleOf' = [roleOf EXCEPT ![u] = r]
    /\ UNCHANGED <<holder, dialog, login, invitee, inviteRole, list, listError, reads, call, left,
                   shown>>

-----------------------------------------------------------------------------
(* The answers *)

\* The field may hold another login by now; who is shown is the one that was asked for.
FoundArrives ==
    /\ call.op = "lookup" /\ call.step = "found"
    /\ invitee' = [login |-> call.login, user |-> call.user] /\ shown' = shown \cup {invitee'}
    /\ call' = NotBusy
    /\ UNCHANGED <<Server, dialog, login, inviteRole, list, listError, reads, left, turns>>

\* The panel stays busy until the list has been read again.
DoneArrives ==
    /\ Busy /\ call.step = "done" /\ call' = [op |-> "list", step |-> "sent"]
    /\ IF call.op = "invite" THEN login' = NoLogin /\ invitee' = NoInvitee
                             ELSE UNCHANGED <<login, invitee>>
    /\ UNCHANGED <<Server, dialog, inviteRole, list, listError, reads, left, shown, turns>>

\* Any call may fail, served or not.
CallFails ==
    /\ Busy /\ call.op # "list" /\ call' = NotBusy
    /\ invitee' = IF call.op = "lookup" \/ call.step = "changed" THEN NoInvitee ELSE invitee
    /\ UNCHANGED <<Server, dialog, login, inviteRole, list, listError, reads, shown, turns>>
    /\ left' = IF call.op # "lookup" /\ call.step = "sent" THEN left \cup {call} ELSE left

ListingArrives ==
    /\ call.op = "list" /\ call' = NotBusy
    /\ \/ call.step = "served" /\ list' = call.list /\ listError' = FALSE
       \/ listError' = TRUE /\ UNCHANGED list
    /\ UNCHANGED <<Server, dialog, login, invitee, inviteRole, reads, left, shown, turns>>

SharingNext ==
    \/ OpenSharing \/ CloseSharing \/ RetryList \/ CancelInvitation \/ Lookup \/ Invite
    \/ \E l \in Logins \cup {NoLogin} : TypeLogin(l)
    \/ \E r \in Roles : ChooseRole(r)
    \/ \E u \in Users : RemoveMember(u) \/ \E r \in Roles : ChangeRole(u, r)
    \/ ServeSharing \/ ServeLookup \/ ServeListing \/ ServeRead
    \/ \E c \in left : ServeLeft(c)
    \/ \E l \in Logins, u \in Users : SignsIn(l, u)
    \/ \E u \in Users, r \in Roles \cup {"none"} : OthersShare(u, r)
    \/ FoundArrives \/ DoneArrives \/ CallFails \/ ListingArrives
    \/ \E r \in reads : ReadArrives(r)

-----------------------------------------------------------------------------
(* Properties *)

\* Whoever becomes a member through this panel is a person this user was shown under the
\* login the invitation was sent for, though logins pass to others, the field is typed over
\* and the dialog is closed meanwhile (Invite, ErrInviteeChanged).
InvitedAsShown ==
    [][\A u \in Users :
        (ServeSharing \/ \E c \in left : ServeLeft(c)) =>
            \/ roleOf[u] # "none" \/ roleOf'[u] = "none"
            \/ \E l \in Logins : [login |-> l, user |-> u] \in shown]_sharing
=============================================================================
