----------------------------- MODULE Connections -----------------------------
(***************************************************************************)
(* The connections a user has granted to clients of /mcp                   *)
(* (web/src/connections/ConnectionsDialog.tsx).  The list is read each     *)
(* time the dialog is opened; grants are made outside of it meanwhile, and *)
(* a row may be revoked while another is.                                  *)
(***************************************************************************)
EXTENDS Naturals

CONSTANTS
    Grants,
    Unread,             \* the list that has not been read
    MaxOpenings,        \* bound on the openings of the dialog
    MaxGranted          \* bound on grants made elsewhere

ASSUME ConnectionsAssumption == MaxOpenings \in Nat /\ MaxGranted \in Nat

VARIABLES
    live,       \* the server
    onScreen,   \* the dialog is open
    grants,     \* its rows
    failure,    \* error
    loading,    \* the generation of the reading
    loads,      \* readings on their way: unanswered, or what they answer
    revoking,   \* the revocations on their way, and how far they are
    since,      \* grants that were there at some time since the dialog was opened
    openings, granted

connecting == <<live, onScreen, grants, failure, loading, loads, revoking, since, openings, granted>>

ConnectionsTyped ==
    /\ live \subseteq Grants /\ onScreen \in BOOLEAN
    /\ grants \in (SUBSET Grants) \cup {Unread} /\ failure \in BOOLEAN
    /\ loading \in 0 .. 2 * MaxOpenings
    /\ \A l \in loads : l.number <= loading /\ l.rows \in (SUBSET Grants) \cup {Unread}
    /\ revoking \in [Grants -> {"none", "sent", "revoked"}]
    /\ since \subseteq Grants /\ openings \in 0 .. MaxOpenings /\ granted \in 0 .. MaxGranted

ConnectionsInit ==
    /\ live \in SUBSET Grants /\ onScreen = FALSE /\ grants = Unread /\ failure = FALSE
    /\ loading = 0 /\ loads = {} /\ revoking = [g \in Grants |-> "none"] /\ since = {}
    /\ openings = 0 /\ granted = 0

\* The rows are dropped before they are read again.
OpenConnections ==
    /\ ~onScreen /\ openings < MaxOpenings /\ openings' = openings + 1
    /\ onScreen' = TRUE /\ loading' = loading + 1
    /\ loads' = loads \cup {[number |-> loading', rows |-> Unread]}
    /\ grants' = Unread /\ failure' = FALSE /\ since' = live
    /\ UNCHANGED <<live, revoking, granted>>

CloseConnections ==
    /\ onScreen /\ onScreen' = FALSE /\ loading' = loading + 1
    /\ UNCHANGED <<live, grants, failure, loads, revoking, since, openings, granted>>

ServeGrants(l) ==
    /\ l.rows = Unread /\ loads' = (loads \ {l}) \cup {[l EXCEPT !.rows = live]}
    /\ UNCHANGED <<live, onScreen, grants, failure, loading, revoking, since, openings, granted>>

(* Fault: the rows are shown whichever opening asked for them. *)
AnyLoad(l) == TRUE

CurrentLoad(l) == l.number = loading

GrantsArrive(l) ==
    /\ loads' = loads \ {l}
    /\ IF CurrentLoad(l)
         THEN \/ l.rows # Unread /\ grants' = l.rows /\ UNCHANGED failure
              \/ failure' = TRUE /\ UNCHANGED grants
         ELSE UNCHANGED <<grants, failure>>
    /\ UNCHANGED <<live, onScreen, loading, revoking, since, openings, granted>>

Revoke(g) ==
    /\ onScreen /\ grants # Unread /\ g \in grants /\ revoking[g] = "none"
    /\ revoking' = [revoking EXCEPT ![g] = "sent"] /\ failure' = FALSE
    /\ UNCHANGED <<live, onScreen, grants, loading, loads, since, openings, granted>>

ServeRevoke(g) ==
    /\ revoking[g] = "sent" /\ revoking' = [revoking EXCEPT ![g] = "revoked"]
    /\ live' = live \ {g}
    /\ UNCHANGED <<onScreen, grants, failure, loading, loads, since, openings, granted>>

\* The row to take away is the one that was revoked, in whatever list is shown by then.
RevokeArrives(g) ==
    /\ revoking[g] = "revoked" /\ revoking' = [revoking EXCEPT ![g] = "none"]
    /\ grants' = IF grants = Unread THEN grants ELSE grants \ {g}
    /\ UNCHANGED <<live, onScreen, failure, loading, loads, since, openings, granted>>

RevokeFails(g) ==
    /\ revoking[g] # "none" /\ revoking' = [revoking EXCEPT ![g] = "none"]
    /\ failure' = TRUE
    /\ UNCHANGED <<live, onScreen, grants, loading, loads, since, openings, granted>>

\* A client is granted access in another window; another window revokes one.
GrantedElsewhere(g) ==
    /\ granted < MaxGranted /\ granted' = granted + 1
    /\ live' = IF g \in live THEN live \ {g} ELSE live \cup {g}
    /\ since' = since \cup live'
    /\ UNCHANGED <<onScreen, grants, failure, loading, loads, revoking, openings>>

ConnectionsNext ==
    \/ OpenConnections \/ CloseConnections
    \/ \E l \in loads : ServeGrants(l) \/ GrantsArrive(l)
    \/ \E g \in Grants : \/ Revoke(g) \/ ServeRevoke(g) \/ RevokeArrives(g) \/ RevokeFails(g)
                         \/ GrantedElsewhere(g)

-----------------------------------------------------------------------------
(* Properties *)

\* No row shown is older than the opening of the dialog: a reading asked for by an earlier
\* opening is not shown, however late it answers ("開き直したら前の応答は捨てる").
RowsOfThisOpening == grants # Unread => grants \subseteq since
=============================================================================
