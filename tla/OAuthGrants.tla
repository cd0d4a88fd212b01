----------------------------- MODULE OAuthGrants -----------------------------
(***************************************************************************)
(* The authorization server in front of /mcp: clients register, users      *)
(* approve them and get a code, a code is exchanged for a grant with two   *)
(* tokens, a refresh token is exchanged for the next two, and a user       *)
(* revokes a grant (internal/usecase/oauth*.go on                          *)
(* internal/adapter/sqlite/oauth.go).                                      *)
(*                                                                         *)
(* A request reads the clock once and then runs its SQL statements one by  *)
(* one; other requests run theirs in between, and nothing but one          *)
(* statement or one transaction is atomic.  Ids and secrets are random, so *)
(* a request is itself the name of the client, code, grant or pair of      *)
(* tokens it makes.  A duplicated request is a second request with the     *)
(* same code or token.                                                     *)
(***************************************************************************)
EXTENDS Naturals, FiniteSets

CONSTANTS
    Registrations, Approvals, Exchanges, Refreshes, Revocations,  \* the requests
    UrlClients,         \* clients named by the URL of a metadata document
    Users,
    CodeTTL, AccessTTL, RefreshTTL, UnusedClientTTL,
    MaxTime             \* bound on the clock

Requests == Registrations \cup Approvals \cup Exchanges \cup Refreshes \cup Revocations

Clients == UrlClients \cup Registrations

(* A pair of tokens has the name of the request that was answered with it. *)
Pairs == Exchanges \cup Refreshes

ASSUME OAuthAssumption ==
    /\ {CodeTTL, AccessTTL, RefreshTTL, UnusedClientTTL, MaxTime} \subseteq Nat
    /\ 0 < CodeTTL /\ CodeTTL < UnusedClientTTL
    /\ 0 < AccessTTL /\ AccessTTL < RefreshTTL
    /\ "none" \notin Requests \cup UrlClients

(* A request is of one kind, and no URL is the name of a registration.     *)
ASSUME KindsAreApart ==
    /\ Registrations \cap (Approvals \cup Exchanges \cup Refreshes \cup Revocations) = {}
    /\ Approvals \cap (Exchanges \cup Refreshes \cup Revocations) = {}
    /\ Exchanges \cap (Refreshes \cup Revocations) = {}
    /\ Refreshes \cap Revocations = {}
    /\ UrlClients \cap Requests = {}

VARIABLES
    clock,
    clients,    \* oauth_clients: the registered clients
    granted,    \* those with a granted_at
    codes,      \* oauth_codes: the codes still there
    taken,      \* code -> the grant it was exchanged for; "none" while unused
    grants,     \* oauth_grants
    access,     \* oauth_tokens of kind access
    fresh,      \* oauth_tokens of kind refresh
    used,       \* refresh tokens with a used_at
    pc,         \* how far every request has got
    at,         \* when it read the clock
    user,       \* who is signed in; for an exchange and a refresh, nobody
    arg,        \* the client, code, token or grant it was sent
    fits,       \* client, redirect, verifier and resource are the right ones
    grant,      \* the grant a refresh, a revocation or a replay is about
    outcome

tables  == <<clients, granted, codes, taken, grants, access, fresh, used>>
request == <<at, user, arg, fits, grant, outcome>>
vars    == <<clock, tables, pc, request>>

Steps == {"idle", "register", "client", "save", "insert", "consume", "replayed", "create",
          "use", "find", "add", "delete", "done", "dead"}

Outcomes == {"none", "issued", "refused", "replay", "revoked"}

(* What each kind of request may be sent. *)
ArgsOf(r) ==
    CASE r \in Registrations -> {"none"}
      [] r \in Approvals     -> Clients
      [] r \in Exchanges     -> Approvals
      [] r \in Refreshes     -> Pairs
      [] r \in Revocations   -> Exchanges

TypeOK ==
    /\ clock \in 0 .. MaxTime
    /\ clients \subseteq Registrations
    /\ granted \subseteq clients
    /\ codes \subseteq Approvals
    /\ taken \in [Approvals -> Exchanges \cup {"none"}]
    /\ grants \subseteq Exchanges
    /\ access \subseteq Pairs
    /\ used \subseteq fresh /\ fresh \subseteq Pairs
    /\ pc \in [Requests -> Steps]
    /\ at \in [Requests -> 0 .. MaxTime]
    /\ user \in [Requests -> Users \cup {"none"}]
    /\ \A r \in Requests : arg[r] \in ArgsOf(r) \cup {"none"}
    /\ fits \in [Requests -> BOOLEAN]
    /\ grant \in [Requests -> Exchanges \cup {"none"}]
    /\ outcome \in [Requests -> Outcomes]

-----------------------------------------------------------------------------
(* Tokens and time *)

(* The grant a pair hangs from: its own exchange, or what its refresh found. *)
GrantOf(p) == IF p \in Exchanges THEN p ELSE grant[p]

(* Who approved a grant, and for which client. *)
OwnerOf(g) == user[arg[g]]
ClientOf(g) == arg[arg[g]]

CodeExpired(c, t) == at[c] + CodeTTL <= t
AccessExpired(p, t) == at[p] + AccessTTL <= t
RefreshExpired(p, t) == at[p] + RefreshTTL <= t

KeptAccess(t) == {p \in access : ~AccessExpired(p, t)}
KeptRefresh(t) == {p \in fresh : ~RefreshExpired(p, t)}

(* Fault: a grant without an access token is taken for a dead one. *)
KeptGrantsByAccess(t) == {g \in grants : \E p \in KeptAccess(t) : GrantOf(p) = g}

(* pruneTokens: expired tokens, then grants without a token. *)
KeptGrants(t) ==
    {g \in grants : \E p \in KeptAccess(t) \cup KeptRefresh(t) : GrantOf(p) = g}

(* Of the tokens, those of the grants in G; ON DELETE CASCADE. *)
HangingFrom(G, T) == {p \in T : GrantOf(p) \in G}

-----------------------------------------------------------------------------
Init ==
    /\ clock = 0
    /\ clients = {} /\ granted = {}
    /\ codes = {}
    /\ taken = [c \in Approvals |-> "none"]
    /\ grants = {} /\ access = {} /\ fresh = {} /\ used = {}
    /\ pc = [r \in Requests |-> "idle"]
    /\ at = [r \in Requests |-> 0]
    /\ user = [r \in Requests |-> "none"]
    /\ arg = [r \in Requests |-> "none"]
    /\ fits = [r \in Requests |-> FALSE]
    /\ grant = [r \in Requests |-> "none"]
    /\ outcome = [r \in Requests |-> "none"]

Tick ==
    /\ clock < MaxTime
    /\ clock' = clock + 1
    /\ UNCHANGED <<tables, pc, request>>

Answered(r) == pc[r] = "done" /\ outcome[r] = "issued"

(* What a client or a user can send: what an earlier answer told them. *)
Known(r) ==
    CASE r \in Registrations -> {"none"}
      [] r \in Approvals     -> UrlClients \cup {c \in Registrations : Answered(c)}
      [] r \in Exchanges     -> {c \in Approvals : Answered(c)}
      [] r \in Refreshes     -> {p \in Pairs : Answered(p)}
      [] r \in Revocations   -> grants

FirstStep(r) ==
    CASE r \in Registrations -> "register"
      [] r \in Approvals     -> "client"
      [] r \in Exchanges     -> "consume"
      [] r \in Refreshes     -> "use"
      [] r \in Revocations   -> "find"

(* A request arrives and reads the clock. *)
Begin(r) ==
    /\ pc[r] = "idle"
    /\ \E x \in Known(r) : arg' = [arg EXCEPT ![r] = x]
    /\ \E u \in IF r \in Approvals \cup Revocations THEN Users ELSE {"none"} :
            user' = [user EXCEPT ![r] = u]
    /\ \E b \in IF r \in Pairs THEN BOOLEAN ELSE {TRUE} : fits' = [fits EXCEPT ![r] = b]
    /\ at' = [at EXCEPT ![r] = clock]
    /\ pc' = [pc EXCEPT ![r] = FirstStep(r)]
    /\ UNCHANGED <<clock, tables, grant, outcome>>

Goto(r, step) == pc' = [pc EXCEPT ![r] = step] /\ UNCHANGED clock

Answer(r, o) ==
    /\ Goto(r, "done")
    /\ outcome' = [outcome EXCEPT ![r] = o]
    /\ UNCHANGED <<at, user, arg, fits>>

Go(r, step) == Goto(r, step) /\ UNCHANGED <<at, user, arg, fits, outcome>>

(* Fault: a registration without a grant today is taken for an unused one. *)
UnusedClientsToday(t) ==
    {c \in clients : /\ \A g \in grants : ClientOf(g) # c
                     /\ at[c] + UnusedClientTTL < t}

(* Registrations that are old and never got a grant. *)
UnusedClients(t) == {c \in clients \ granted : at[c] + UnusedClientTTL < t}

(* CreateClient: two statements, not one transaction. *)
PruneClients(r) ==
    /\ pc[r] = "register"
    /\ clients' = clients \ UnusedClients(at[r])
    /\ granted' = granted \cap clients'
    /\ Go(r, "insert")
    /\ UNCHANGED <<codes, taken, grants, access, fresh, used, grant>>

InsertClient(r) ==
    /\ pc[r] = "insert" /\ r \in Registrations
    /\ clients' = clients \cup {r}
    /\ Answer(r, "issued")
    /\ UNCHANGED <<granted, codes, taken, grants, access, fresh, used, grant>>

(* Approve looks the client up and then reads the clock.  The document of  *)
(* a client named by URL is fetched, and may not be there.                 *)
FindClient(r) ==
    /\ pc[r] = "client"
    /\ \/ /\ arg[r] \in UrlClients \cup clients
          /\ Goto(r, "save")
          /\ at' = [at EXCEPT ![r] = clock]
          /\ UNCHANGED <<user, arg, fits, outcome>>
       \/ arg[r] \notin clients /\ Answer(r, "refused")
    /\ UNCHANGED <<tables, grant>>

(* SaveCode: again two statements. *)
PruneCodes(r) ==
    /\ pc[r] = "save"
    /\ codes' = {c \in codes : ~CodeExpired(c, at[r])}
    /\ Go(r, "insert")
    /\ UNCHANGED <<clients, granted, taken, grants, access, fresh, used, grant>>

InsertCode(r) ==
    /\ pc[r] = "insert" /\ r \in Approvals
    /\ codes' = codes \cup {r}
    /\ Answer(r, "issued")
    /\ UNCHANGED <<clients, granted, taken, grants, access, fresh, used, grant>>

-----------------------------------------------------------------------------
(* exchangeCode *)

(* Fault: no used_at = '' in the WHERE clause. *)
ConsumableAgain(r) == arg[r] \in codes /\ ~CodeExpired(arg[r], at[r])

Consumable(r) == arg[r] \in codes /\ ~CodeExpired(arg[r], at[r]) /\ taken[arg[r]] = "none"

(* One UPDATE decides who is first; then client, redirect_uri, verifier and *)
(* resource are compared, and a code that does not fit stays used.         *)
ConsumeCode(r) ==
    /\ pc[r] = "consume"
    /\ IF Consumable(r)
       THEN /\ taken' = [taken EXCEPT ![arg[r]] = r]
            /\ IF fits[r] THEN Go(r, "create") ELSE Answer(r, "refused")
       ELSE Go(r, "replayed") /\ UNCHANGED taken
    /\ UNCHANGED <<clients, granted, codes, grants, access, fresh, used, grant>>

(* The SELECT for whoever was not first. *)
FindReplayedCode(r) ==
    /\ pc[r] = "replayed" /\ r \in Exchanges
    /\ IF arg[r] \in codes /\ ~CodeExpired(arg[r], at[r]) /\ taken[arg[r]] # "none"
       THEN Go(r, "delete") /\ grant' = [grant EXCEPT ![r] = taken[arg[r]]]
       ELSE Answer(r, "refused") /\ UNCHANGED grant
    /\ UNCHANGED tables

(* The clients marked as granted once c is. *)
Marked(c) == granted \cup (clients \cap {c})

(* One transaction: prune, the grant, the mark on its client, two tokens.  *)
CreateGrant(r) ==
    /\ pc[r] = "create"
    /\ grants' = KeptGrants(at[r]) \cup {r}
    /\ access' = HangingFrom(grants', KeptAccess(at[r])) \cup {r}
    /\ fresh' = HangingFrom(grants', KeptRefresh(at[r])) \cup {r}
    /\ used' = used \cap fresh'
    /\ granted' = Marked(ClientOf(r))
    /\ Answer(r, "issued")
    /\ UNCHANGED <<clients, codes, taken, grant>>

-----------------------------------------------------------------------------
(* refresh *)

(* Fault: no used_at = '' in the WHERE clause. *)
UsableAgain(r) == arg[r] \in fresh /\ ~RefreshExpired(arg[r], at[r])

Usable(r) == arg[r] \in fresh /\ ~RefreshExpired(arg[r], at[r]) /\ arg[r] \notin used

UseRefreshToken(r) ==
    /\ pc[r] = "use"
    /\ IF Usable(r)
       THEN /\ used' = used \cup {arg[r]}
            /\ grant' = [grant EXCEPT ![r] = GrantOf(arg[r])]
            /\ Go(r, "find")
       ELSE Go(r, "replayed") /\ UNCHANGED <<used, grant>>
    /\ UNCHANGED <<clients, granted, codes, taken, grants, access, fresh>>

FindReplayedToken(r) ==
    /\ pc[r] = "replayed" /\ r \in Refreshes
    /\ IF arg[r] \in used /\ ~RefreshExpired(arg[r], at[r])
       THEN /\ grant' = [grant EXCEPT ![r] = GrantOf(arg[r])]
            /\ Goto(r, "find")
            /\ outcome' = [outcome EXCEPT ![r] = "replay"]
            /\ UNCHANGED <<at, user, arg, fits>>
       ELSE Answer(r, "refused") /\ UNCHANGED grant
    /\ UNCHANGED tables

(* Fault: a replay is refused and nothing else. *)
AfterReplayRefusing(r) == Answer(r, "replay")

(* A token that was already used takes its grant with it. *)
AfterReplay(r) == Go(r, "delete")

FindGrant(r) ==
    /\ pc[r] = "find" /\ r \in Refreshes
    /\ IF grant[r] \notin grants THEN Answer(r, "refused")
       ELSE IF outcome[r] = "replay" THEN AfterReplay(r)
       ELSE IF fits[r] THEN Go(r, "add")
       ELSE Answer(r, "refused")
    /\ UNCHANGED <<tables, grant>>

(* Fault: the grant is taken to be there, as FindGrant saw it. *)
StillGrantedAsSeen(r) == TRUE

(* The rows the UPDATE of last_used_at touched. *)
StillGranted(r) == grant[r] \in KeptGrants(at[r])

(* One transaction: prune, touch the grant, insert the tokens; rolled back *)
(* when the grant is gone.                                                 *)
AddTokens(r) ==
    /\ pc[r] = "add"
    /\ IF StillGranted(r)
       THEN /\ grants' = KeptGrants(at[r])
            /\ access' = HangingFrom(grants', KeptAccess(at[r])) \cup {r}
            /\ fresh' = HangingFrom(grants', KeptRefresh(at[r])) \cup {r}
            /\ used' = used \cap fresh'
            /\ Answer(r, "issued")
       ELSE UNCHANGED <<grants, access, fresh, used>> /\ Answer(r, "refused")
    /\ UNCHANGED <<clients, granted, codes, taken, grant>>

-----------------------------------------------------------------------------
(* Revoke: the grant has to be the user's own. *)
FindOwnGrant(r) ==
    /\ pc[r] = "find" /\ r \in Revocations
    /\ grant' = [grant EXCEPT ![r] = arg[r]]
    /\ IF arg[r] \in grants /\ OwnerOf(arg[r]) = user[r]
       THEN Go(r, "delete")
       ELSE Answer(r, "refused")
    /\ UNCHANGED tables

DeleteGrant(r) ==
    /\ pc[r] = "delete"
    /\ grants' = grants \ {grant[r]}
    /\ access' = HangingFrom(grants', access)
    /\ fresh' = HangingFrom(grants', fresh)
    /\ used' = used \cap fresh'
    /\ Answer(r, IF r \in Revocations THEN "revoked" ELSE "replay")
    /\ UNCHANGED <<clients, granted, codes, taken, grant>>

(* A statement fails, the caller goes away, or the process dies with the   *)
(* request: it ends where it is, and nothing it has done is taken back.    *)
Fail(r) ==
    /\ pc[r] \notin {"idle", "done", "dead"}
    /\ Goto(r, "dead")
    /\ UNCHANGED <<tables, request>>

(* Nobody sends anything more. *)
Quiet == (\A r \in Requests : pc[r] \in {"done", "dead", "idle"}) /\ UNCHANGED vars

Step(r) ==
    \/ Begin(r) \/ Fail(r)
    \/ PruneClients(r) \/ InsertClient(r)
    \/ FindClient(r) \/ PruneCodes(r) \/ InsertCode(r)
    \/ ConsumeCode(r) \/ FindReplayedCode(r) \/ CreateGrant(r)
    \/ UseRefreshToken(r) \/ FindReplayedToken(r) \/ FindGrant(r) \/ AddTokens(r)
    \/ FindOwnGrant(r) \/ DeleteGrant(r)

Next ==
    \/ \E r \in Requests : Step(r)
    \/ Tick
    \/ Quiet

Spec == Init /\ [][Next]_vars

-----------------------------------------------------------------------------
(* Properties *)

(* However often and however close together a code is sent, it makes at    *)
(* most one grant.                                                         *)
OneGrantPerCode ==
    \A e, f \in Exchanges :
        outcome[e] = "issued" /\ outcome[f] = "issued" /\ arg[e] = arg[f] => e = f

(* Rotation keeps one way forward: a grant never has two refresh tokens    *)
(* that could still be used.                                               *)
OneLiveRefresh ==
    \A p, q \in fresh \ used : GrantOf(p) = GrantOf(q) => p = q

(* Once a user has been told that a grant is revoked, no token of it is    *)
(* left and none comes to be, even if a refresh was under way.             *)
RevokedStaysRevoked ==
    \A v \in Revocations, p \in Pairs :
        outcome[v] = "revoked" /\ GrantOf(p) = grant[v] => p \notin access \cup fresh

(* Once a used refresh token has come back and been answered, its grant is *)
(* gone for good, also when the first use is still being served.           *)
RefreshReplayRevokes ==
    \A r \in Refreshes : pc[r] = "done" /\ outcome[r] = "replay" => grant[r] \notin grants

(* A grant that was revoked, by its user or because a used token came      *)
(* back, leaves nothing behind, whatever was being served meanwhile.       *)
RevocationHolds == RevokedStaysRevoked /\ RefreshReplayRevokes

(* Cleaning up never ends a grant somebody could still refresh: a grant    *)
(* goes because it was revoked, or because all its tokens have expired.    *)
PruningSparesTheLiving ==
    [][\A g \in grants \ grants' :
        \/ \E r \in Requests : pc[r] = "delete" /\ grant[r] = g
        \/ \A p \in Pairs : /\ p \in access /\ GrantOf(p) = g => AccessExpired(p, clock)
                            /\ p \in fresh /\ GrantOf(p) = g => RefreshExpired(p, clock)]_vars

(* A registration that once got a grant is not cleaned away, also after    *)
(* the grant was revoked or has expired.                                   *)
GrantedClientStays ==
    [][\A c \in clients \ clients', e \in Exchanges :
            outcome[e] = "issued" => ClientOf(e) # c]_vars

(* Cleaning up takes neither what somebody was granted nor a registration  *)
(* that was granted something.                                             *)
CleaningSparesTheGranted == GrantedClientStays /\ PruningSparesTheLiving

(* What the comment on exchangeCode promises: a code that comes back takes *)
(* the grant it was exchanged for with it.                                 *)
CodeReplayRevokes ==
    \A e \in Exchanges : pc[e] = "done" /\ outcome[e] = "replay" => grant[e] \notin grants

(* What the migration says: a client that got a grant is not cleaned away, *)
(* so that it is still known when it asks for the next one.                *)
GrantedClientIsKnown ==
    \A g \in grants : ClientOf(g) \in UrlClients \cup clients

=============================================================================
