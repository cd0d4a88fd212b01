------------------------------- MODULE SignIn -------------------------------
(***************************************************************************)
(* Signing in with GitHub and keeping the credentials that come of it      *)
(* (internal/usecase/auth.go on internal/adapter/sqlite/auth.go).          *)
(*                                                                         *)
(* A sign-in leaves a state behind, comes back from GitHub with it, is     *)
(* exchanged for credentials and ends in a session.  Whoever has a session *)
(* asks for the GitHub token of its user; if the token is about to expire, *)
(* the refresh token, which GitHub accepts once, is exchanged for the next *)
(* pair and stored, under a mutex per user.  A sign-in stores credentials  *)
(* without that mutex.                                                     *)
(*                                                                         *)
(* Requests run statement by statement beside one another; every call can  *)
(* fail, with or without its effect at GitHub; the process can die.        *)
(* States and session tokens are random, so the request that makes one is  *)
(* its name.  A user of etoki is a row for an account, found by provider   *)
(* and subject, and has the name of the account.                           *)
(***************************************************************************)
EXTENDS Naturals, Sequences, FiniteSets

CONSTANTS
    Starts, Callbacks, TokenCalls, Logouts,     \* the requests
    Accounts,           \* at GitHub
    Logins,             \* equal up to case is equal
    Known,              \* the accounts that signed in before the process began
    StateTTL, SessionTTL, AccessTTL, RefreshTTL,
    RefreshMargin,
    MaxLoginStarts,
    Expiring,           \* the GitHub App lets user tokens expire
    MaxTime,            \* bound on the clock
    MaxCrashes,         \* bound on crashes
    MaxRenames,         \* bound on renaming accounts
    Nobody

Requests == Starts \cup Callbacks \cup TokenCalls \cup Logouts

(* Sessions, and pairs of tokens, have the name of the request they came   *)
(* from; those of the accounts in Known, of the account.                   *)
Sessions == Callbacks \cup Known
Pairs == Callbacks \cup TokenCalls \cup Known

ASSUME SignInAssumption ==
    /\ {StateTTL, SessionTTL, AccessTTL, RefreshTTL, RefreshMargin,
        MaxLoginStarts, MaxTime, MaxCrashes, MaxRenames} \subseteq Nat
    /\ StateTTL > 0 /\ MaxLoginStarts > 0
    /\ Expiring \in BOOLEAN
    /\ Known \subseteq Accounts

ASSUME RequestsAreApart ==
    /\ Starts \cap (Callbacks \cup TokenCalls \cup Logouts) = {}
    /\ Callbacks \cap (TokenCalls \cup Logouts \cup Known) = {}
    /\ TokenCalls \cap (Logouts \cup Known) = {}
    /\ Nobody \notin Requests \cup Accounts \cup Logins

VARIABLES
    clock,
    loginStarts,    \* the times counted, in memory
    states,         \* oauth_states
    sessions,       \* the sessions still in the table
    login,          \* users: the login of a row; Nobody where there is none
    stored,         \* github_tokens: the pair of a user
    mutex,          \* who holds the mutex of a user, in memory
    used,           \* GitHub: the pairs whose refresh token was used
    issuedAt,       \* GitHub: when a pair was issued
    named,          \* GitHub: what an account is called now
    pc,             \* how far every request has got
    at,             \* when it read the clock
    arg,            \* the state a callback brings, the session of a token call
    account,        \* who it is about
    said,           \* what GitHub said an account is called
    found,          \* the pair a token call read
    latest,         \* history: who signed in last under a login
    lost,           \* history: pairs used up without the next being stored
    crashes, renames

memory   == <<loginStarts, mutex>>
tables   == <<states, sessions, login, stored>>
github   == <<used, issuedAt, named>>
request  == <<at, arg, account, said, found>>
history  == <<latest, lost, crashes, renames>>
vars     == <<clock, memory, tables, github, pc, request, history>>

Steps == {"idle", "admit", "saveState", "consume", "exchange", "upsert", "store", "session",
          "lock", "find", "refresh", "save", "done", "refused", "failed"}

TypeOK ==
    /\ clock \in 0 .. MaxTime
    /\ loginStarts \in Seq(0 .. MaxTime) /\ Len(loginStarts) <= MaxLoginStarts
    /\ states \subseteq Starts
    /\ sessions \subseteq Sessions
    /\ login \in [Accounts -> Logins \cup {Nobody}]
    /\ stored \in [Accounts -> Pairs \cup {Nobody}]
    /\ mutex \in [Accounts -> TokenCalls \cup {Nobody}]
    /\ used \cup lost \subseteq Pairs
    /\ issuedAt \in [Pairs -> 0 .. MaxTime]
    /\ named \in [Accounts -> Logins]
    /\ pc \in [Requests -> Steps]
    /\ at \in [Requests -> 0 .. MaxTime]
    /\ arg \in [Requests -> Starts \cup Sessions \cup {Nobody}]
    /\ account \in [Requests -> Accounts \cup {Nobody}]
    /\ said \in [Requests -> Logins \cup {Nobody}]
    /\ found \in [Requests -> Pairs \cup {Nobody}]
    /\ latest \in [Logins -> Accounts \cup {Nobody}]
    /\ crashes \in 0 .. MaxCrashes /\ renames \in 0 .. MaxRenames

-----------------------------------------------------------------------------
(* Time *)

(* Fault: the window of the starts is shorter than the life of a state. *)
WithinShorterWindow(times, t) ==
    LET Recent(u) == t + 1 < u + StateTTL IN SelectSeq(times, Recent)

(* What is left of the window at time t.  The times are dropped from the   *)
(* front only, and those after the first recent one stay, recent or not.   *)
WithinWindow(times, t) ==
    LET Old(i) == times[i] + StateTTL <= t
        k == CHOOSE n \in 0 .. Len(times) :
                /\ \A i \in 1 .. n : Old(i)
                /\ n < Len(times) => ~Old(n + 1)
    IN  SubSeq(times, k + 1, Len(times))

StateExpired(s, t) == at[s] + StateTTL <= t

SessionExpired(s, t) == (IF s \in Known THEN 0 ELSE at[s]) + SessionTTL <= t

AccountOf(s) == IF s \in Known THEN s ELSE account[s]

NeedsRefresh(p) == Expiring /\ issuedAt[p] + AccessTTL <= clock + RefreshMargin

RefreshExpired(p) == issuedAt[p] + RefreshTTL <= clock

-----------------------------------------------------------------------------
(* The process begins on a database in which some accounts have signed in. *)
Init ==
    /\ clock = 0
    /\ loginStarts = <<>> /\ mutex = [a \in Accounts |-> Nobody]
    /\ states = {} /\ sessions = Known
    /\ named \in {f \in [Accounts -> Logins] : \A a, b \in Accounts : f[a] = f[b] => a = b}
    /\ login = [a \in Accounts |-> IF a \in Known THEN named[a] ELSE Nobody]
    /\ stored = [a \in Accounts |-> IF a \in Known THEN a ELSE Nobody]
    /\ used = {} /\ issuedAt = [p \in Pairs |-> 0]
    /\ pc = [r \in Requests |-> "idle"]
    /\ at = [r \in Requests |-> 0]
    /\ arg = [r \in Requests |-> Nobody]
    /\ account = [r \in Requests |-> Nobody]
    /\ said = [r \in Requests |-> Nobody]
    /\ found = [r \in Requests |-> Nobody]
    /\ latest = [l \in Logins |-> IF \E a \in Known : named[a] = l
                                  THEN CHOOSE a \in Known : named[a] = l ELSE Nobody]
    /\ lost = {} /\ crashes = 0 /\ renames = 0

Tick ==
    /\ clock < MaxTime
    /\ clock' = clock + 1
    /\ UNCHANGED <<memory, tables, github, pc, request, history>>

(* An account is renamed at GitHub; etoki is not told. *)
Rename(a, l) ==
    /\ renames < MaxRenames
    /\ \A b \in Accounts : named[b] # l
    /\ named' = [named EXCEPT ![a] = l]
    /\ renames' = renames + 1
    /\ UNCHANGED <<clock, memory, tables, used, issuedAt, pc, request, latest, lost, crashes>>

Goto(r, step) == pc' = [pc EXCEPT ![r] = step]

-----------------------------------------------------------------------------
(* Starting to sign in *)

(* Start reads the clock before it asks for the mutex of the window. *)
Start(r) ==
    /\ pc[r] = "idle"
    /\ at' = [at EXCEPT ![r] = clock]
    /\ Goto(r, "admit")
    /\ UNCHANGED <<clock, memory, tables, github, arg, account, said, found, history>>

AdmitLoginStart(r) ==
    LET kept == WithinWindow(loginStarts, at[r]) IN
    /\ pc[r] = "admit"
    /\ \/ /\ Len(kept) >= MaxLoginStarts
          /\ loginStarts' = kept
          /\ Goto(r, "refused")
       \/ /\ Len(kept) < MaxLoginStarts
          /\ loginStarts' = Append(kept, at[r])
          /\ Goto(r, "saveState")
    /\ UNCHANGED <<clock, mutex, tables, github, request, history>>

SaveState(r) ==
    /\ pc[r] = "saveState"
    /\ states' = {s \in states : ~StateExpired(s, at[r])} \cup {r}
    /\ Goto(r, "done")
    /\ UNCHANGED <<clock, memory, sessions, login, stored, github, request, history>>

-----------------------------------------------------------------------------
(* Coming back from GitHub *)

(* The callback, with a state that was issued; perhaps not the first one   *)
(* with it.                                                                *)
Complete(r, s) ==
    /\ pc[r] = "idle"
    /\ pc[s] = "done"
    /\ at' = [at EXCEPT ![r] = clock]
    /\ arg' = [arg EXCEPT ![r] = s]
    /\ Goto(r, "consume")
    /\ UNCHANGED <<clock, memory, tables, github, account, said, found, history>>

(* Fault: the state is looked up and stays in the table. *)
LeftAfterUse(r) == {s \in states : ~StateExpired(s, at[r])}

LeftByConsume(r) == {s \in states : ~StateExpired(s, at[r])} \ {arg[r]}

(* DELETE .. RETURNING: the state is checked and used up in one statement. *)
ConsumeState(r) ==
    /\ pc[r] = "consume"
    /\ states' = LeftByConsume(r)
    /\ Goto(r, IF arg[r] \in states /\ ~StateExpired(arg[r], at[r]) THEN "exchange" ELSE "refused")
    /\ UNCHANGED <<clock, memory, sessions, login, stored, github, request, history>>

(* GitHub turns the code into a pair and says whose it is. *)
Exchange(r, a) ==
    /\ pc[r] = "exchange"
    /\ issuedAt' = [issuedAt EXCEPT ![r] = clock]
    /\ account' = [account EXCEPT ![r] = a]
    /\ said' = [said EXCEPT ![r] = named[a]]
    /\ Goto(r, "upsert")
    /\ UNCHANGED <<clock, memory, tables, used, named, at, arg, found, history>>

(* Fault: no other row gives up the login. *)
LoginsUnreleased(a, l) == [login EXCEPT ![a] = l]

(* The login goes to the row of a; any other row with it is without. *)
LoginsAfter(a, l) ==
    [b \in Accounts |-> IF b = a THEN l ELSE IF login[b] = l THEN Nobody ELSE login[b]]

UpsertUser(r) ==
    /\ pc[r] = "upsert"
    /\ login' = LoginsAfter(account[r], said[r])
    /\ latest' = [latest EXCEPT ![said[r]] = account[r]]
    /\ Goto(r, "store")
    /\ UNCHANGED <<clock, memory, states, sessions, stored, github, request,
                   lost, crashes, renames>>

StoreCredentials(r) ==
    /\ pc[r] = "store"
    /\ stored' = [stored EXCEPT ![account[r]] = r]
    /\ Goto(r, "session")
    /\ UNCHANGED <<clock, memory, states, sessions, login, github, request, history>>

CreateSession(r) ==
    /\ pc[r] = "session"
    /\ sessions' = {s \in sessions : ~SessionExpired(s, at[r])} \cup {r}
    /\ Goto(r, "done")
    /\ UNCHANGED <<clock, memory, states, login, stored, github, request, history>>

-----------------------------------------------------------------------------
(* The GitHub token of a signed-in user *)

(* The session is resolved when the request arrives, and not again. *)
Resolve(r, s) ==
    /\ pc[r] = "idle"
    /\ s \in sessions /\ ~SessionExpired(s, clock)
    /\ arg' = [arg EXCEPT ![r] = s]
    /\ account' = [account EXCEPT ![r] = AccountOf(s)]
    /\ Goto(r, "lock")
    /\ UNCHANGED <<clock, memory, tables, github, at, said, found, history>>

(* Fault: refreshing is not serialised. *)
RefreshAnyTime(r) == TRUE

MayLock(r) == mutex[account[r]] = Nobody

LockUser(r) ==
    /\ pc[r] = "lock"
    /\ MayLock(r)
    /\ mutex' = [mutex EXCEPT ![account[r]] = r]
    /\ Goto(r, "find")
    /\ UNCHANGED <<clock, loginStarts, tables, github, request, history>>

(* Every way out of Token unlocks; a request outside holds nothing. *)
Unlocked(r) == [a \in Accounts |-> IF mutex[a] = r THEN Nobody ELSE mutex[a]]

FindCredentials(r) ==
    LET p == stored[account[r]] IN
    /\ pc[r] = "find"
    /\ \/ /\ p # Nobody /\ NeedsRefresh(p) /\ ~RefreshExpired(p)
          /\ found' = [found EXCEPT ![r] = p]
          /\ Goto(r, "refresh")
          /\ UNCHANGED mutex
       \/ /\ p # Nobody /\ ~NeedsRefresh(p)
          /\ mutex' = Unlocked(r)
          /\ Goto(r, "done")
          /\ UNCHANGED found
       \/ /\ p # Nobody => NeedsRefresh(p) /\ RefreshExpired(p)
          /\ mutex' = Unlocked(r)
          /\ Goto(r, "refused")
          /\ UNCHANGED found
    /\ UNCHANGED <<clock, loginStarts, tables, github, at, arg, account, said, history>>

Accepted(p) == p \notin used /\ ~RefreshExpired(p)

(* Fault: the mutex covers the call and not the storing of its answer. *)
HeldWhileCalling(r) == Unlocked(r)

HeldAfterRefresh(r) == mutex

Refresh(r) ==
    /\ pc[r] = "refresh"
    /\ Accepted(found[r])
    /\ used' = used \cup {found[r]}
    /\ issuedAt' = [issuedAt EXCEPT ![r] = clock]
    /\ mutex' = HeldAfterRefresh(r)
    /\ Goto(r, "save")
    /\ UNCHANGED <<clock, loginStarts, tables, named, request, history>>

(* bad_refresh_token *)
RefreshRefused(r) ==
    /\ pc[r] = "refresh"
    /\ ~Accepted(found[r])
    /\ mutex' = Unlocked(r)
    /\ Goto(r, "refused")
    /\ UNCHANGED <<clock, loginStarts, tables, github, request, history>>

SaveCredentials(r) ==
    /\ pc[r] = "save"
    /\ stored' = [stored EXCEPT ![account[r]] = r]
    /\ mutex' = Unlocked(r)
    /\ Goto(r, "done")
    /\ UNCHANGED <<clock, loginStarts, states, sessions, login, github, request, history>>

-----------------------------------------------------------------------------
Logout(r, s) ==
    /\ pc[r] = "idle"
    /\ sessions' = sessions \ {s}
    /\ arg' = [arg EXCEPT ![r] = s]
    /\ Goto(r, "done")
    /\ UNCHANGED <<clock, memory, states, login, stored, github,
                   at, account, said, found, history>>

Under(r) == pc[r] \notin {"idle", "done", "refused", "failed"}

(* The pairs a request in the middle of storing the next one gives up. *)
GivenUp(S) == {found[r] : r \in {r \in S : pc[r] = "save"}}

(* A statement or a call fails, or the client goes away. *)
Fail(r) ==
    /\ Under(r) /\ pc[r] # "lock"
    /\ mutex' = Unlocked(r)
    /\ lost' = lost \cup GivenUp({r})
    /\ Goto(r, "failed")
    /\ UNCHANGED <<clock, loginStarts, tables, github, request, latest, crashes, renames>>

(* GitHub refreshed, and the answer does not arrive. *)
RefreshUnanswered(r) ==
    /\ pc[r] = "refresh"
    /\ Accepted(found[r])
    /\ used' = used \cup {found[r]}
    /\ lost' = lost \cup {found[r]}
    /\ mutex' = Unlocked(r)
    /\ Goto(r, "failed")
    /\ UNCHANGED <<clock, loginStarts, tables, issuedAt, named, request, latest, crashes, renames>>

(* The process ends and begins again: what it kept in memory is gone. *)
Crash ==
    /\ crashes < MaxCrashes
    /\ crashes' = crashes + 1
    /\ lost' = lost \cup GivenUp(Requests)
    /\ loginStarts' = <<>>
    /\ mutex' = [a \in Accounts |-> Nobody]
    /\ pc' = [r \in Requests |-> IF Under(r) THEN "failed" ELSE pc[r]]
    /\ UNCHANGED <<clock, tables, github, request, latest, renames>>

(* No request is left, and the clock stands at its bound. *)
Quiet ==
    /\ clock = MaxTime
    /\ \A r \in Requests : ~Under(r)
    /\ UNCHANGED vars

Next ==
    \/ Tick
    \/ Crash
    \/ Quiet
    \/ \E a \in Accounts, l \in Logins : Rename(a, l)
    \/ \E r \in Starts : Start(r) \/ AdmitLoginStart(r) \/ SaveState(r)
    \/ \E r \in Callbacks :
        \/ \E s \in Starts : Complete(r, s)
        \/ \E a \in Accounts : Exchange(r, a)
        \/ ConsumeState(r) \/ UpsertUser(r) \/ StoreCredentials(r) \/ CreateSession(r)
    \/ \E r \in TokenCalls :
        \/ \E s \in Sessions : Resolve(r, s)
        \/ LockUser(r) \/ FindCredentials(r) \/ SaveCredentials(r)
        \/ Refresh(r) \/ RefreshRefused(r) \/ RefreshUnanswered(r)
    \/ \E r \in Logouts, s \in Sessions : Logout(r, s)
    \/ \E r \in Requests : Fail(r)

Spec == Init /\ [][Next]_vars

-----------------------------------------------------------------------------
(* Properties *)

(* GitHub takes a refresh token once (ADR 0015).  Whoever is about to use  *)
(* one has one nobody used before, unless the answer to the use before was *)
(* never stored: because a call failed or the process died.                *)
SpentOnce ==
    \A r \in TokenCalls : pc[r] = "refresh" => found[r] \notin used \ lost

(* The stored pair can be refreshed, or somebody is about to store the     *)
(* next one; a sign-in that stores its own pair meanwhile does no harm.    *)
StoredIsUsable ==
    \A a \in Accounts : stored[a] \in used =>
        \/ stored[a] \in lost
        \/ \E r \in TokenCalls : pc[r] = "save" /\ found[r] = stored[a]

(* Nobody has to sign in again because two requests, or a request and a    *)
(* sign-in, met while the credentials of a user were being refreshed.      *)
CredentialsSurvive == SpentOnce /\ StoredIsUsable

(* A state lets one callback through, however often its URL is opened.     *)
StateServesOnce ==
    \A r, q \in Callbacks :
        account[r] # Nobody /\ account[q] # Nobody /\ arg[r] = arg[q] => r = q

(* The states waiting for somebody to come back are at most as many as     *)
(* sign-ins may start, for every life of the process: the window is kept   *)
(* in memory, and clocks are read before the mutex is asked for.           *)
StatesBounded ==
    Cardinality({s \in states : ~StateExpired(s, clock)}) <= MaxLoginStarts * (crashes + 1)

(* The row that is found by a login is of the account that signed in with  *)
(* it last, whatever accounts were renamed to it in between (ADR 0053).    *)
LoginIsOfItsLatest ==
    \A a \in Accounts : login[a] # Nobody => latest[login[a]] = a

(* A sign-in is let through once per state, counted, and gives its login   *)
(* to nobody else.                                                         *)
SignInsHold == StateServesOnce /\ StatesBounded /\ LoginIsOfItsLatest

=============================================================================
