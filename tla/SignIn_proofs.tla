---------------------------- MODULE SignIn_proofs ----------------------------
(***************************************************************************)
(* What signing in keeps, for every set of requests, accounts and logins,  *)
(* every number of crashes and renamed accounts, and all times to live:    *)
(* credentials that survive their refreshing, and sign-ins that are let    *)
(* through once, counted, and give their login to nobody else.             *)
(***************************************************************************)
EXTENDS SignIn, WindowLemmas

(* Every kind of request keeps to its own steps. *)
StepsFit ==
    /\ \A r \in Starts : pc[r] \in {"idle", "admit", "saveState", "done", "refused", "failed"}
    /\ \A r \in Callbacks : pc[r] \in {"idle", "consume", "exchange", "upsert", "store", "session",
                                       "done", "refused", "failed"}
    /\ \A r \in TokenCalls : pc[r] \in {"idle", "lock", "find", "refresh", "save",
                                        "done", "refused", "failed"}
    /\ \A r \in Logouts : pc[r] \in {"idle", "done"}
    /\ \A s \in states \cup (sessions \cap Callbacks) : pc[s] = "done"
    /\ \A r \in Starts : at[r] <= clock

(* Whoever reads, refreshes or saves credentials holds the mutex. *)
MutexHeld ==
    \A r \in TokenCalls : pc[r] \in {"find", "refresh", "save"} => mutex[account[r]] = r

(* A request knows whose it is once it acts for somebody. *)
OwnersKnown ==
    /\ \A r \in Callbacks : pc[r] \in {"upsert", "store", "session"} =>
            account[r] \in Accounts /\ said[r] \in Logins
    /\ \A s \in sessions \cap Callbacks : account[s] \in Accounts
    /\ \A r \in TokenCalls : pc[r] # "idle" => account[r] \in Accounts

(* The request that makes a pair has stored it, or cannot any more. *)
Made(p) ==
    \/ p \in Known
    \/ p \in Callbacks /\ pc[p] \in {"session", "done", "failed"} /\ account[p] \in Accounts
    \/ p \in TokenCalls /\ pc[p] = "done" /\ account[p] \in Accounts

(* A pair is stored for, and found by, the account it was issued to. *)
PairsFit ==
    /\ \A a \in Accounts : stored[a] # Nobody => Made(stored[a]) /\ AccountOf(stored[a]) = a
    /\ \A r \in TokenCalls : pc[r] \in {"refresh", "save"} =>
            Made(found[r]) /\ AccountOf(found[r]) = account[r]
    /\ \A p \in used : Made(p)

LetThrough(r) == pc[r] = "exchange" \/ account[r] # Nobody

(* The state of a callback that was let through is used up, by it alone. *)
StatesUsedUp ==
    /\ \A r \in Callbacks : pc[r] \in {"idle", "consume"} => account[r] = Nobody
    /\ \A r \in Callbacks : pc[r] = "consume" \/ LetThrough(r) =>
            arg[r] \in Starts /\ pc[arg[r]] = "done"
    /\ \A r \in Callbacks : LetThrough(r) => arg[r] \notin states
    /\ \A r, q \in Callbacks : LetThrough(r) /\ LetThrough(q) /\ arg[r] = arg[q] => r = q

(* The starts somebody can come back from, or soon will. *)
Waiting == {s \in Starts : (s \in states \/ pc[s] = "saveState") /\ ~StateExpired(s, clock)}

OneToOne(f) == \A i, j \in DOMAIN f : f[i] = f[j] => i = j

(* Those of this life of the process have a place of their own in the      *)
(* window, and there are not too many of the lives before.                 *)
WaitingAreCounted ==
    \E Before \in SUBSET Starts : \E place \in [Waiting \ Before -> 1 .. Len(loginStarts)] :
        /\ IsFiniteSet(Before) /\ Cardinality(Before) <= MaxLoginStarts * crashes
        /\ OneToOne(place)
        /\ \A s \in Waiting \ Before : loginStarts[place[s]] = at[s]

SignInInv ==
    /\ TypeOK /\ StepsFit
    /\ MutexHeld /\ OwnersKnown /\ PairsFit /\ CredentialsSurvive
    /\ StatesUsedUp /\ LoginIsOfItsLatest
    /\ WaitingAreCounted

-----------------------------------------------------------------------------
(* The window *)

(* What is left of the window is its end; what was dropped is too old. *)
LEMMA WindowFacts ==
    ASSUME NEW times \in Seq(0 .. MaxTime), NEW t \in Nat
    PROVE  \E k \in 0 .. Len(times) :
            /\ WithinWindow(times, t) \in Seq(0 .. MaxTime)
            /\ Len(WithinWindow(times, t)) = Len(times) - k
            /\ \A i \in 1 .. Len(times) - k : WithinWindow(times, t)[i] = times[k + i]
            /\ \A i \in 1 .. k : times[i] + StateTTL <= t
<1> DEFINE n == Len(times)
           Old(i) == times[i] + StateTTL <= t
           OldOnes == {i \in 1 .. n : Old(i)}
           First(k) == (\A i \in 1 .. k : Old(i)) /\ (k < n => ~Old(k + 1))
<1>1. n \in Nat /\ \A i \in 1 .. n : times[i] \in 0 .. MaxTime
  BY LenProperties, ElementOfSeq
<1>2. PICK k \in 0 .. n : 1 .. k \subseteq OldOnes /\ (k < n => k + 1 \notin OldOnes)
  <2> HIDE DEF n, Old
  <2> QED
    BY <1>1, FirstKept
<1>3. First(k)
  <2> HIDE DEF Old, n
  <2> QED
    BY <1>1, <1>2
<1> DEFINE c == CHOOSE m \in 0 .. n : First(m)
           w == SubSeq(times, c + 1, n)
<1>4. c \in 0 .. n /\ First(c)
  <2> HIDE DEF First, n
  <2> QED
    BY <1>2, <1>3
<1>5. WithinWindow(times, t) = w
  BY DEF WithinWindow
<1>6. /\ w \in Seq(0 .. MaxTime)
      /\ Len(w) = IF c + 1 <= n THEN n - (c + 1) + 1 ELSE 0
      /\ \A i \in 1 .. n - (c + 1) + 1 : w[i] = times[c + 1 + i - 1]
  <2>1. /\ \A i \in c + 1 .. n : times[i] \in 0 .. MaxTime
        /\ c + 1 \in Nat /\ n \in Nat /\ c \in 0 .. n
    <3> HIDE DEF c
    <3> QED
      BY <1>1, <1>4
  <2> HIDE DEF c
  <2> QED
    BY <2>1, SubSeqProperties
<1>7. Len(w) = n - c /\ \A i \in 1 .. n - c : w[i] = times[c + i]
  <2> HIDE DEF c, w, n
  <2> QED
    BY <1>1, <1>4, <1>6
<1> HIDE DEF c, w
<1> QED
  BY <1>4, <1>5, <1>6, <1>7

(* Whatever has a place of its own among n is at most n. *)
LEMMA PlacesBound ==
    ASSUME NEW D, NEW n \in Nat, NEW f \in [D -> 1 .. n], OneToOne(f)
    PROVE  IsFiniteSet(D) /\ Cardinality(D) <= n
<1>1. f \in Injection(D, 1 .. n)
  BY DEF Injection, IsInjective, OneToOne
<1>2. IsFiniteSet(1 .. n) /\ Cardinality(1 .. n) = n
  BY FS_Interval
<1> QED
  BY <1>1, <1>2, FS_Injection

-----------------------------------------------------------------------------
(* Types and steps *)

LEMMA PairsAreNamed ==
    ASSUME NEW p
    PROVE  /\ Made(p) => p \in Pairs /\ p # Nobody
           /\ Nobody \notin Pairs
<1>1. Nobody \notin Pairs
  BY SignInAssumption, RequestsAreApart DEF Pairs, Requests
<1> QED
  BY <1>1 DEF Made, Pairs

LEMMA TypesKept ==
    ASSUME SignInInv, [Next]_vars
    PROVE  TypeOK'
<1>0. /\ MaxTime \in Nat /\ MaxCrashes \in Nat /\ MaxRenames \in Nat /\ MaxLoginStarts \in Nat \ {0}
      /\ TypeOK /\ StepsFit /\ OwnersKnown /\ PairsFit
      /\ Starts \cup Callbacks \cup TokenCalls \cup Logouts = Requests
      /\ Callbacks \cup TokenCalls \cup Known = Pairs /\ Callbacks \cup Known = Sessions
  BY SignInAssumption DEF SignInInv, Requests, Pairs, Sessions
<1> USE DEF memory, tables, github, request, history, Goto, Steps
<1>1. CASE Tick
  BY <1>0, <1>1 DEF TypeOK, Tick
<1>2. CASE Crash
  <2>1. GivenUp(Requests) \subseteq Pairs
    BY <1>0, PairsAreNamed DEF GivenUp, StepsFit, PairsFit
  <2>2. crashes' \in 0 .. MaxCrashes
    BY <1>0, <1>2 DEF Crash, TypeOK
  <2>3. loginStarts' \in Seq(0 .. MaxTime) /\ Len(loginStarts') <= MaxLoginStarts
    BY <1>0, <1>2 DEF Crash
  <2> QED
    BY <1>2, <1>0, <2>1, <2>2, <2>3 DEF TypeOK, Crash
<1>3. ASSUME NEW a \in Accounts, NEW l \in Logins, Rename(a, l) PROVE TypeOK'
  BY <1>0, <1>3 DEF TypeOK, Rename
<1>4. ASSUME NEW r \in Starts, Start(r) \/ SaveState(r) PROVE TypeOK'
  <2>1. CASE Start(r)
    BY <1>0, <2>1 DEF TypeOK, Start
  <2>2. CASE SaveState(r)
    <3>1. states' \subseteq Starts
      BY <1>0, <2>2 DEF TypeOK, SaveState
    <3> QED
      BY <1>0, <2>2, <3>1 DEF TypeOK, SaveState
  <2> QED
    BY <1>4, <2>1, <2>2
<1>5. ASSUME NEW r \in Starts, AdmitLoginStart(r) PROVE TypeOK'
  <2> DEFINE kept == WithinWindow(loginStarts, at[r])
  <2>1. at[r] \in 0 .. MaxTime /\ at[r] \in Nat /\ loginStarts \in Seq(0 .. MaxTime)
        /\ Len(loginStarts) \in Nat /\ Len(loginStarts) <= MaxLoginStarts
    BY <1>0, LenProperties DEF TypeOK
  <2>2. kept \in Seq(0 .. MaxTime) /\ Len(kept) \in Nat /\ Len(kept) <= Len(loginStarts)
    <3>1. PICK k \in 0 .. Len(loginStarts) : kept \in Seq(0 .. MaxTime) /\ Len(kept) = Len(loginStarts) - k
      BY <2>1, WindowFacts
    <3> HIDE DEF kept
    <3> QED
      BY <2>1, <3>1
  <2> DEFINE more == Append(kept, at[r])
  <2>3. more \in Seq(0 .. MaxTime) /\ Len(more) = Len(kept) + 1
    BY <2>1, <2>2, AppendProperties
  <2> HIDE DEF kept, more
  <2>4. loginStarts' \in Seq(0 .. MaxTime) /\ Len(loginStarts') <= MaxLoginStarts
    <3>1. loginStarts' = kept \/ (Len(kept) < MaxLoginStarts /\ loginStarts' = more)
      BY <1>5 DEF AdmitLoginStart, kept, more
    <3> QED
      BY <1>0, <2>1, <2>2, <2>3, <3>1
  <2> QED
    BY <1>0, <1>5, <2>4 DEF TypeOK, AdmitLoginStart
<1>6. ASSUME NEW r \in Callbacks, NEW s \in Starts, Complete(r, s) PROVE TypeOK'
  BY <1>0, <1>6 DEF TypeOK, Complete
<1>7. ASSUME NEW r \in Callbacks, NEW a \in Accounts, Exchange(r, a) PROVE TypeOK'
  BY <1>0, <1>7 DEF TypeOK, Exchange
<1>8. ASSUME NEW r \in Callbacks, ConsumeState(r) PROVE TypeOK'
  <2>1. states' \subseteq Starts
    BY <1>0, <1>8 DEF TypeOK, ConsumeState, LeftByConsume
  <2> QED
    BY <1>0, <1>8, <2>1 DEF TypeOK, ConsumeState
<1>9. ASSUME NEW r \in Callbacks, UpsertUser(r) PROVE TypeOK'
  <2>1. account[r] \in Accounts /\ said[r] \in Logins
    BY <1>0, <1>9 DEF OwnersKnown, UpsertUser
  <2>2. login' \in [Accounts -> Logins \cup {Nobody}]
    BY <1>0, <1>9, <2>1 DEF UpsertUser, LoginsAfter, TypeOK
  <2> QED
    BY <1>0, <1>9, <2>1, <2>2 DEF TypeOK, UpsertUser
<1>10. ASSUME NEW r \in Callbacks, StoreCredentials(r) \/ CreateSession(r) PROVE TypeOK'
  <2>1. r \in Pairs /\ r \in Sessions /\ stored \in [Accounts -> Pairs \cup {Nobody}] /\ sessions \subseteq Sessions
    BY <1>0 DEF TypeOK
  <2>2. stored' \in [Accounts -> Pairs \cup {Nobody}] /\ sessions' \subseteq Sessions
    BY <1>10, <2>1 DEF StoreCredentials, CreateSession
  <2> QED
    BY <1>0, <1>10, <2>2 DEF TypeOK, StoreCredentials, CreateSession
<1>11. ASSUME NEW r \in TokenCalls, NEW s \in Sessions, Resolve(r, s) PROVE TypeOK'
  <2>1. AccountOf(s) \in Accounts /\ s \in Starts \cup Sessions \cup {Nobody}
    BY <1>0, <1>11, SignInAssumption DEF AccountOf, OwnersKnown, Resolve
  <2> QED
    BY <1>0, <1>11, <2>1 DEF TypeOK, Resolve
<1>m. ASSUME NEW r PROVE Unlocked(r) \in [Accounts -> TokenCalls \cup {Nobody}]
  BY <1>0 DEF Unlocked, TypeOK
<1>12. ASSUME NEW r \in TokenCalls, LockUser(r) PROVE TypeOK'
  BY <1>0, <1>12 DEF TypeOK, LockUser
<1>13. ASSUME NEW r \in TokenCalls, FindCredentials(r) PROVE TypeOK'
  <2>1. account[r] \in Accounts
    BY <1>0, <1>13 DEF OwnersKnown, FindCredentials
  <2>2. mutex' \in [Accounts -> TokenCalls \cup {Nobody}]
    BY <1>0, <1>m, <1>13 DEF FindCredentials, TypeOK
  <2> QED
    BY <1>0, <1>13, <2>1, <2>2 DEF TypeOK, FindCredentials
<1>14. ASSUME NEW r \in TokenCalls, SaveCredentials(r) PROVE TypeOK'
  <2>1. r \in Pairs /\ stored \in [Accounts -> Pairs \cup {Nobody}]
    BY <1>0 DEF TypeOK
  <2>2. stored' \in [Accounts -> Pairs \cup {Nobody}]
    BY <1>14, <2>1 DEF SaveCredentials
  <2>3. mutex' \in [Accounts -> TokenCalls \cup {Nobody}]
    BY <1>14, <1>m DEF SaveCredentials
  <2>4. pc' \in [Requests -> Steps]
    BY <1>0, <1>14 DEF SaveCredentials, TypeOK
  <2>5. UNCHANGED <<clock, loginStarts, states, sessions, login, github, request, history>>
    BY <1>14 DEF SaveCredentials
  <2> QED
    BY <1>0, <2>2, <2>3, <2>4, <2>5 DEF TypeOK
<1>15. ASSUME NEW r \in TokenCalls, Refresh(r) \/ RefreshRefused(r) \/ RefreshUnanswered(r) PROVE TypeOK'
  <2>1. found[r] \in Pairs
    BY <1>0, <1>15, PairsAreNamed DEF PairsFit, Refresh, RefreshRefused, RefreshUnanswered
  <2>2. CASE Refresh(r)
    <3>1. used' \cup lost' \subseteq Pairs /\ issuedAt' \in [Pairs -> 0 .. MaxTime]
      BY <1>0, <2>1, <2>2 DEF TypeOK, Refresh
    <3> QED
      BY <1>0, <2>2, <3>1 DEF TypeOK, Refresh, HeldAfterRefresh
  <2>3. CASE RefreshRefused(r)
    BY <1>0, <1>m, <2>3 DEF TypeOK, RefreshRefused
  <2>4. CASE RefreshUnanswered(r)
    <3>1. used' \cup lost' \subseteq Pairs
      BY <1>0, <2>1, <2>4 DEF TypeOK, RefreshUnanswered
    <3> QED
      BY <1>0, <1>m, <2>4, <3>1 DEF TypeOK, RefreshUnanswered
  <2> QED
    BY <1>15, <2>2, <2>3, <2>4
<1>16. ASSUME NEW r \in Logouts, NEW s \in Sessions, Logout(r, s) PROVE TypeOK'
  BY <1>0, <1>16 DEF TypeOK, Logout
<1>17. ASSUME NEW r \in Requests, Fail(r) PROVE TypeOK'
  <2>1. GivenUp({r}) \subseteq Pairs
    BY <1>0, PairsAreNamed DEF GivenUp, StepsFit, PairsFit
  <2> QED
    BY <1>0, <1>m, <1>17, <2>1 DEF TypeOK, Fail
<1>18. CASE UNCHANGED vars
  BY <1>0, <1>18 DEF TypeOK, vars
<1> QED
  BY <1>1, <1>2, <1>3, <1>4, <1>5, <1>6, <1>7, <1>8, <1>9, <1>10, <1>11, <1>12, <1>13, <1>14, <1>15,
     <1>16, <1>17, <1>18 DEF Next, Quiet

LEMMA StepsKept ==
    ASSUME SignInInv, [Next]_vars
    PROVE  StepsFit'
<1> USE DEF StepsFit, memory, tables, github, request, history, Goto
<1>0. /\ StepsFit /\ MaxTime \in Nat /\ clock \in Nat
      /\ \A r \in Starts : at[r] \in Nat
      /\ pc \in [Requests -> Steps] /\ at \in [Requests -> 0 .. MaxTime]
      /\ states \subseteq Starts /\ sessions \subseteq Sessions
      /\ Starts \cup Callbacks \cup TokenCalls \cup Logouts = Requests
  BY SignInAssumption DEF SignInInv, TypeOK, Requests
<1>1. CASE Tick
  BY <1>0, <1>1 DEF Tick
<1>2. CASE Crash
  BY <1>0, <1>2 DEF Crash, Under
<1>3. ASSUME NEW a \in Accounts, NEW l \in Logins, Rename(a, l) PROVE StepsFit'
  BY <1>0, <1>3 DEF Rename
<1>4. ASSUME NEW r \in Starts, Start(r) PROVE StepsFit'
  BY <1>0, <1>4, RequestsAreApart DEF Start
<1>5. ASSUME NEW r \in Starts, AdmitLoginStart(r) PROVE StepsFit'
  BY <1>0, <1>5, RequestsAreApart DEF AdmitLoginStart
<1>6. ASSUME NEW r \in Starts, SaveState(r) PROVE StepsFit'
  BY <1>0, <1>6, RequestsAreApart DEF SaveState
<1>7. ASSUME NEW r \in Callbacks, NEW s \in Starts, Complete(r, s) PROVE StepsFit'
  BY <1>0, <1>7, RequestsAreApart DEF Complete
<1>8. ASSUME NEW r \in Callbacks, NEW a \in Accounts, Exchange(r, a) PROVE StepsFit'
  BY <1>0, <1>8, RequestsAreApart DEF Exchange
<1>9. ASSUME NEW r \in Callbacks, ConsumeState(r) PROVE StepsFit'
  <2>1. states' \subseteq states
    BY <1>9 DEF ConsumeState, LeftByConsume
  <2> QED
    BY <1>0, <1>9, <2>1, RequestsAreApart DEF ConsumeState
<1>10. ASSUME NEW r \in Callbacks, UpsertUser(r) \/ StoreCredentials(r) PROVE StepsFit'
  BY <1>0, <1>10, RequestsAreApart DEF UpsertUser, StoreCredentials
<1>11. ASSUME NEW r \in Callbacks, CreateSession(r) PROVE StepsFit'
  BY <1>0, <1>11, RequestsAreApart DEF CreateSession
<1>12. ASSUME NEW r \in TokenCalls, NEW s \in Sessions, Resolve(r, s) PROVE StepsFit'
  BY <1>0, <1>12, RequestsAreApart DEF Resolve
<1>13. ASSUME NEW r \in TokenCalls, LockUser(r) \/ SaveCredentials(r) PROVE StepsFit'
  BY <1>0, <1>13, RequestsAreApart DEF LockUser, SaveCredentials
<1>14. ASSUME NEW r \in TokenCalls, FindCredentials(r) PROVE StepsFit'
  BY <1>0, <1>14, RequestsAreApart DEF FindCredentials
<1>15. ASSUME NEW r \in TokenCalls, Refresh(r) \/ RefreshRefused(r) \/ RefreshUnanswered(r) PROVE StepsFit'
  BY <1>0, <1>15, RequestsAreApart DEF Refresh, RefreshRefused, RefreshUnanswered
<1>16. ASSUME NEW r \in Logouts, NEW s \in Sessions, Logout(r, s) PROVE StepsFit'
  BY <1>0, <1>16, RequestsAreApart DEF Logout
<1>17. ASSUME NEW r \in Requests, Fail(r) PROVE StepsFit'
  <2>1. pc' = [pc EXCEPT ![r] = "failed"] /\ pc[r] \notin {"idle", "done"}
        /\ UNCHANGED <<states, sessions, at, clock>>
    BY <1>17 DEF Fail, Under
  <2> QED
    BY <1>0, <2>1
<1>18. CASE UNCHANGED vars
  BY <1>0, <1>18 DEF vars
<1> QED
  BY <1>1, <1>2, <1>3, <1>4, <1>5, <1>6, <1>7, <1>8, <1>9, <1>10, <1>11, <1>12, <1>13, <1>14, <1>15,
     <1>16, <1>17, <1>18 DEF Next, Quiet

-----------------------------------------------------------------------------
(* Owners and the mutex *)

LEMMA OwnersKept ==
    ASSUME SignInInv, [Next]_vars
    PROVE  OwnersKnown'
<1> USE DEF OwnersKnown, memory, tables, github, request, history, Goto
<1>0. /\ StepsFit /\ OwnersKnown
      /\ pc \in [Requests -> Steps] /\ account \in [Requests -> Accounts \cup {Nobody}]
      /\ said \in [Requests -> Logins \cup {Nobody}] /\ named \in [Accounts -> Logins]
      /\ sessions \subseteq Sessions
      /\ Starts \cup Callbacks \cup TokenCalls \cup Logouts = Requests
  BY DEF SignInInv, TypeOK, Requests
<1>2. CASE Crash
  BY <1>0, <1>2 DEF Crash, Under
<1>3. ASSUME NEW r \in Starts, Start(r) \/ AdmitLoginStart(r) \/ SaveState(r) PROVE OwnersKnown'
  BY <1>0, <1>3, RequestsAreApart DEF Start, AdmitLoginStart, SaveState
<1>4. ASSUME NEW r \in Callbacks, (\E s \in Starts : Complete(r, s)) \/ ConsumeState(r) PROVE OwnersKnown'
  BY <1>0, <1>4, RequestsAreApart DEF Complete, ConsumeState
<1>5. ASSUME NEW r \in Callbacks, NEW a \in Accounts, Exchange(r, a) PROVE OwnersKnown'
  BY <1>0, <1>5, RequestsAreApart DEF Exchange, StepsFit
<1>6. ASSUME NEW r \in Callbacks, UpsertUser(r) \/ StoreCredentials(r) PROVE OwnersKnown'
  BY <1>0, <1>6, RequestsAreApart DEF UpsertUser, StoreCredentials
<1>7. ASSUME NEW r \in Callbacks, CreateSession(r) PROVE OwnersKnown'
  BY <1>0, <1>7, RequestsAreApart DEF CreateSession
<1>8. ASSUME NEW r \in TokenCalls, NEW s \in Sessions, Resolve(r, s) PROVE OwnersKnown'
  <2>1. AccountOf(s) \in Accounts
    BY <1>0, <1>8, SignInAssumption DEF AccountOf, Resolve, Sessions
  <2> QED
    BY <1>0, <1>8, <2>1, RequestsAreApart DEF Resolve
<1>9. ASSUME NEW r \in TokenCalls,
             LockUser(r) \/ FindCredentials(r) \/ Refresh(r) \/ RefreshRefused(r)
             \/ RefreshUnanswered(r) \/ SaveCredentials(r)
      PROVE OwnersKnown'
  <2>1. /\ UNCHANGED <<account, said, sessions>> /\ pc[r] # "idle"
        /\ \E step : pc' = [pc EXCEPT ![r] = step]
    BY <1>9 DEF LockUser, FindCredentials, Refresh, RefreshRefused, RefreshUnanswered, SaveCredentials
  <2> QED
    BY <1>0, <2>1, RequestsAreApart
<1>10. ASSUME NEW r \in Logouts, NEW s \in Sessions, Logout(r, s) PROVE OwnersKnown'
  BY <1>0, <1>10, RequestsAreApart DEF Logout
<1>11. ASSUME NEW r \in Requests, Fail(r) PROVE OwnersKnown'
  BY <1>0, <1>11 DEF Fail, Under
<1>12. CASE UNCHANGED <<pc, account, said, sessions>>
  BY <1>0, <1>12
<1> QED
  BY <1>2, <1>3, <1>4, <1>5, <1>6, <1>7, <1>8, <1>9, <1>10, <1>11, <1>12
  DEF Next, Quiet, Tick, Rename, vars

LEMMA MutexKept ==
    ASSUME SignInInv, [Next]_vars
    PROVE  MutexHeld'
<1> USE DEF MutexHeld, memory, tables, github, request, history, Goto
<1>0. /\ StepsFit /\ MutexHeld /\ OwnersKnown /\ Nobody \notin Requests
      /\ pc \in [Requests -> Steps] /\ account \in [Requests -> Accounts \cup {Nobody}]
      /\ mutex \in [Accounts -> TokenCalls \cup {Nobody}]
      /\ Starts \cup Callbacks \cup TokenCalls \cup Logouts = Requests
  BY RequestsAreApart DEF SignInInv, TypeOK, Requests
<1>1. ASSUME NEW r \in Requests, NEW step \in {"done", "refused", "failed"},
             mutex' = Unlocked(r) \/ mutex' = mutex, account' = account, pc' = [pc EXCEPT ![r] = step]
      PROVE  MutexHeld'
  <2>1. ASSUME NEW q \in TokenCalls, pc'[q] \in {"find", "refresh", "save"} PROVE mutex'[account[q]] = q
    <3>1. q # r /\ pc[q] \in {"find", "refresh", "save"}
      BY <1>0, <1>1, <2>1
    <3>2. mutex[account[q]] = q /\ account[q] \in Accounts
      BY <1>0, <3>1 DEF OwnersKnown
    <3> QED
      BY <1>1, <3>1, <3>2 DEF Unlocked
  <2> QED
    BY <1>1, <2>1
<1>2. ASSUME NEW r \in Requests \ TokenCalls, mutex' = mutex,
             \A q \in TokenCalls : pc'[q] = pc[q] /\ account'[q] = account[q]
      PROVE  MutexHeld'
  BY <1>0, <1>2
<1>3. ASSUME NEW r \in Starts, Start(r) \/ AdmitLoginStart(r) \/ SaveState(r) PROVE MutexHeld'
  BY <1>0, <1>3, RequestsAreApart DEF Start, AdmitLoginStart, SaveState
<1>4. ASSUME NEW r \in Callbacks,
             \/ \E s \in Starts : Complete(r, s)
             \/ \E a \in Accounts : Exchange(r, a)
             \/ ConsumeState(r) \/ UpsertUser(r) \/ StoreCredentials(r) \/ CreateSession(r)
      PROVE MutexHeld'
  <2>1. /\ mutex' = mutex /\ (\E step : pc' = [pc EXCEPT ![r] = step])
        /\ account' = account \/ \E a : account' = [account EXCEPT ![r] = a]
    BY <1>4 DEF Complete, Exchange, ConsumeState, UpsertUser, StoreCredentials, CreateSession
  <2>2. r \in Requests \ TokenCalls
    BY <1>0, RequestsAreApart
  <2> QED
    BY <1>0, <1>2, <2>1, <2>2
<1>5. ASSUME NEW r \in TokenCalls, NEW s \in Sessions, Resolve(r, s) PROVE MutexHeld'
  BY <1>0, <1>5 DEF Resolve
<1>6. ASSUME NEW r \in TokenCalls, LockUser(r) PROVE MutexHeld'
  <2>1. account[r] \in Accounts /\ mutex[account[r]] = Nobody
    BY <1>0, <1>6 DEF LockUser, MayLock, OwnersKnown
  <2>2. ASSUME NEW q \in TokenCalls, pc'[q] \in {"find", "refresh", "save"}, q # r
        PROVE  mutex'[account[q]] = q
    <3>1. mutex[account[q]] = q /\ account[q] # account[r]
      BY <1>0, <1>6, <2>1, <2>2 DEF LockUser
    <3> QED
      BY <1>0, <1>6, <2>1, <3>1 DEF LockUser
  <2>3. mutex'[account[r]] = r
    BY <1>0, <1>6, <2>1 DEF LockUser
  <2> QED
    BY <1>6, <2>2, <2>3 DEF LockUser
<1>7. ASSUME NEW r \in TokenCalls, FindCredentials(r) \/ Refresh(r) PROVE MutexHeld'
  <2>1. CASE mutex' = Unlocked(r)
    BY <1>0, <1>1, <1>7, <2>1 DEF FindCredentials, Refresh, HeldAfterRefresh
  <2>2. CASE mutex' = mutex
    BY <1>0, <1>7, <2>2 DEF FindCredentials, Refresh, HeldAfterRefresh
  <2> QED
    BY <1>7, <2>1, <2>2 DEF FindCredentials, Refresh, HeldAfterRefresh
<1>8. ASSUME NEW r \in TokenCalls, RefreshRefused(r) \/ RefreshUnanswered(r) \/ SaveCredentials(r) PROVE MutexHeld'
  BY <1>0, <1>1, <1>8 DEF RefreshRefused, RefreshUnanswered, SaveCredentials
<1>9. ASSUME NEW r \in Logouts, NEW s \in Sessions, Logout(r, s) PROVE MutexHeld'
  BY <1>0, <1>9, RequestsAreApart DEF Logout
<1>10. ASSUME NEW r \in Requests, Fail(r) PROVE MutexHeld'
  BY <1>0, <1>1, <1>10 DEF Fail
<1>11. CASE Crash
  BY <1>0, <1>11 DEF Crash, Under
<1>12. CASE UNCHANGED <<pc, account, mutex>>
  BY <1>0, <1>12
<1> QED
  BY <1>3, <1>4, <1>5, <1>6, <1>7, <1>8, <1>9, <1>10, <1>11, <1>12 DEF Next, Quiet, Tick, Rename, vars

-----------------------------------------------------------------------------
(* Pairs of tokens *)

(* A pair that was made stays made, and stays its account's. *)
LEMMA MadeStays ==
    ASSUME SignInInv, [Next]_vars, NEW p, Made(p)
    PROVE  Made(p)' /\ AccountOf(p)' = AccountOf(p)
<1> USE DEF Made, AccountOf, memory, tables, github, request, history, Goto
<1>0. /\ StepsFit /\ pc \in [Requests -> Steps] /\ account \in [Requests -> Accounts \cup {Nobody}]
      /\ Starts \cup Callbacks \cup TokenCalls \cup Logouts = Requests
      /\ Known \subseteq Accounts
  BY SignInAssumption DEF SignInInv, TypeOK, Requests
<1>1. ASSUME NEW r \in Requests, r # p \/ p \in Known, \E step : pc' = [pc EXCEPT ![r] = step],
             account' = account \/ \E a : account' = [account EXCEPT ![r] = a]
      PROVE  Made(p)' /\ AccountOf(p)' = AccountOf(p)
  BY <1>0, <1>1, RequestsAreApart
<1>2. ASSUME NEW r \in Starts, Start(r) \/ AdmitLoginStart(r) \/ SaveState(r)
      PROVE  Made(p)' /\ AccountOf(p)' = AccountOf(p)
  <2>1. (\E step : pc' = [pc EXCEPT ![r] = step]) /\ account' = account /\ (r # p \/ p \in Known)
    BY <1>2, RequestsAreApart DEF Start, AdmitLoginStart, SaveState
  <2> QED
    BY <1>0, <1>1, <2>1
<1>3. ASSUME NEW r \in Callbacks,
             \/ \E s \in Starts : Complete(r, s)
             \/ \E a \in Accounts : Exchange(r, a)
             \/ ConsumeState(r) \/ UpsertUser(r) \/ StoreCredentials(r)
      PROVE  Made(p)' /\ AccountOf(p)' = AccountOf(p)
  <2>1. /\ \E step : pc' = [pc EXCEPT ![r] = step]
        /\ account' = account \/ \E a : account' = [account EXCEPT ![r] = a]
        /\ pc[r] \notin {"session", "done", "failed"}
    BY <1>3 DEF Complete, Exchange, ConsumeState, UpsertUser, StoreCredentials
  <2> QED
    BY <1>0, <1>1, <2>1, RequestsAreApart
<1>4. ASSUME NEW r \in Callbacks, CreateSession(r)
      PROVE  Made(p)' /\ AccountOf(p)' = AccountOf(p)
  BY <1>0, <1>4, RequestsAreApart DEF CreateSession
<1>5. ASSUME NEW r \in TokenCalls,
             \/ \E s \in Sessions : Resolve(r, s)
             \/ LockUser(r) \/ FindCredentials(r) \/ SaveCredentials(r)
             \/ Refresh(r) \/ RefreshRefused(r) \/ RefreshUnanswered(r)
      PROVE  Made(p)' /\ AccountOf(p)' = AccountOf(p)
  <2>1. /\ \E step : pc' = [pc EXCEPT ![r] = step]
        /\ account' = account \/ \E a : account' = [account EXCEPT ![r] = a]
        /\ pc[r] # "done"
    BY <1>5 DEF Resolve, LockUser, FindCredentials, SaveCredentials, Refresh, RefreshRefused, RefreshUnanswered
  <2> QED
    BY <1>0, <1>1, <2>1, RequestsAreApart
<1>6. ASSUME NEW r \in Logouts, NEW s \in Sessions, Logout(r, s)
      PROVE  Made(p)' /\ AccountOf(p)' = AccountOf(p)
  <2>1. (\E step : pc' = [pc EXCEPT ![r] = step]) /\ account' = account
    BY <1>6 DEF Logout
  <2> QED
    BY <1>0, <1>1, <2>1, RequestsAreApart
<1>7. ASSUME NEW r \in Requests, Fail(r)
      PROVE  Made(p)' /\ AccountOf(p)' = AccountOf(p)
  BY <1>0, <1>7, RequestsAreApart DEF Fail, Under
<1>8. CASE Crash
  BY <1>0, <1>8, RequestsAreApart DEF Crash, Under
<1>9. CASE UNCHANGED <<pc, account>>
  BY <1>9
<1> QED
  BY <1>2, <1>3, <1>4, <1>5, <1>6, <1>7, <1>8, <1>9 DEF Next, Quiet, Tick, Rename, vars

(* What a step does to the pairs: a request stores the one it made, a      *)
(* token call finds the one that is stored or uses the one it found, or a  *)
(* request that was to store the next one gives it up.                     *)
LEMMA PairSteps ==
    ASSUME SignInInv, [Next]_vars
    PROVE  /\ lost \subseteq lost'
           /\ \/ \E r \in Callbacks : StoreCredentials(r)
              \/ \E r \in TokenCalls : SaveCredentials(r)
              \/ \E r \in TokenCalls : FindCredentials(r)
              \/ \E r \in TokenCalls : Refresh(r) \/ RefreshUnanswered(r)
              \/ /\ UNCHANGED <<stored, used, found>>
                 /\ \A r \in TokenCalls :
                    /\ pc'[r] = pc[r] \/ pc'[r] \notin {"refresh", "save"}
                    /\ account'[r] = account[r] \/ pc'[r] \notin {"refresh", "save"}
                    /\ pc[r] = "save" => pc'[r] = "save" \/ found[r] \in lost'
<1> USE DEF memory, tables, github, request, history, Goto
<1>0. /\ StepsFit /\ pc \in [Requests -> Steps] /\ account \in [Requests -> Accounts \cup {Nobody}]
      /\ Starts \cup Callbacks \cup TokenCalls \cup Logouts = Requests
  BY DEF SignInInv, TypeOK, Requests
<1> DEFINE Else == /\ UNCHANGED <<stored, used, found>> /\ lost \subseteq lost'
                   /\ \A r \in TokenCalls :
                       /\ pc'[r] = pc[r] \/ pc'[r] \notin {"refresh", "save"}
                       /\ account'[r] = account[r] \/ pc'[r] \notin {"refresh", "save"}
                       /\ pc[r] = "save" => pc'[r] = "save" \/ found[r] \in lost'
<1>1. ASSUME NEW r \in Starts, Start(r) \/ AdmitLoginStart(r) \/ SaveState(r) PROVE Else
  BY <1>0, <1>1, RequestsAreApart DEF Start, AdmitLoginStart, SaveState
<1>2. ASSUME NEW r \in Callbacks,
             \/ \E s \in Starts : Complete(r, s)
             \/ \E a \in Accounts : Exchange(r, a)
             \/ ConsumeState(r) \/ UpsertUser(r) \/ CreateSession(r)
      PROVE  Else
  <2>1. /\ \E step : pc' = [pc EXCEPT ![r] = step]
        /\ account' = account \/ \E a : account' = [account EXCEPT ![r] = a]
        /\ UNCHANGED <<stored, used, found, lost>>
    BY <1>2 DEF Complete, Exchange, ConsumeState, UpsertUser, CreateSession
  <2> QED
    BY <1>0, <2>1, RequestsAreApart
<1>3. ASSUME NEW r \in TokenCalls, (\E s \in Sessions : Resolve(r, s)) \/ LockUser(r) \/ RefreshRefused(r)
      PROVE  Else
  BY <1>0, <1>3 DEF Resolve, LockUser, RefreshRefused
<1>4. ASSUME NEW r \in Logouts, NEW s \in Sessions, Logout(r, s) PROVE Else
  BY <1>0, <1>4, RequestsAreApart DEF Logout
<1>5. ASSUME NEW r \in Requests, Fail(r) PROVE Else
  BY <1>0, <1>5 DEF Fail, GivenUp
<1>6. ASSUME Crash PROVE Else
  BY <1>0, <1>6 DEF Crash, GivenUp, Under
<1>7. ASSUME Tick \/ (\E a \in Accounts, l \in Logins : Rename(a, l)) \/ UNCHANGED vars
      PROVE  Else
  BY <1>7 DEF Tick, Rename, vars
<1>8. \/ \E r \in Callbacks : StoreCredentials(r)
      \/ \E r \in TokenCalls : SaveCredentials(r) \/ FindCredentials(r) \/ Refresh(r) \/ RefreshUnanswered(r)
      \/ Else
  <2> HIDE DEF Else
  <2> QED
    BY <1>1, <1>2, <1>3, <1>4, <1>5, <1>6, <1>7 DEF Next, Quiet
<1>9. (\E r \in Callbacks : StoreCredentials(r))
        \/ (\E r \in TokenCalls : SaveCredentials(r) \/ FindCredentials(r) \/ Refresh(r) \/ RefreshUnanswered(r))
        => lost \subseteq lost'
  BY DEF StoreCredentials, SaveCredentials, FindCredentials, Refresh, RefreshUnanswered
<1> QED
  BY <1>8, <1>9

LEMMA PairsKept ==
    ASSUME SignInInv, [Next]_vars
    PROVE  PairsFit' /\ CredentialsSurvive'
<1> USE DEF memory, tables, github, request, history, Goto
<1>0. /\ StepsFit /\ MutexHeld /\ OwnersKnown /\ PairsFit /\ SpentOnce /\ StoredIsUsable
      /\ pc \in [Requests -> Steps] /\ account \in [Requests -> Accounts \cup {Nobody}]
      /\ stored \in [Accounts -> Pairs \cup {Nobody}] /\ found \in [Requests -> Pairs \cup {Nobody}]
      /\ Callbacks \subseteq Requests /\ TokenCalls \subseteq Requests
      /\ \A r \in Callbacks : r \notin TokenCalls /\ r \notin Known
      /\ \A r \in TokenCalls : r \notin Known
  BY RequestsAreApart DEF SignInInv, CredentialsSurvive, TypeOK, Requests
<1>m. \A p : Made(p) => Made(p)' /\ AccountOf(p)' = AccountOf(p)
  BY MadeStays
<1>n. /\ \A p \in used : Made(p)
      /\ \A a \in Accounts : stored[a] # Nobody => Made(stored[a]) /\ AccountOf(stored[a]) = a
      /\ \A r \in TokenCalls : pc[r] \in {"refresh", "save"} =>
            Made(found[r]) /\ AccountOf(found[r]) = account[r]
      /\ ~Made(Nobody)
  BY <1>0, PairsAreNamed DEF PairsFit
<1>s. ASSUME \A p \in used' : Made(p)',
             \A a \in Accounts : \A p : stored'[a] = p /\ p # Nobody => Made(p)' /\ AccountOf(p)' = a,
             \A r \in TokenCalls : \A p : pc'[r] \in {"refresh", "save"} /\ p = found'[r] =>
                    Made(p)' /\ AccountOf(p)' = account'[r]
      PROVE  PairsFit'
  BY <1>s DEF PairsFit, Made, AccountOf
<1>1. ASSUME NEW r \in Callbacks \cup TokenCalls, account[r] \in Accounts, ~Made(r),
             Made(r)', AccountOf(r)' = account[r],
             stored' = [stored EXCEPT ![account[r]] = r], UNCHANGED <<used, found, account, lost>>,
             \A q \in TokenCalls : pc'[q] = pc[q] \/ (q = r /\ pc[r] = "save" /\ pc'[r] = "done")
      PROVE  PairsFit' /\ CredentialsSurvive'
  <2>1. PairsFit'
    <3>1. ASSUME NEW a \in Accounts, NEW p, stored'[a] = p, p # Nobody
          PROVE  Made(p)' /\ AccountOf(p)' = a
      BY <1>0, <1>1, <1>m, <1>n, <3>1
    <3>2. ASSUME NEW q \in TokenCalls, NEW p, pc'[q] \in {"refresh", "save"}, p = found'[q]
          PROVE  Made(p)' /\ AccountOf(p)' = account'[q]
      <4>1. pc[q] \in {"refresh", "save"} /\ p = found[q] /\ account'[q] = account[q]
        BY <1>1, <3>2
      <4> QED
        BY <1>m, <1>n, <4>1
    <3> HIDE DEF Made, AccountOf
    <3> QED
      BY <1>1, <1>m, <1>n, <1>s, <3>1, <3>2
  <2>2. SpentOnce'
    BY <1>0, <1>1 DEF SpentOnce
  <2>3. ASSUME NEW a \in Accounts, stored'[a] \in used
        PROVE  \/ stored'[a] \in lost
               \/ \E q \in TokenCalls : pc'[q] = "save" /\ found[q] = stored'[a]
    <3>1. a # account[r] /\ stored'[a] = stored[a]
      BY <1>0, <1>1, <1>n, <2>3
    <3>2. CASE stored[a] \notin lost
      <4>1. PICK q \in TokenCalls : pc[q] = "save" /\ found[q] = stored[a]
        BY <1>0, <2>3, <3>1, <3>2 DEF StoredIsUsable
      <4>2. stored[a] # Nobody
        BY <1>n, <2>3, <3>1
      <4>3. account[q] = a
        BY <1>n, <4>1, <4>2
      <4> QED
        BY <1>1, <3>1, <4>1, <4>3
    <3> QED
      BY <3>1, <3>2
  <2>4. StoredIsUsable'
    BY <1>1, <2>3 DEF StoredIsUsable
  <2> QED
    BY <2>1, <2>2, <2>4 DEF CredentialsSurvive
<1>2. ASSUME NEW r \in Callbacks, StoreCredentials(r) PROVE PairsFit' /\ CredentialsSurvive'
  <2>1. account[r] \in Accounts /\ ~Made(r)
    BY <1>0, <1>2 DEF StoreCredentials, OwnersKnown, Made
  <2>2. Made(r)' /\ AccountOf(r)' = account[r]
    BY <1>0, <1>2, <2>1 DEF StoreCredentials, Made, AccountOf
  <2>3. /\ stored' = [stored EXCEPT ![account[r]] = r] /\ UNCHANGED <<used, found, account, lost>>
        /\ \A q \in TokenCalls : pc'[q] = pc[q]
    BY <1>0, <1>2 DEF StoreCredentials
  <2> QED
    BY <1>1, <2>1, <2>2, <2>3
<1>3. ASSUME NEW r \in TokenCalls, SaveCredentials(r) PROVE PairsFit' /\ CredentialsSurvive'
  <2>1. account[r] \in Accounts /\ ~Made(r)
    BY <1>0, <1>3 DEF SaveCredentials, OwnersKnown, Made
  <2>2. Made(r)' /\ AccountOf(r)' = account[r]
    BY <1>0, <1>3, <2>1 DEF SaveCredentials, Made, AccountOf
  <2>3. /\ stored' = [stored EXCEPT ![account[r]] = r] /\ UNCHANGED <<used, found, account, lost>>
        /\ \A q \in TokenCalls : pc'[q] = pc[q] \/ (q = r /\ pc[r] = "save" /\ pc'[r] = "done")
    BY <1>0, <1>3 DEF SaveCredentials
  <2> QED
    BY <1>1, <2>1, <2>2, <2>3
<1>4. ASSUME NEW r \in TokenCalls, FindCredentials(r) PROVE PairsFit' /\ CredentialsSurvive'
  <2> DEFINE p == stored[account[r]]
  <2>1. /\ pc[r] = "find" /\ UNCHANGED <<stored, used, account, lost>>
        /\ \A q \in TokenCalls : q # r => pc'[q] = pc[q] /\ found'[q] = found[q]
        /\ \/ pc'[r] = "refresh" /\ p # Nobody /\ found'[r] = p
           \/ pc'[r] \in {"done", "refused"}
        /\ mutex[account[r]] = r /\ account[r] \in Accounts
    BY <1>0, <1>4 DEF FindCredentials, MutexHeld, OwnersKnown
  <2>2. p \notin used \ lost
    <3>1. ASSUME p \in used, p \notin lost PROVE FALSE
      <4>1. PICK q \in TokenCalls : pc[q] = "save" /\ found[q] = p
        BY <1>0, <2>1, <3>1 DEF StoredIsUsable
      <4>2. p # Nobody
        BY <1>n, <3>1
      <4>3. account[q] = account[r]
        BY <1>n, <2>1, <4>1, <4>2
      <4>4. mutex[account[q]] = q
        BY <1>0, <4>1 DEF MutexHeld
      <4> QED
        BY <2>1, <4>1, <4>3, <4>4
    <3> QED
      BY <3>1
  <2>3. PairsFit'
    <3>1. ASSUME NEW q \in TokenCalls, NEW o, pc'[q] \in {"refresh", "save"}, o = found'[q]
          PROVE  Made(o)' /\ AccountOf(o)' = account'[q]
      <4>1. Made(o) /\ AccountOf(o) = account[q]
        BY <1>n, <2>1, <3>1
      <4> QED
        BY <1>m, <2>1, <4>1
    <3> QED
      BY <1>m, <1>n, <1>s, <2>1, <3>1
  <2>4. SpentOnce'
    BY <1>0, <2>1, <2>2 DEF SpentOnce
  <2>5. StoredIsUsable'
    BY <1>0, <2>1 DEF StoredIsUsable
  <2> QED
    BY <2>3, <2>4, <2>5 DEF CredentialsSurvive
<1>5. ASSUME NEW r \in TokenCalls, Refresh(r) \/ RefreshUnanswered(r) PROVE PairsFit' /\ CredentialsSurvive'
  <2>1. /\ pc[r] = "refresh" /\ UNCHANGED <<stored, account, found>> /\ used' = used \cup {found[r]}
        /\ lost \subseteq lost'
        /\ \A q \in TokenCalls : q # r => pc'[q] = pc[q]
        /\ \/ pc'[r] = "save"
           \/ pc'[r] = "failed" /\ found[r] \in lost'
        /\ Made(found[r]) /\ mutex[account[r]] = r
    BY <1>0, <1>n, <1>5 DEF Refresh, RefreshUnanswered, MutexHeld
  <2>2. ASSUME NEW q \in TokenCalls, q # r, pc[q] = "refresh" PROVE found[q] # found[r]
    <3>1. mutex[account[q]] = q
      BY <1>0, <2>2 DEF MutexHeld
    <3> QED
      BY <1>n, <2>1, <2>2, <3>1
  <2>3. PairsFit'
    <3>1. ASSUME NEW q \in TokenCalls, NEW o, pc'[q] \in {"refresh", "save"}, o = found'[q]
          PROVE  Made(o)' /\ AccountOf(o)' = account'[q]
      <4>1. Made(o) /\ AccountOf(o) = account[q]
        BY <1>n, <2>1, <3>1
      <4> QED
        BY <1>m, <2>1, <4>1
    <3>2. \A o \in used' : Made(o)'
      BY <1>m, <1>n, <2>1
    <3> QED
      BY <1>m, <1>n, <1>s, <2>1, <3>1, <3>2
  <2>4. SpentOnce'
    BY <1>0, <2>1, <2>2 DEF SpentOnce
  <2>5. StoredIsUsable'
    BY <1>0, <2>1 DEF StoredIsUsable
  <2> QED
    BY <2>3, <2>4, <2>5 DEF CredentialsSurvive
<1>6. ASSUME UNCHANGED <<stored, used, found>>, lost \subseteq lost',
             \A r \in TokenCalls :
                /\ pc'[r] = pc[r] \/ pc'[r] \notin {"refresh", "save"}
                /\ account'[r] = account[r] \/ pc'[r] \notin {"refresh", "save"}
                /\ pc[r] = "save" => pc'[r] = "save" \/ found[r] \in lost'
      PROVE  PairsFit' /\ CredentialsSurvive'
  <2>1. PairsFit'
    BY <1>m, <1>n, <1>s, <1>6
  <2>2. SpentOnce'
    BY <1>0, <1>6 DEF SpentOnce
  <2>3. StoredIsUsable'
    BY <1>0, <1>6 DEF StoredIsUsable
  <2> QED
    BY <2>1, <2>2, <2>3 DEF CredentialsSurvive
<1> QED
  BY <1>2, <1>3, <1>4, <1>5, <1>6, PairSteps

-----------------------------------------------------------------------------
(* States *)

LEMMA UseKept ==
    ASSUME SignInInv, [Next]_vars
    PROVE  StatesUsedUp'
<1> USE DEF StatesUsedUp, LetThrough, memory, tables, github, request, history, Goto
<1>0. /\ StepsFit /\ StatesUsedUp
      /\ pc \in [Requests -> Steps] /\ account \in [Requests -> Accounts \cup {Nobody}]
      /\ arg \in [Requests -> Starts \cup Sessions \cup {Nobody}]
      /\ Starts \cup Callbacks \cup TokenCalls \cup Logouts = Requests
      /\ \A r \in Callbacks : r \notin Starts \cup TokenCalls \cup Logouts
      /\ \A r \in Starts : r \notin Callbacks \cup TokenCalls \cup Logouts
  BY RequestsAreApart DEF SignInInv, TypeOK, Requests
<1>1. ASSUME \A r \in Callbacks : pc'[r] = pc[r] /\ account'[r] = account[r] /\ arg'[r] = arg[r],
             \A r \in Starts : pc[r] = "done" => pc'[r] = "done" /\ (r \in states' => r \in states)
      PROVE  StatesUsedUp'
  BY <1>0, <1>1
<1>2. ASSUME NEW r \in Starts, Start(r) \/ AdmitLoginStart(r) \/ SaveState(r) PROVE StatesUsedUp'
  <2>1. /\ \A q \in Callbacks : pc'[q] = pc[q] /\ account'[q] = account[q] /\ arg'[q] = arg[q]
        /\ \A q \in Starts : pc[q] = "done" => pc'[q] = "done" /\ (q \in states' => q \in states)
    BY <1>0, <1>2 DEF Start, AdmitLoginStart, SaveState
  <2> QED
    BY <1>1, <2>1
<1>3. ASSUME NEW r \in Callbacks, NEW s \in Starts, Complete(r, s) PROVE StatesUsedUp'
  <2>1. /\ pc[r] = "idle" /\ pc[s] = "done" /\ account[r] = Nobody
        /\ pc' = [pc EXCEPT ![r] = "consume"] /\ arg' = [arg EXCEPT ![r] = s]
        /\ UNCHANGED <<account, states>>
    BY <1>0, <1>3 DEF Complete
  <2> QED
    BY <1>0, <2>1
<1>4. ASSUME NEW r \in Callbacks, ConsumeState(r) PROVE StatesUsedUp'
  <2>1. /\ pc[r] = "consume" /\ account[r] = Nobody /\ UNCHANGED <<account, arg>>
        /\ states' \subseteq states \ {arg[r]}
        /\ arg[r] \in Starts /\ pc[arg[r]] = "done"
        /\ \/ pc' = [pc EXCEPT ![r] = "exchange"] /\ arg[r] \in states
           \/ pc' = [pc EXCEPT ![r] = "refused"]
    BY <1>0, <1>4 DEF ConsumeState, LeftByConsume
  <2>2. \A q \in Starts : pc'[q] = pc[q]
    BY <1>0, <2>1
  <2>3. \A q \in Callbacks : q # r => pc'[q] = pc[q]
    BY <1>0, <2>1
  <2>4. CASE pc'[r] = "exchange" /\ arg[r] \in states
    BY <1>0, <2>1, <2>2, <2>3, <2>4
  <2>5. CASE pc'[r] = "refused"
    BY <1>0, <2>1, <2>2, <2>3, <2>5
  <2> QED
    BY <1>0, <2>1, <2>4, <2>5
<1>5. ASSUME NEW r \in Callbacks, NEW a \in Accounts, Exchange(r, a) PROVE StatesUsedUp'
  <2>1. /\ pc[r] = "exchange" /\ pc' = [pc EXCEPT ![r] = "upsert"]
        /\ account' = [account EXCEPT ![r] = a] /\ UNCHANGED <<arg, states>>
    BY <1>5 DEF Exchange
  <2> QED
    BY <1>0, <2>1
<1>6. ASSUME NEW r \in Callbacks, UpsertUser(r) \/ StoreCredentials(r) \/ CreateSession(r) PROVE StatesUsedUp'
  <2>1. /\ pc[r] \in {"upsert", "store", "session"} /\ UNCHANGED <<account, arg, states>>
        /\ \E step \in {"store", "session", "done"} : pc' = [pc EXCEPT ![r] = step]
    BY <1>6 DEF UpsertUser, StoreCredentials, CreateSession
  <2> QED
    BY <1>0, <2>1
<1>7. ASSUME NEW r \in TokenCalls,
             \/ \E s \in Sessions : Resolve(r, s)
             \/ LockUser(r) \/ FindCredentials(r) \/ SaveCredentials(r)
             \/ Refresh(r) \/ RefreshRefused(r) \/ RefreshUnanswered(r)
      PROVE StatesUsedUp'
  <2>1. /\ \E step : pc' = [pc EXCEPT ![r] = step]
        /\ account' = account \/ \E a : account' = [account EXCEPT ![r] = a]
        /\ arg' = arg \/ \E a : arg' = [arg EXCEPT ![r] = a]
        /\ states' = states
    BY <1>7 DEF Resolve, LockUser, FindCredentials, SaveCredentials, Refresh, RefreshRefused, RefreshUnanswered
  <2> QED
    BY <1>0, <1>1, <2>1
<1>8. ASSUME NEW r \in Logouts, NEW s \in Sessions, Logout(r, s) PROVE StatesUsedUp'
  <2>1. /\ \E step : pc' = [pc EXCEPT ![r] = step]
        /\ account' = account /\ arg' = [arg EXCEPT ![r] = s] /\ states' = states
    BY <1>8 DEF Logout
  <2> QED
    BY <1>0, <1>1, <2>1
<1>9. ASSUME NEW r \in Requests, Fail(r) PROVE StatesUsedUp'
  <2>1. /\ pc[r] \notin {"idle", "done"} /\ pc' = [pc EXCEPT ![r] = "failed"]
        /\ UNCHANGED <<account, arg, states>>
    BY <1>9 DEF Fail, Under
  <2> QED
    BY <1>0, <2>1
<1>10. CASE Crash
  <2>1. /\ pc' = [r \in Requests |-> IF Under(r) THEN "failed" ELSE pc[r]]
        /\ UNCHANGED <<account, arg, states>>
    BY <1>10 DEF Crash
  <2> QED
    BY <1>0, <2>1 DEF Under
<1>11. CASE UNCHANGED <<pc, account, arg, states>>
  BY <1>1, <1>11
<1> QED
  BY <1>2, <1>3, <1>4, <1>5, <1>6, <1>7, <1>8, <1>9, <1>10, <1>11 DEF Next, Quiet, Tick, Rename, vars

(* A login belongs to whoever signed in with it last. *)
LEMMA LoginsKept ==
    ASSUME SignInInv, [Next]_vars
    PROVE  LoginIsOfItsLatest'
<1> USE DEF LoginIsOfItsLatest, memory, tables, github, request, history
<1>0. /\ OwnersKnown /\ LoginIsOfItsLatest /\ Nobody \notin Logins
      /\ login \in [Accounts -> Logins \cup {Nobody}] /\ latest \in [Logins -> Accounts \cup {Nobody}]
  BY RequestsAreApart DEF SignInInv, TypeOK
<1>1. ASSUME NEW r \in Callbacks, UpsertUser(r) PROVE LoginIsOfItsLatest'
  <2>1. /\ account[r] \in Accounts /\ said[r] \in Logins
        /\ login' = LoginsAfter(account[r], said[r])
        /\ latest' = [latest EXCEPT ![said[r]] = account[r]]
    BY <1>0, <1>1 DEF OwnersKnown, UpsertUser
  <2> QED
    BY <1>0, <2>1 DEF LoginsAfter
<1>2. CASE UNCHANGED <<login, latest>>
  BY <1>0, <1>2
<1> QED
  BY <1>1, <1>2
  DEF Next, Quiet, Tick, Rename, Crash, Start, AdmitLoginStart, SaveState, Complete, Exchange,
      ConsumeState, StoreCredentials, CreateSession, Resolve, LockUser, FindCredentials,
      SaveCredentials, Refresh, RefreshRefused, RefreshUnanswered, Logout, Fail, vars

-----------------------------------------------------------------------------
(* The starts that somebody can come back from *)

(* What the counting needs of one life: the places of those that began in  *)
(* it, and how many began before.                                          *)
Counted(Before, place) ==
    /\ Before \in SUBSET Starts /\ place \in [Waiting \ Before -> 1 .. Len(loginStarts)]
    /\ IsFiniteSet(Before) /\ Cardinality(Before) <= MaxLoginStarts * crashes
    /\ OneToOne(place)
    /\ \A s \in Waiting \ Before : loginStarts[place[s]] = at[s]

LEMMA CountedMeans == WaitingAreCounted <=> \E Before, place : Counted(Before, place)
BY DEF WaitingAreCounted, Counted

(* All that wait are as many as can have begun in this life and before. *)
LEMMA WaitingBound ==
    ASSUME TypeOK, WaitingAreCounted
    PROVE  IsFiniteSet(Waiting) /\ Cardinality(Waiting) <= MaxLoginStarts * (crashes + 1)
<1>1. PICK Before, place : Counted(Before, place)
  BY CountedMeans
<1> DEFINE D == Waiting \ Before
           n == Len(loginStarts)
<1>2. /\ n \in Nat /\ n <= MaxLoginStarts /\ MaxLoginStarts \in Nat /\ crashes \in Nat
  BY LenProperties, SignInAssumption DEF TypeOK
<1>3. IsFiniteSet(D) /\ Cardinality(D) <= n
  <2> HIDE DEF D, n
  <2>1. place \in [D -> 1 .. n] /\ OneToOne(place)
    BY <1>1 DEF Counted, D, n
  <2> QED
    BY <1>2, <2>1, PlacesBound
<1>4. /\ IsFiniteSet(D \cup Before) /\ Cardinality(D \cup Before) <= Cardinality(D) + Cardinality(Before)
      /\ Cardinality(D) \in Nat /\ Cardinality(Before) \in Nat
  <2> HIDE DEF D
  <2>1. IsFiniteSet(Before)
    BY <1>1 DEF Counted
  <2>2. /\ Cardinality(D \cup Before) = Cardinality(D) + Cardinality(Before) - Cardinality(D \cap Before)
        /\ IsFiniteSet(D \cup Before) /\ IsFiniteSet(D \cap Before)
    BY <1>3, <2>1, FS_Union, FS_Intersection
  <2>3. Cardinality(D) \in Nat /\ Cardinality(Before) \in Nat /\ Cardinality(D \cap Before) \in Nat
    BY <1>3, <2>1, <2>2, FS_CardinalityType
  <2> QED
    BY <2>2, <2>3
<1>5. Waiting \in SUBSET (D \cup Before)
  OBVIOUS
<1>6. /\ IsFiniteSet(Waiting) /\ Cardinality(Waiting) <= Cardinality(D \cup Before)
      /\ Cardinality(Waiting) \in Nat /\ Cardinality(D \cup Before) \in Nat
  <2> HIDE DEF D
  <2> QED
    BY <1>4, <1>5, FS_Subset, FS_CardinalityType
<1>7. Cardinality(Before) <= MaxLoginStarts * crashes
  BY <1>1 DEF Counted
<1> DEFINE m == MaxLoginStarts * crashes
<1>8. MaxLoginStarts * (crashes + 1) = m + MaxLoginStarts /\ m \in Nat
  BY <1>2
<1> HIDE DEF D, m, n
<1>9. Cardinality(Waiting) <= m + MaxLoginStarts
  BY <1>2, <1>3, <1>4, <1>6, <1>7, <1>8 DEF m
<1> QED
  BY <1>6, <1>8, <1>9

LEMMA WaitingKept ==
    ASSUME SignInInv, [Next]_vars
    PROVE  WaitingAreCounted'
<1> USE DEF memory, tables, github, request, history, Goto
<1>0. /\ StepsFit /\ TypeOK /\ WaitingAreCounted
      /\ pc \in [Requests -> Steps] /\ at \in [Requests -> 0 .. MaxTime]
      /\ Starts \cup Callbacks \cup TokenCalls \cup Logouts = Requests
      /\ \A r \in Starts : at[r] \in Nat /\ at[r] <= clock
      /\ \A r \in Starts : r \in states => pc[r] = "done"
      /\ \A r \in Starts : r \notin Callbacks \cup TokenCalls \cup Logouts
      /\ StateTTL \in Nat /\ clock \in Nat /\ Len(loginStarts) \in Nat
      /\ loginStarts \in Seq(0 .. MaxTime)
  BY RequestsAreApart, SignInAssumption, LenProperties DEF SignInInv, TypeOK, StepsFit, Requests
<1>1. PICK Before, place : Counted(Before, place)
  BY <1>0, CountedMeans
<1>f. ASSUME NEW W, W = Waiting', NEW new, new \in [W \ Before -> 1 .. Len(loginStarts')], OneToOne(new),
             \A s \in W \ Before : loginStarts'[new[s]] = at'[s], crashes' = crashes
      PROVE  WaitingAreCounted'
  <2>1. Before \in SUBSET Starts /\ IsFiniteSet(Before) /\ Cardinality(Before) <= MaxLoginStarts * crashes'
    BY <1>1, <1>f DEF Counted
  <2> HIDE DEF Waiting
  <2> QED
    BY <1>f, <2>1 DEF WaitingAreCounted, OneToOne
<1>2. ASSUME Waiting' \subseteq Waiting, \A s \in Waiting' : at'[s] = at[s],
             loginStarts' = loginStarts, crashes' = crashes
      PROVE  WaitingAreCounted'
  <2> DEFINE W == Waiting'
             new == [s \in W \ Before |-> place[s]]
  <2>1. new \in [W \ Before -> 1 .. Len(loginStarts')] /\ OneToOne(new)
    BY <1>1, <1>2 DEF Counted, OneToOne
  <2>2. \A s \in W \ Before : loginStarts'[new[s]] = at'[s]
    BY <1>1, <1>2 DEF Counted
  <2> HIDE DEF new
  <2> QED
    BY <1>2, <1>f, <2>1, <2>2
<1>3. ASSUME NEW r \in Starts, AdmitLoginStart(r) PROVE WaitingAreCounted'
  <2> DEFINE kept == WithinWindow(loginStarts, at[r])
             W == Waiting'
  <2>1. PICK k \in 0 .. Len(loginStarts) :
            /\ kept \in Seq(0 .. MaxTime) /\ Len(kept) = Len(loginStarts) - k
            /\ \A i \in 1 .. Len(loginStarts) - k : kept[i] = loginStarts[k + i]
            /\ \A i \in 1 .. k : loginStarts[i] + StateTTL <= at[r]
    BY <1>0, WindowFacts
  <2> DEFINE n == Len(kept)
             more == Append(kept, at[r])
             new == [s \in W \ Before |-> IF s = r THEN n + 1 ELSE place[s] - k]
  <2>2. /\ more \in Seq(0 .. MaxTime) /\ Len(more) = n + 1 /\ more[n + 1] = at[r]
        /\ \A i \in 1 .. n : more[i] = kept[i]
    BY <1>0, <2>1, AppendProperties
  <2>3. /\ r \notin Waiting /\ UNCHANGED <<at, crashes>>
        /\ \/ loginStarts' = more /\ W \subseteq Waiting \cup {r}
           \/ loginStarts' = kept /\ W \subseteq Waiting
    <3>1. /\ UNCHANGED <<at, crashes, states, clock>> /\ r \notin states /\ pc[r] = "admit"
          /\ \/ pc' = [pc EXCEPT ![r] = "saveState"] /\ loginStarts' = more
             \/ pc' = [pc EXCEPT ![r] = "refused"] /\ loginStarts' = kept
      BY <1>0, <1>3 DEF AdmitLoginStart
    <3> HIDE DEF kept, more
    <3> QED
      BY <1>0, <3>1 DEF Waiting, StateExpired
  <2>4. ASSUME NEW s \in Waiting \ Before
        PROVE  place[s] - k \in 1 .. n /\ kept[place[s] - k] = at[s] /\ place[s] \in Nat
    <3>1. /\ place[s] \in 1 .. Len(loginStarts) /\ loginStarts[place[s]] = at[s]
          /\ at[s] \in Nat /\ at[r] \in Nat /\ at[r] <= clock /\ ~(at[s] + StateTTL <= clock)
      BY <1>0, <1>1 DEF Counted, Waiting, StateExpired
    <3>2. ~(place[s] <= k)
      <4>1. ASSUME place[s] <= k PROVE FALSE
        <5>1. loginStarts[place[s]] + StateTTL <= at[r]
          BY <2>1, <3>1, <4>1
        <5> QED
          BY <1>0, <3>1, <5>1
      <4> QED
        BY <4>1
    <3>3. place[s] - k \in 1 .. Len(loginStarts) - k /\ k + (place[s] - k) = place[s]
      BY <1>0, <2>1, <3>1, <3>2
    <3> QED
      BY <1>0, <2>1, <3>1, <3>3, SMTT(30)
  <2>5. n \in Nat /\ k \in Nat
    BY <1>0, <2>1
  <2>6. \A s, t \in Waiting \ Before : place[s] = place[t] => s = t
    BY <1>1 DEF Counted, OneToOne
  <2>7. CASE loginStarts' = more /\ W \subseteq Waiting \cup {r}
    <3> HIDE DEF kept, more, n, W
    <3>1. new \in [W \ Before -> 1 .. n + 1]
      BY <2>4, <2>5, <2>7
    <3>2. OneToOne(new)
      BY <2>4, <2>5, <2>6, <2>7 DEF OneToOne
    <3>3. \A s \in W \ Before : loginStarts'[new[s]] = at'[s]
      BY <2>2, <2>3, <2>4, <2>5, <2>7
    <3> HIDE DEF new
    <3> QED
      BY <1>f, <2>2, <2>3, <2>7, <3>1, <3>2, <3>3 DEF W
  <2>8. CASE loginStarts' = kept /\ W \subseteq Waiting
    <3> HIDE DEF kept, more, W
    <3>1. new \in [W \ Before -> 1 .. n]
      BY <2>3, <2>4, <2>5, <2>8
    <3>2. OneToOne(new)
      BY <2>3, <2>4, <2>5, <2>6, <2>8 DEF OneToOne
    <3>3. \A s \in W \ Before : loginStarts'[new[s]] = at'[s]
      BY <2>3, <2>4, <2>5, <2>8
    <3> HIDE DEF new
    <3> QED
      BY <1>f, <2>3, <2>8, <3>1, <3>2, <3>3 DEF W
  <2> QED
    BY <2>3, <2>7, <2>8
<1>4. CASE Crash
  <2>1. IsFiniteSet(Waiting) /\ Cardinality(Waiting) <= MaxLoginStarts * (crashes + 1)
    BY <1>0, WaitingBound
  <2>2. /\ loginStarts' = << >> /\ crashes' = crashes + 1 /\ UNCHANGED <<states, clock, at>>
        /\ \A s \in Starts : pc'[s] # "saveState"
    BY <1>0, <1>4 DEF Crash, Under
  <2>3. Waiting' \subseteq Waiting /\ Waiting \in SUBSET Starts
    BY <2>2 DEF Waiting, StateExpired
  <2> DEFINE V == Waiting
             W == Waiting'
             new == [s \in W \ V |-> s]
  <2>4. new \in [W \ V -> 1 .. Len(loginStarts')] /\ OneToOne(new) /\ W \ V = {}
    BY <2>3 DEF OneToOne
  <2>5. V \in SUBSET Starts /\ IsFiniteSet(V) /\ Cardinality(V) <= MaxLoginStarts * crashes'
    BY <2>1, <2>2, <2>3
  <2>6. \E B \in SUBSET Starts : \E p \in [W \ B -> 1 .. Len(loginStarts')] :
            /\ IsFiniteSet(B) /\ Cardinality(B) <= MaxLoginStarts * crashes'
            /\ OneToOne(p)
            /\ \A s \in W \ B : loginStarts'[p[s]] = at'[s]
    <3> HIDE DEF V, W, new
    <3> QED
      BY <2>4, <2>5
  <2> HIDE DEF V, new
  <2> QED
    BY <2>6 DEF WaitingAreCounted, OneToOne
<1>5. CASE Tick
  <2>1. Waiting' \subseteq Waiting /\ UNCHANGED <<at, loginStarts, crashes>>
    BY <1>0, <1>5 DEF Tick, Waiting, StateExpired
  <2> QED
    BY <1>2, <2>1
<1>6. ASSUME NEW r \in Starts, Start(r) PROVE WaitingAreCounted'
  <2>1. /\ Waiting' \subseteq Waiting /\ UNCHANGED <<loginStarts, crashes>>
        /\ \A s \in Waiting' : at'[s] = at[s]
    BY <1>0, <1>6 DEF Start, Waiting, StateExpired
  <2> QED
    BY <1>2, <2>1
<1>7. ASSUME NEW r \in Starts, SaveState(r) PROVE WaitingAreCounted'
  <2>1. Waiting' \subseteq Waiting /\ UNCHANGED <<at, loginStarts, crashes>>
    BY <1>0, <1>7 DEF SaveState, Waiting, StateExpired
  <2> QED
    BY <1>2, <2>1
<1>8. ASSUME NEW r \in Requests, UNCHANGED <<loginStarts, crashes, clock>>, states' \subseteq states,
             \A s \in Starts : at'[s] = at[s],
             \A s \in Starts : pc'[s] = "saveState" => pc[s] = "saveState"
      PROVE  WaitingAreCounted'
  <2>1. Waiting' \subseteq Waiting /\ \A s \in Waiting' : at'[s] = at[s]
    BY <1>8 DEF Waiting, StateExpired
  <2> QED
    BY <1>2, <1>8, <2>1
<1>9. ASSUME NEW r \in Callbacks,
             \/ \E s \in Starts : Complete(r, s)
             \/ \E a \in Accounts : Exchange(r, a)
             \/ ConsumeState(r) \/ UpsertUser(r) \/ StoreCredentials(r) \/ CreateSession(r)
      PROVE  WaitingAreCounted'
  <2>1. /\ UNCHANGED <<loginStarts, crashes, clock>> /\ states' \subseteq states
        /\ at' = at \/ \E t : at' = [at EXCEPT ![r] = t]
        /\ \E step : pc' = [pc EXCEPT ![r] = step]
    BY <1>9 DEF Complete, Exchange, ConsumeState, LeftByConsume, UpsertUser, StoreCredentials, CreateSession
  <2> QED
    BY <1>0, <1>8, <2>1
<1>10. ASSUME NEW r \in TokenCalls \cup Logouts,
             \/ \E s \in Sessions : Resolve(r, s) \/ Logout(r, s)
             \/ LockUser(r) \/ FindCredentials(r) \/ SaveCredentials(r)
             \/ Refresh(r) \/ RefreshRefused(r) \/ RefreshUnanswered(r)
      PROVE  WaitingAreCounted'
  <2>1. /\ UNCHANGED <<loginStarts, crashes, clock, states, at>>
        /\ \E step : pc' = [pc EXCEPT ![r] = step]
    BY <1>10 DEF Resolve, Logout, LockUser, FindCredentials, SaveCredentials, Refresh, RefreshRefused,
                 RefreshUnanswered
  <2> QED
    BY <1>0, <1>8, <2>1
<1>11. ASSUME NEW r \in Requests, Fail(r) PROVE WaitingAreCounted'
  <2>1. /\ UNCHANGED <<loginStarts, crashes, clock, states, at>> /\ pc' = [pc EXCEPT ![r] = "failed"]
    BY <1>11 DEF Fail
  <2> QED
    BY <1>0, <1>8, <2>1
<1>12. ASSUME NEW a \in Accounts, NEW l \in Logins, Rename(a, l) PROVE WaitingAreCounted'
  <2>1. Waiting' = Waiting /\ UNCHANGED <<at, loginStarts, crashes>>
    BY <1>12 DEF Rename, Waiting, StateExpired
  <2> QED
    BY <1>2, <2>1
<1>13. CASE UNCHANGED vars
  <2>1. Waiting' = Waiting /\ UNCHANGED <<at, loginStarts, crashes>>
    BY <1>13 DEF vars, Waiting, StateExpired
  <2> QED
    BY <1>2, <2>1
<1> QED
  BY <1>3, <1>4, <1>5, <1>6, <1>7, <1>9, <1>10, <1>11, <1>12, <1>13 DEF Next, Quiet

-----------------------------------------------------------------------------
(* The invariant as a whole *)

LEMMA SignInInvInit == Init => SignInInv
<1> SUFFICES ASSUME Init PROVE SignInInv
  OBVIOUS
<1>0. /\ MaxTime \in Nat /\ MaxCrashes \in Nat /\ MaxRenames \in Nat /\ MaxLoginStarts \in Nat
      /\ Known \subseteq Accounts /\ Known \subseteq Pairs /\ Known \subseteq Sessions
      /\ Nobody \notin Requests \cup Accounts \cup Logins
      /\ Starts \cup Callbacks \cup TokenCalls \cup Logouts = Requests
      /\ Callbacks \cap Known = {}
  BY SignInAssumption, RequestsAreApart DEF Pairs, Sessions, Requests
<1>1. /\ named \in [Accounts -> Logins] /\ \A a, b \in Accounts : named[a] = named[b] => a = b
      /\ login = [a \in Accounts |-> IF a \in Known THEN named[a] ELSE Nobody]
      /\ latest = [l \in Logins |-> IF \E a \in Known : named[a] = l
                                    THEN CHOOSE a \in Known : named[a] = l ELSE Nobody]
  BY DEF Init
<1>2. \A a \in Known : (CHOOSE b \in Known : named[b] = named[a]) = a
  BY <1>0, <1>1
<1>3. latest \in [Logins -> Accounts \cup {Nobody}] /\ login \in [Accounts -> Logins \cup {Nobody}]
  BY <1>0, <1>1
<1>4. LoginIsOfItsLatest
  BY <1>0, <1>1, <1>2 DEF LoginIsOfItsLatest
<1>5. loginStarts \in Seq(0 .. MaxTime) /\ Len(loginStarts) = 0
  BY DEF Init
<1>6. TypeOK
  BY <1>0, <1>1, <1>3, <1>5 DEF Init, TypeOK, Steps
<1>7. StepsFit /\ MutexHeld /\ OwnersKnown /\ StatesUsedUp
  BY <1>0 DEF Init, StepsFit, MutexHeld, OwnersKnown, StatesUsedUp, LetThrough
<1>8. PairsFit /\ CredentialsSurvive
  BY <1>0 DEF Init, PairsFit, Made, AccountOf, CredentialsSurvive, SpentOnce, StoredIsUsable
<1>9. WaitingAreCounted
  <2>1. Waiting = {} /\ crashes = 0
    BY <1>0 DEF Init, Waiting
  <2>2. {} \in SUBSET Starts /\ IsFiniteSet({}) /\ Cardinality({}) <= MaxLoginStarts * crashes
    BY <1>0, <2>1, FS_EmptySet
  <2> DEFINE p == [s \in {} |-> s]
  <2>3. p \in [Waiting \ {} -> 1 .. Len(loginStarts)] /\ OneToOne(p)
    BY <2>1 DEF OneToOne
  <2> HIDE DEF p
  <2> QED
    BY <2>1, <2>2, <2>3 DEF WaitingAreCounted
<1> QED
  BY <1>4, <1>6, <1>7, <1>8, <1>9 DEF SignInInv

LEMMA SignInInvStep == SignInInv /\ [Next]_vars => SignInInv'
<1> SUFFICES ASSUME SignInInv, [Next]_vars PROVE SignInInv'
  OBVIOUS
<1>1. TypeOK' /\ StepsFit'
  BY TypesKept, StepsKept
<1>2. MutexHeld' /\ OwnersKnown'
  BY MutexKept, OwnersKept
<1>3. PairsFit' /\ CredentialsSurvive'
  BY PairsKept
<1>4. StatesUsedUp' /\ LoginIsOfItsLatest'
  BY UseKept, LoginsKept
<1>5. WaitingAreCounted'
  BY WaitingKept
<1> QED
  BY <1>1, <1>2, <1>3, <1>4, <1>5 DEF SignInInv

(* The inductive invariant holds in every state sign-ins can reach. *)
THEOREM SignInInvariant == Spec => []SignInInv
<1> QED
  BY SignInInvInit, SignInInvStep, PTL DEF Spec

(* Every variable of the sign-ins has its type; for the window of starts   *)
(* this says that it never holds more than may start (auth.go, Start).     *)
THEOREM TypeCorrect == Spec => []TypeOK
<1>1. SignInInv => TypeOK
  BY DEF SignInInv
<1> QED
  BY <1>1, SignInInvariant, PTL

(* However many requests of a user meet while its credentials are          *)
(* refreshed, and whenever a sign-in stores its own beside them, nobody    *)
(* uses a refresh token GitHub would not take, and what is stored can be   *)
(* refreshed, unless a call or the process failed in between (auth.go,     *)
(* Token and the mutex per user).                                          *)
THEOREM CredentialsStayUsable == Spec => []CredentialsSurvive
<1>1. SignInInv => CredentialsSurvive
  BY DEF SignInInv
<1> QED
  BY <1>1, SignInInvariant, PTL

LEMMA SignInsFollow == SignInInv => SignInsHold
<1> SUFFICES ASSUME SignInInv PROVE SignInsHold
  OBVIOUS
<1>1. StateServesOnce
  BY DEF SignInInv, StatesUsedUp, LetThrough, StateServesOnce
<1>2. StatesBounded
  <2> DEFINE Young == {s \in states : ~StateExpired(s, clock)}
  <2>1. Young \in SUBSET Waiting
    BY DEF SignInInv, TypeOK, Waiting
  <2>2. IsFiniteSet(Waiting) /\ Cardinality(Waiting) <= MaxLoginStarts * (crashes + 1)
    BY WaitingBound DEF SignInInv
  <2>3. /\ Cardinality(Young) <= Cardinality(Waiting)
        /\ Cardinality(Young) \in Nat /\ Cardinality(Waiting) \in Nat
    BY <2>1, <2>2, FS_Subset, FS_CardinalityType
  <2> DEFINE m == MaxLoginStarts * (crashes + 1)
  <2>4. m \in Nat
    BY SignInAssumption DEF SignInInv, TypeOK
  <2> HIDE DEF m, Young
  <2>5. Cardinality(Young) <= m
    BY <2>2, <2>3, <2>4 DEF m
  <2> QED
    BY <2>5 DEF StatesBounded, m, Young
<1> QED
  BY <1>1, <1>2 DEF SignInInv, SignInsHold

(* A state lets one callback through; those that wait for somebody to come *)
(* back are no more than may start, for every life of the process; and a   *)
(* login finds the account that signed in with it last (auth.go, Start and *)
(* Complete; sqlite/auth.go, ConsumeState and UpsertUser).                 *)
THEOREM SignInsAreSound == Spec => []SignInsHold
<1>1. SignInInv => SignInsHold
  BY SignInsFollow
<1> QED
  BY <1>1, SignInInvariant, PTL
=============================================================================
