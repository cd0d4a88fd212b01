------------------------- MODULE OAuthGrants_proofs -------------------------
(***************************************************************************)
(* What the authorization server keeps, for every set of requests and      *)
(* every lifetime: one grant per code, one live refresh token per grant,   *)
(* nothing left of a revoked grant, and a cleaning that spares the living. *)
(***************************************************************************)
EXTENDS OAuthGrants, TLAPS

(* The types, also of the arguments as a function. *)
TypeInv == TypeOK /\ arg \in [Requests -> Clients \cup Requests \cup {"none"}]

(* At which steps a request of each kind can be. *)
KindOf(step) ==
    CASE step = "register"              -> Registrations
      [] step \in {"client", "save"}    -> Approvals
      [] step = "insert"                -> Registrations \cup Approvals
      [] step \in {"consume", "create"} -> Exchanges
      [] step \in {"use", "add"}        -> Refreshes
      [] step = "find"                  -> Refreshes \cup Revocations
      [] step = "replayed"              -> Pairs
      [] step = "delete"                -> Pairs \cup Revocations
      [] OTHER                          -> Requests

StepsFit == \A r \in Requests : r \in KindOf(pc[r])

(* A request that was begun has an argument of its kind, and what it was   *)
(* sent had been answered before.                                          *)
SentWasAnswered ==
    \A r \in Requests : pc[r] # "idle" =>
        /\ arg[r] \in ArgsOf(r)
        /\ r \notin Registrations /\ arg[r] \in Requests => Answered(arg[r])

(* An outcome is there at the end, but for the mark a replay carries along. *)
AnswersEnd ==
    \A r \in Requests : outcome[r] # "none" =>
        \/ pc[r] = "done"
        \/ outcome[r] = "replay" /\ r \in Refreshes /\ pc[r] \in {"find", "delete", "dead"}

OutcomesFit ==
    \A r \in Requests : /\ outcome[r] = "revoked" => r \in Revocations
                        /\ outcome[r] = "replay" => r \in Pairs
                        /\ pc[r] = "done" => outcome[r] # "none"

(* Grants were issued, tokens were issued and hang from grants. *)
TokensHang ==
    /\ \A g \in grants : Answered(g)
    /\ \A p \in access \cup fresh : Answered(p) /\ GrantOf(p) \in grants

(* Whoever makes a grant of a code, or made one, is who took the code. *)
CodeHasItsTaker ==
    \A e \in Exchanges : pc[e] = "create" \/ outcome[e] = "issued" => taken[arg[e]] = e

(* The grant a refresh or a revocation is about was made. *)
GrantWasMade ==
    \A r \in Refreshes \cup Revocations : grant[r] # "none" => Answered(grant[r])

(* A refresh that holds the used token of its grant and will add the next. *)
Rotating(r) == r \in Refreshes /\ pc[r] \in {"find", "add"} /\ outcome[r] # "replay"

(* Ways forward of a grant: its live refresh token, or who is rotating it. *)
OneWayForward ==
    /\ OneLiveRefresh
    /\ \A r \in Requests, p \in fresh \ used : Rotating(r) => GrantOf(p) # grant[r]
    /\ \A r, s \in Requests : Rotating(r) /\ Rotating(s) /\ grant[r] = grant[s] => r = s

(* What a revocation or a replay of a refresh token has answered is gone. *)
RevokedIsGone ==
    \A r \in Refreshes \cup Revocations :
        pc[r] = "done" /\ outcome[r] \in {"replay", "revoked"} => grant[r] \notin grants

(* A registration that is still there and got a grant has its mark. *)
GrantedAreMarked ==
    \A e \in Exchanges :
        outcome[e] = "issued" /\ ClientOf(e) \in clients => ClientOf(e) \in granted

(* A request that has begun read the clock no later than now. *)
ClockWasRead == \A r \in Requests : at[r] <= clock

StepInv == TypeInv /\ StepsFit /\ SentWasAnswered /\ AnswersEnd /\ OutcomesFit

GrantInv ==
    /\ StepInv
    /\ TokensHang /\ CodeHasItsTaker /\ GrantWasMade
    /\ OneWayForward /\ RevokedIsGone /\ GrantedAreMarked /\ ClockWasRead

-----------------------------------------------------------------------------
(* The actions *)

(* What a request of each kind is sent and where it starts.                *)
LEMMA KindFacts ==
    ASSUME NEW r \in Requests
    PROVE  /\ r \in Registrations =>
                ArgsOf(r) = {"none"} /\ Known(r) = {"none"} /\ FirstStep(r) = "register"
           /\ r \in Approvals =>
                /\ ArgsOf(r) = Clients /\ FirstStep(r) = "client"
                /\ Known(r) = UrlClients \cup {c \in Registrations : Answered(c)}
           /\ r \in Exchanges =>
                /\ ArgsOf(r) = Approvals /\ FirstStep(r) = "consume"
                /\ Known(r) = {c \in Approvals : Answered(c)}
           /\ r \in Refreshes =>
                /\ ArgsOf(r) = Pairs /\ FirstStep(r) = "use"
                /\ Known(r) = {p \in Pairs : Answered(p)}
           /\ r \in Revocations =>
                ArgsOf(r) = Exchanges /\ Known(r) = grants /\ FirstStep(r) = "find"
  BY KindsAreApart DEF Requests, ArgsOf, Known, FirstStep

(* The kinds of request a step can belong to, one line per step.           *)
LEMMA KindFits ==
    ASSUME StepsFit, NEW r \in Requests
    PROVE  /\ pc[r] = "register" => r \in Registrations
           /\ pc[r] \in {"client", "save"} => r \in Approvals
           /\ pc[r] = "insert" => r \in Registrations \cup Approvals
           /\ pc[r] \in {"consume", "create"} => r \in Exchanges
           /\ pc[r] \in {"use", "add"} => r \in Refreshes
           /\ pc[r] = "find" => r \in Refreshes \cup Revocations
           /\ pc[r] = "replayed" => r \in Pairs
           /\ pc[r] = "delete" => r \in Pairs \cup Revocations
  BY DEF StepsFit, KindOf

(* A request at its end takes no step. *)
LEMMA EndsStay ==
    ASSUME NEW r \in Requests, Step(r)
    PROVE  pc[r] \notin {"done", "dead"}
  BY DEF Step, Begin, Fail, PruneClients, InsertClient, FindClient, PruneCodes, InsertCode,
         ConsumeCode, FindReplayedCode, CreateGrant, UseRefreshToken, FindReplayedToken,
         FindGrant, AddTokens, FindOwnGrant, DeleteGrant

(* What is known of a request did not change. *)
Same(q) ==
    /\ pc'[q] = pc[q] /\ at'[q] = at[q] /\ user'[q] = user[q] /\ arg'[q] = arg[q]
    /\ grant'[q] = grant[q] /\ outcome'[q] = outcome[q]

(* A step is about one request only. *)
LEMMA OthersStay ==
    ASSUME TypeInv, NEW r \in Requests, Step(r), NEW q \in Requests, q # r
    PROVE  Same(q)
<1> USE DEF Same, TypeInv, TypeOK, Go, Goto, Answer, request
<1>1. CASE Begin(r) \/ Fail(r)
  BY <1>1 DEF Begin, Fail
<1>2. CASE PruneClients(r) \/ InsertClient(r) \/ FindClient(r) \/ PruneCodes(r) \/ InsertCode(r)
  BY <1>2 DEF PruneClients, InsertClient, FindClient, PruneCodes, InsertCode
<1>3. CASE ConsumeCode(r) \/ FindReplayedCode(r) \/ CreateGrant(r)
  BY <1>3 DEF ConsumeCode, FindReplayedCode, CreateGrant
<1>4. CASE UseRefreshToken(r) \/ FindReplayedToken(r) \/ FindGrant(r) \/ AddTokens(r)
  BY <1>4 DEF UseRefreshToken, FindReplayedToken, FindGrant, AddTokens, AfterReplay
<1>5. CASE FindOwnGrant(r) \/ DeleteGrant(r)
  BY <1>5 DEF FindOwnGrant, DeleteGrant
<1> QED
  BY <1>1, <1>2, <1>3, <1>4, <1>5 DEF Step

(* An answer is final. *)
LEMMA AnsweredStays ==
    ASSUME TypeInv, NEW r \in Requests, Step(r), NEW q \in Requests, pc[q] = "done"
    PROVE  Same(q)
  BY EndsStay, OthersStay
-----------------------------------------------------------------------------
(* The steps and what they are sent *)

LEMMA TypesKept ==
    ASSUME StepInv, NEW r \in Requests, Step(r)
    PROVE  TypeInv'
<1> USE DEF TypeInv, TypeOK, Go, Goto, Answer, request, tables
<1>0. TypeInv
  BY DEF StepInv
<1>k. /\ Registrations \subseteq Requests /\ Approvals \subseteq Requests
      /\ Exchanges \subseteq Requests /\ Refreshes \subseteq Requests
      /\ Pairs = Exchanges \cup Refreshes /\ Clients = UrlClients \cup Registrations
  BY DEF Requests, Pairs, Clients
<1>a. ASSUME UNCHANGED arg PROVE \A q \in Requests : arg'[q] \in ArgsOf(q) \cup {"none"}
  BY <1>0, <1>a
<1>1. CASE Begin(r)
  <2>1. PICK x \in Known(r) : arg' = [arg EXCEPT ![r] = x]
    BY <1>1 DEF Begin
  <2>2. x \in ArgsOf(r) /\ x \in Clients \cup Requests \cup {"none"}
    BY <1>0, <1>k, <2>1, KindFacts DEF Requests
  <2>3. FirstStep(r) \in Steps
    BY KindFacts DEF Requests, Steps
  <2>4. user' \in [Requests -> Users \cup {"none"}] /\ fits' \in [Requests -> BOOLEAN]
    BY <1>0, <1>1, ZenonT(40) DEF Begin
  <2>5. arg' \in [Requests -> Clients \cup Requests \cup {"none"}]
        /\ \A q \in Requests : arg'[q] \in ArgsOf(q) \cup {"none"}
    BY <1>0, <2>1, <2>2
  <2>6. UNCHANGED <<clock, tables, grant, outcome>> /\ at' = [at EXCEPT ![r] = clock]
        /\ pc' = [pc EXCEPT ![r] = FirstStep(r)]
    BY <1>1 DEF Begin
  <2> QED
    BY <1>0, <2>3, <2>4, <2>5, <2>6
<1>2. CASE Fail(r)
  BY <1>0, <1>2, <1>a DEF Fail, Steps
<1>3. CASE PruneClients(r)
  BY <1>0, <1>3, <1>a DEF PruneClients, Steps
<1>4. CASE InsertClient(r)
  BY <1>0, <1>4, <1>a DEF InsertClient, Steps, Outcomes
<1>5. CASE FindClient(r)
  BY <1>0, <1>5, <1>a DEF FindClient, Steps, Outcomes
<1>6. CASE PruneCodes(r) \/ InsertCode(r)
  BY <1>0, <1>6, <1>a DEF PruneCodes, InsertCode, Steps, Outcomes
<1>7. CASE ConsumeCode(r)
  <2>1. r \in Exchanges
    BY <1>7, KindFits DEF ConsumeCode, StepInv
  <2> QED
    BY <1>0, <1>7, <1>a, <2>1 DEF ConsumeCode, Steps, Outcomes
<1>8. CASE FindReplayedCode(r)
  <2>1. arg[r] \in Approvals => taken[arg[r]] \in Exchanges \cup {"none"}
    BY <1>0
  <2> QED
    BY <1>0, <1>8, <1>a, <2>1 DEF FindReplayedCode, Steps, Outcomes
<1>9. CASE CreateGrant(r)
  <2>1. r \in Exchanges /\ r \in Pairs
    BY <1>9, <1>k, KindFits DEF CreateGrant, StepInv
  <2>2. UNCHANGED <<arg, clock, clients, codes, taken, grant, at, user, fits>>
    BY <1>9 DEF CreateGrant
  <2>3. grants' \subseteq Exchanges /\ access' \subseteq Pairs /\ fresh' \subseteq Pairs
        /\ used' \subseteq fresh'
    BY <1>0, <1>9, <2>1 DEF CreateGrant, KeptGrants, HangingFrom, KeptAccess, KeptRefresh
  <2>4. granted' \subseteq clients'
    BY <1>0, <1>9 DEF CreateGrant, Marked
  <2>5. pc' \in [Requests -> Steps] /\ outcome' \in [Requests -> Outcomes]
    BY <1>0, <1>9 DEF CreateGrant, Steps, Outcomes
  <2> QED
    BY <1>0, <1>a, <2>2, <2>3, <2>4, <2>5
<1>10. CASE UseRefreshToken(r)
  <2>1. Usable(r) => GrantOf(arg[r]) \in Exchanges \cup {"none"} /\ arg[r] \in fresh
    BY <1>0, <1>k DEF Usable, GrantOf
  <2> QED
    BY <1>0, <1>10, <1>a, <2>1 DEF UseRefreshToken, Steps
<1>11. CASE FindReplayedToken(r)
  <2>1. arg[r] \in used => GrantOf(arg[r]) \in Exchanges \cup {"none"}
    BY <1>0, <1>k DEF GrantOf
  <2> QED
    BY <1>0, <1>11, <1>a, <2>1 DEF FindReplayedToken, Steps, Outcomes
<1>12. CASE FindGrant(r)
  BY <1>0, <1>12, <1>a DEF FindGrant, AfterReplay, Steps, Outcomes
<1>13. CASE AddTokens(r)
  <2>1. r \in Pairs
    BY <1>13, <1>k, KindFits DEF AddTokens, StepInv
  <2>2. UNCHANGED <<arg, clock, clients, granted, codes, taken, grant, at, user, fits>>
    BY <1>13 DEF AddTokens
  <2>3. grants' \subseteq Exchanges /\ access' \subseteq Pairs /\ fresh' \subseteq Pairs
        /\ used' \subseteq fresh'
    BY <1>0, <1>13, <2>1 DEF AddTokens, KeptGrants, HangingFrom, KeptAccess, KeptRefresh
  <2>4. pc' \in [Requests -> Steps] /\ outcome' \in [Requests -> Outcomes]
    BY <1>0, <1>13 DEF AddTokens, Steps, Outcomes
  <2> QED
    BY <1>0, <1>a, <2>2, <2>3, <2>4
<1>14. CASE FindOwnGrant(r)
  <2>1. arg[r] \in Exchanges \cup {"none"}
    BY <1>0, <1>14, KindFacts DEF FindOwnGrant
  <2> QED
    BY <1>0, <1>14, <1>a, <2>1 DEF FindOwnGrant, Steps, Outcomes
<1>15. CASE DeleteGrant(r)
  BY <1>0, <1>15, <1>a DEF DeleteGrant, HangingFrom, Steps, Outcomes
<1> QED
  BY <1>1, <1>2, <1>3, <1>4, <1>5, <1>6, <1>7, <1>8, <1>9, <1>10, <1>11, <1>12, <1>13,
     <1>14, <1>15 DEF Step

LEMMA KindsOfSteps ==
    /\ KindOf("register") = Registrations /\ KindOf("client") = Approvals
    /\ KindOf("save") = Approvals /\ KindOf("insert") = Registrations \cup Approvals
    /\ KindOf("consume") = Exchanges /\ KindOf("create") = Exchanges
    /\ KindOf("use") = Refreshes /\ KindOf("add") = Refreshes
    /\ KindOf("find") = Refreshes \cup Revocations
    /\ KindOf("replayed") = Pairs /\ KindOf("delete") = Pairs \cup Revocations
    /\ KindOf("done") = Requests /\ KindOf("dead") = Requests /\ KindOf("idle") = Requests
  BY DEF KindOf

(* Where a step leads a request, and with which outcome. *)
Onward(r, step, o) == pc'[r] = step /\ outcome'[r] = o

LEMMA Moves ==
    ASSUME StepInv, NEW r \in Requests, Step(r)
    PROVE  /\ r \in KindOf(pc'[r])
           /\ \/ pc'[r] = "done" /\ outcome'[r] # "none"
              \/ pc'[r] # "done" /\ outcome'[r] = "none"
              \/ outcome'[r] = "replay" /\ r \in Refreshes /\ pc'[r] \in {"find", "delete", "dead"}
           /\ outcome'[r] = "revoked" => r \in Revocations
           /\ outcome'[r] = "replay" => r \in Pairs
<1> USE DEF Go, Goto, Answer, request, tables
<1>0. /\ TypeInv /\ StepsFit /\ AnswersEnd /\ OutcomesFit
      /\ pc \in [Requests -> Steps] /\ outcome \in [Requests -> Outcomes]
      /\ Refreshes \subseteq Pairs
  BY DEF StepInv, TypeInv, TypeOK, Pairs
<1>1. CASE Begin(r)
  <2>1. pc'[r] = FirstStep(r) /\ outcome'[r] = "none"
    BY <1>0, <1>1 DEF Begin, AnswersEnd
  <2> QED
    BY <2>1, KindFacts, KindsOfSteps DEF Requests
<1>2. CASE Fail(r)
  BY <1>0, <1>2, KindsOfSteps DEF Fail, AnswersEnd, OutcomesFit
<1>3. CASE PruneClients(r) \/ InsertClient(r)
  BY <1>0, <1>3, KindFits, KindsOfSteps DEF PruneClients, InsertClient, AnswersEnd
<1>4. CASE FindClient(r)
  BY <1>0, <1>4, KindFits, KindsOfSteps DEF FindClient, AnswersEnd
<1>5. CASE PruneCodes(r) \/ InsertCode(r)
  BY <1>0, <1>5, KindFits, KindsOfSteps DEF PruneCodes, InsertCode, AnswersEnd
<1>6. CASE ConsumeCode(r)
  BY <1>0, <1>6, KindFits, KindsOfSteps DEF ConsumeCode, AnswersEnd, Pairs
<1>7. CASE FindReplayedCode(r) \/ CreateGrant(r)
  BY <1>0, <1>7, KindFits, KindsOfSteps DEF FindReplayedCode, CreateGrant, AnswersEnd, Pairs
<1>8. CASE UseRefreshToken(r) \/ FindReplayedToken(r)
  BY <1>0, <1>8, KindFits, KindsOfSteps DEF UseRefreshToken, FindReplayedToken, AnswersEnd, Pairs
<1>9. CASE FindGrant(r) \/ AddTokens(r)
  BY <1>0, <1>9, KindFits, KindsOfSteps DEF FindGrant, AddTokens, AfterReplay, AnswersEnd, Pairs
<1>10. CASE FindOwnGrant(r)
  BY <1>0, <1>10, KindsOfSteps, KindsAreApart DEF FindOwnGrant, AnswersEnd
<1>11. CASE DeleteGrant(r)
  BY <1>0, <1>11, KindFits, KindsOfSteps DEF DeleteGrant
<1> QED
  BY <1>1, <1>2, <1>3, <1>4, <1>5, <1>6, <1>7, <1>8, <1>9, <1>10, <1>11 DEF Step

(* An argument is given at the beginning, and then stays. *)
LEMMA ArgumentStays ==
    ASSUME TypeInv, NEW r \in Requests, Step(r), ~Begin(r)
    PROVE  arg'[r] = arg[r] /\ pc[r] # "idle"
<1> USE DEF Go, Goto, Answer, request
<1>1. CASE Fail(r) \/ PruneClients(r) \/ InsertClient(r) \/ FindClient(r) \/ PruneCodes(r) \/ InsertCode(r)
  BY <1>1 DEF Fail, PruneClients, InsertClient, FindClient, PruneCodes, InsertCode
<1>2. CASE ConsumeCode(r) \/ FindReplayedCode(r) \/ CreateGrant(r) \/ FindOwnGrant(r) \/ DeleteGrant(r)
  BY <1>2 DEF ConsumeCode, FindReplayedCode, CreateGrant, FindOwnGrant, DeleteGrant
<1>3. CASE UseRefreshToken(r) \/ FindReplayedToken(r) \/ FindGrant(r) \/ AddTokens(r)
  BY <1>3 DEF UseRefreshToken, FindReplayedToken, FindGrant, AddTokens, AfterReplay
<1> QED
  BY <1>1, <1>2, <1>3 DEF Step

LEMMA StepInvKept ==
    ASSUME StepInv, TokensHang, NEW r \in Requests, Step(r)
    PROVE  StepInv'
<1>0. TypeInv /\ TypeInv' /\ StepsFit /\ SentWasAnswered /\ AnswersEnd /\ OutcomesFit
  BY TypesKept DEF StepInv
<1>1. \A q \in Requests : q # r => Same(q)
  BY <1>0, OthersStay
<1>2. \A q \in Requests : Answered(q) => Answered(q)'
  BY <1>0, AnsweredStays DEF Answered, Same
<1>3. StepsFit'
  <2>1. \A q \in Requests : q # r => q \in KindOf(pc'[q])
    BY <1>0, <1>1 DEF StepsFit, Same
  <2>2. \A q \in Requests : q \in KindOf(pc'[q])
    BY <2>1, Moves
  <2> QED
    BY <2>2 DEF StepsFit, KindOf
<1>4. AnswersEnd' /\ OutcomesFit'
  BY <1>0, <1>1, Moves DEF AnswersEnd, OutcomesFit, Same
<1>5. SentWasAnswered'
  <2>1. ASSUME NEW q \in Requests, q # r, pc'[q] # "idle"
        PROVE  arg'[q] \in ArgsOf(q) /\ (q \notin Registrations /\ arg'[q] \in Requests => Answered(arg[q])')
    BY <1>0, <1>1, <1>2, <2>1 DEF SentWasAnswered, Same, Answered
  <2>2. arg'[r] \in ArgsOf(r) /\ (r \notin Registrations /\ arg'[r] \in Requests => Answered(arg[r])')
    <3>1. CASE ~Begin(r)
      BY <1>0, <1>2, <3>1, ArgumentStays DEF SentWasAnswered, Answered
    <3>2. CASE Begin(r)
      <4>1. PICK x \in Known(r) : arg' = [arg EXCEPT ![r] = x]
        BY <3>2 DEF Begin
      <4>2. arg'[r] = x
        BY <1>0, <4>1 DEF TypeInv
      <4>3. x \in ArgsOf(r) /\ (r \notin Registrations /\ x \in Requests => Answered(x))
        BY <1>0, KindFacts, KindsAreApart, OAuthAssumption DEF Requests, Clients, TokensHang, TypeInv, TypeOK
      <4> QED
        BY <1>2, <4>2, <4>3 DEF Answered
    <3> QED
      BY <3>1, <3>2
  <2> QED
    BY <2>1, <2>2 DEF SentWasAnswered, ArgsOf
<1> QED
  BY <1>0, <1>3, <1>4, <1>5 DEF StepInv

-----------------------------------------------------------------------------
(* Grants and tokens *)

(* Only an exchange makes a grant, and only an exchange or a refresh that  *)
(* is about to be answered makes a pair of tokens, its own.                *)
LEMMA WhatIsNew ==
    ASSUME StepInv, NEW r \in Requests, Step(r)
    PROVE  /\ grants' \subseteq grants \cup {r}
           /\ access' \cup fresh' \subseteq access \cup fresh \cup {r}
           /\ fresh' \subseteq fresh \cup {r}
           /\ ~CreateGrant(r) => grants' \subseteq grants
           /\ ~CreateGrant(r) /\ ~AddTokens(r) =>
                access' \subseteq access /\ fresh' \subseteq fresh
<1> USE DEF tables, KeptGrants, KeptAccess, KeptRefresh, HangingFrom
<1>1. CASE CreateGrant(r) \/ AddTokens(r)
  BY <1>1 DEF CreateGrant, AddTokens
<1>2. CASE DeleteGrant(r)
  BY <1>2 DEF DeleteGrant
<1>3. CASE UNCHANGED <<grants, access, fresh>>
  BY <1>3
<1>4. CreateGrant(r) \/ AddTokens(r) \/ DeleteGrant(r) \/ UNCHANGED <<grants, access, fresh>>
  BY DEF Step, Begin, Fail, PruneClients, InsertClient, FindClient, PruneCodes, InsertCode,
         ConsumeCode, FindReplayedCode, UseRefreshToken, FindReplayedToken, FindGrant, FindOwnGrant
<1> QED
  BY <1>1, <1>2, <1>3, <1>4

(* The grant of a pair that was answered is settled. *)
LEMMA GrantOfAnswered ==
    ASSUME TypeInv, NEW r \in Requests, Step(r), NEW p \in Pairs, Answered(p)
    PROVE  GrantOf(p)' = GrantOf(p) /\ Answered(p)'
<1>1. p \in Requests
  BY DEF Pairs, Requests
<1> QED
  BY <1>1, AnsweredStays DEF GrantOf, Answered, Same

(* The tokens that are left hang from grants that are left. *)
LEMMA TokensStayHung ==
    ASSUME StepInv, TokensHang, NEW r \in Requests, Step(r),
           NEW p \in access' \cup fresh', p \in access \cup fresh
    PROVE  GrantOf(p) \in grants'
<1>0. GrantOf(p) \in grants
  BY DEF TokensHang
<1> USE DEF tables, HangingFrom, KeptAccess, KeptRefresh
<1>1. CASE CreateGrant(r)
  <2>1. p = r => FALSE
    BY <1>1, EndsStay DEF TokensHang, Answered
  <2> QED
    BY <1>1, <2>1 DEF CreateGrant
<1>2. CASE AddTokens(r)
  <2>1. p = r => FALSE
    BY <1>2, EndsStay DEF TokensHang, Answered
  <2> QED
    BY <1>0, <1>2, <2>1 DEF AddTokens
<1>3. CASE DeleteGrant(r)
  BY <1>3 DEF DeleteGrant
<1>4. CreateGrant(r) \/ AddTokens(r) \/ DeleteGrant(r) \/ UNCHANGED grants
  BY DEF Step, Begin, Fail, PruneClients, InsertClient, FindClient, PruneCodes, InsertCode,
         ConsumeCode, FindReplayedCode, UseRefreshToken, FindReplayedToken, FindGrant, FindOwnGrant
<1> QED
  BY <1>0, <1>1, <1>2, <1>3, <1>4

LEMMA TokensHangKept ==
    ASSUME StepInv, TokensHang, NEW r \in Requests, Step(r)
    PROVE  TokensHang'
<1>0. /\ TypeInv /\ grants \subseteq Exchanges /\ Exchanges \subseteq Requests
      /\ access \subseteq Pairs /\ fresh \subseteq Pairs
      /\ pc \in [Requests -> Steps] /\ outcome \in [Requests -> Outcomes]
  BY DEF StepInv, TypeInv, TypeOK, Requests
<1>1. CreateGrant(r) => Answered(r)' /\ GrantOf(r)' \in grants'
  BY <1>0, KindFits DEF CreateGrant, StepInv, Answer, Goto, Answered, GrantOf
<1>2. AddTokens(r) /\ r \in fresh' /\ r \notin access \cup fresh => Answered(r)' /\ GrantOf(r)' \in grants'
  BY <1>0, KindFits, KindsAreApart DEF AddTokens, StepInv, Answer, Goto, Answered, GrantOf, StillGranted
<1>3. AddTokens(r) /\ r \in access' /\ r \notin access \cup fresh => r \in fresh'
  BY DEF AddTokens
<1>4. ASSUME NEW g \in grants' PROVE Answered(g)'
  BY <1>0, <1>1, <1>4, WhatIsNew, AnsweredStays DEF TokensHang, Answered, Same
<1>5. ASSUME NEW p \in access' \cup fresh' PROVE Answered(p)' /\ GrantOf(p)' \in grants'
  <2>1. CASE p \in access \cup fresh
    BY <1>0, <1>5, <2>1, TokensStayHung, GrantOfAnswered DEF TokensHang
  <2>2. CASE p \notin access \cup fresh
    <3>1. p = r /\ (CreateGrant(r) \/ AddTokens(r))
      BY <1>5, <2>2, WhatIsNew
    <3> QED
      BY <1>1, <1>2, <1>3, <1>5, <2>2, <3>1
  <2> QED
    BY <2>1, <2>2
<1> QED
  BY <1>4, <1>5 DEF TokensHang

(* A code is taken once: the taker stays. *)
LEMMA TakerStays ==
    ASSUME StepInv, NEW r \in Requests, Step(r), NEW c \in Approvals, taken[c] # "none"
    PROVE  taken'[c] = taken[c]
<1>0. taken \in [Approvals -> Exchanges \cup {"none"}]
  BY DEF StepInv, TypeInv, TypeOK
<1>1. CASE ConsumeCode(r)
  BY <1>0, <1>1 DEF ConsumeCode, Consumable
<1>2. ConsumeCode(r) \/ UNCHANGED taken
  BY DEF Step, Begin, Fail, PruneClients, InsertClient, FindClient, PruneCodes, InsertCode,
         FindReplayedCode, CreateGrant, UseRefreshToken, FindReplayedToken, FindGrant, AddTokens,
         FindOwnGrant, DeleteGrant, tables
<1> QED
  BY <1>1, <1>2

LEMMA TakersKept ==
    ASSUME StepInv, TokensHang, CodeHasItsTaker, NEW r \in Requests, Step(r)
    PROVE  CodeHasItsTaker'
<1>0. /\ TypeInv /\ Exchanges \subseteq Requests /\ pc \in [Requests -> Steps]
      /\ taken \in [Approvals -> Exchanges \cup {"none"}]
  BY DEF StepInv, TypeInv, TypeOK, Requests
<1>1. ASSUME NEW e \in Exchanges, pc[e] = "create" \/ outcome[e] = "issued", arg'[e] = arg[e]
      PROVE  taken'[arg[e]] = e
  <2>1. arg[e] \in Approvals /\ e # "none"
    BY <1>0, <1>1, KindFacts, OAuthAssumption DEF StepInv, SentWasAnswered, AnswersEnd
  <2> QED
    BY <1>1, <2>1, TakerStays DEF CodeHasItsTaker
<1>2. ASSUME NEW e \in Exchanges, e # r, pc'[e] = "create" \/ outcome'[e] = "issued"
      PROVE  taken'[arg'[e]] = e
  BY <1>0, <1>1, <1>2, OthersStay DEF Same
<1>3. ASSUME r \in Exchanges, pc'[r] = "create" \/ outcome'[r] = "issued"
      PROVE  taken'[arg'[r]] = r
  <2>1. CASE ConsumeCode(r)
    <3>1. pc'[r] = "create" => Consumable(r)
      BY <1>0, <2>1 DEF ConsumeCode, Go, Goto, Answer
    <3>2. outcome'[r] # "issued" /\ arg' = arg
      BY <1>0, <2>1 DEF ConsumeCode, Go, Goto, Answer, StepInv, AnswersEnd, TypeInv, TypeOK
    <3>3. arg[r] \in Approvals
      BY <1>3, <2>1, KindFacts DEF ConsumeCode, StepInv, SentWasAnswered
    <3> QED
      BY <1>0, <1>3, <2>1, <3>1, <3>2, <3>3 DEF ConsumeCode
  <2>2. CASE CreateGrant(r)
    BY <1>1, <1>3, <2>2 DEF CreateGrant, Answer
  <2>3. ConsumeCode(r) \/ CreateGrant(r) \/ (pc'[r] # "create" /\ outcome'[r] # "issued")
    <3>1. r \notin Registrations \cup Approvals \cup Refreshes
      BY <1>3, KindsAreApart
    <3>2. CASE Begin(r)
      BY <1>0, <1>3, <3>2, KindFacts DEF Begin, StepInv, AnswersEnd
    <3>3. CASE Fail(r)
      BY <1>0, <3>3, EndsStay DEF Fail, Goto, request, StepInv, AnswersEnd
    <3>4. CASE FindReplayedCode(r)
      BY <1>0, <3>4, EndsStay DEF FindReplayedCode, Go, Goto, Answer, StepInv, AnswersEnd, TypeInv, TypeOK
    <3>5. CASE DeleteGrant(r)
      BY <1>0, <3>5, EndsStay DEF DeleteGrant, Goto, Answer, TypeInv, TypeOK
    <3>6. Begin(r) \/ Fail(r) \/ ConsumeCode(r) \/ CreateGrant(r) \/ FindReplayedCode(r) \/ DeleteGrant(r)
      BY <3>1, <1>3, KindFits, KindsAreApart
      DEF StepInv, Step, PruneClients, InsertClient, FindClient, PruneCodes, InsertCode,
          UseRefreshToken, FindReplayedToken, FindGrant, AddTokens, FindOwnGrant
    <3> QED
      BY <3>2, <3>3, <3>4, <3>5, <3>6
  <2> QED
    BY <1>3, <2>1, <2>2, <2>3
<1> QED
  BY <1>2, <1>3 DEF CodeHasItsTaker

LEMMA GrantsMadeKept ==
    ASSUME StepInv, TokensHang, GrantWasMade, NEW r \in Requests, Step(r)
    PROVE  GrantWasMade'
<1>0. /\ TypeInv /\ Exchanges \subseteq Requests /\ Pairs \subseteq Requests
      /\ Refreshes \cup Revocations \subseteq Requests
      /\ grant \in [Requests -> Exchanges \cup {"none"}]
      /\ grants \subseteq Exchanges /\ used \subseteq fresh
      /\ pc \in [Requests -> Steps] /\ outcome \in [Requests -> Outcomes]
  BY DEF StepInv, TypeInv, TypeOK, Requests, Pairs
<1>1. \A q \in Requests : Answered(q) => Answered(q)'
  BY <1>0, AnsweredStays DEF Answered, Same
<1>2. ASSUME NEW q \in Refreshes \cup Revocations, q # r, grant'[q] # "none" PROVE Answered(grant[q])'
  <2>1. grant'[q] = grant[q] /\ grant[q] \in Requests
    BY <1>0, <1>2, OthersStay DEF Same
  <2> QED
    BY <1>0, <1>1, <1>2, <2>1 DEF GrantWasMade, Answered
<1>3. ASSUME r \in Refreshes \cup Revocations, grant'[r] # "none" PROVE Answered(grant[r])'
  <2>1. CASE UseRefreshToken(r) \/ FindReplayedToken(r)
    <3>1. grant'[r] = grant[r] \/ (arg[r] \in fresh /\ grant'[r] = GrantOf(arg[r]))
      BY <1>0, <2>1 DEF UseRefreshToken, FindReplayedToken, Usable
    <3>2. grant'[r] \in grants \/ grant'[r] = grant[r]
      BY <3>1 DEF TokensHang
    <3> QED
      BY <1>0, <1>1, <1>3, <3>2 DEF GrantWasMade, TokensHang, Answered
  <2>2. CASE FindOwnGrant(r)
    <3>1. grant'[r] = arg[r] /\ arg[r] \in Exchanges /\ r \notin Registrations
      BY <1>0, <2>2, KindFacts, KindsAreApart DEF FindOwnGrant, StepInv, SentWasAnswered
    <3>2. Answered(arg[r])
      BY <1>0, <2>2, <3>1 DEF FindOwnGrant, StepInv, SentWasAnswered
    <3> QED
      BY <1>0, <1>1, <3>1, <3>2 DEF Answered
  <2>3. CASE grant' = grant
    BY <1>0, <1>1, <1>3, <2>3 DEF GrantWasMade, Answered
  <2>4. ~FindReplayedCode(r)
    BY <1>3, KindsAreApart DEF FindReplayedCode
  <2> QED
    BY <2>1, <2>2, <2>3, <2>4
    DEF Step, Begin, Fail, PruneClients, InsertClient, FindClient, PruneCodes, InsertCode,
        ConsumeCode, CreateGrant, FindGrant, AddTokens, DeleteGrant, request
<1> QED
  BY <1>2, <1>3 DEF GrantWasMade

(* Every other step takes ways forward away, or leaves them as they are.   *)
LEMMA RotationStays ==
    ASSUME StepInv, NEW r \in Requests, Step(r),
           ~UseRefreshToken(r), ~AddTokens(r), ~CreateGrant(r)
    PROVE  /\ fresh' \ used' \subseteq fresh \ used
           /\ Rotating(r)' => Rotating(r) /\ grant'[r] = grant[r]
<1>0. /\ TypeInv /\ pc \in [Requests -> Steps] /\ outcome \in [Requests -> Outcomes]
      /\ grant \in [Requests -> Exchanges \cup {"none"}]
  BY DEF StepInv, TypeInv, TypeOK
<1> USE DEF Go, Goto, Answer, request, tables, Rotating
<1>1. CASE Begin(r)
  BY <1>0, <1>1, KindFacts DEF Begin
<1>2. CASE Fail(r) \/ PruneClients(r) \/ InsertClient(r) \/ FindClient(r) \/ PruneCodes(r) \/ InsertCode(r)
  BY <1>0, <1>2 DEF Fail, PruneClients, InsertClient, FindClient, PruneCodes, InsertCode
<1>3. CASE ConsumeCode(r) \/ FindReplayedCode(r)
  BY <1>0, <1>3 DEF ConsumeCode, FindReplayedCode
<1>4. CASE FindReplayedToken(r) \/ FindGrant(r)
  BY <1>0, <1>4 DEF FindReplayedToken, FindGrant, AfterReplay
<1>5. CASE FindOwnGrant(r)
  BY <1>0, <1>5 DEF FindOwnGrant
<1>6. CASE DeleteGrant(r)
  BY <1>0, <1>6 DEF DeleteGrant, HangingFrom
<1> QED
  BY <1>1, <1>2, <1>3, <1>4, <1>5, <1>6 DEF Step

LEMMA OneWayKept ==
    ASSUME StepInv, TokensHang, GrantWasMade, OneWayForward, NEW r \in Requests, Step(r)
    PROVE  OneWayForward'
<1>0. /\ TypeInv /\ pc \in [Requests -> Steps] /\ outcome \in [Requests -> Outcomes]
      /\ grant \in [Requests -> Exchanges \cup {"none"}] /\ grants \subseteq Exchanges
      /\ fresh \subseteq Pairs /\ Refreshes \subseteq Requests /\ Exchanges \subseteq Requests
  BY DEF StepInv, TypeInv, TypeOK, Requests
<1>1. \A p \in fresh : GrantOf(p)' = GrantOf(p)
  BY <1>0, GrantOfAnswered DEF TokensHang
<1>2. \A q \in Requests : q # r => (Rotating(q)' <=> Rotating(q)) /\ grant'[q] = grant[q]
  BY <1>0, OthersStay DEF Same, Rotating
<1>3. CASE UseRefreshToken(r)
  <2>1. CASE Usable(r)
    <3>1. /\ arg[r] \in fresh \ used /\ fresh' = fresh /\ used' = used \cup {arg[r]}
          /\ grant'[r] = GrantOf(arg[r])
      BY <1>0, <1>3, <2>1 DEF UseRefreshToken, Usable
    <3>2. \A p \in fresh' \ used' : p \in fresh \ used /\ p # arg[r]
      BY <3>1
    <3>3. \A p \in fresh \ used : p # arg[r] => GrantOf(p) # grant'[r]
      BY <3>1 DEF OneWayForward, OneLiveRefresh
    <3>4. \A q \in Requests : Rotating(q) => grant[q] # grant'[r]
      BY <3>1 DEF OneWayForward
    <3>5. OneLiveRefresh'
      BY <1>1, <3>1, <3>2 DEF OneWayForward, OneLiveRefresh
    <3>6. \A q \in Requests, p \in fresh' \ used' : Rotating(q)' => GrantOf(p)' # grant'[q]
      BY <1>1, <1>2, <3>1, <3>2, <3>3 DEF OneWayForward
    <3>7. \A q, s \in Requests : Rotating(q)' /\ Rotating(s)' /\ grant'[q] = grant'[s] => q = s
      BY <1>2, <3>4 DEF OneWayForward
    <3> QED
      BY <3>5, <3>6, <3>7 DEF OneWayForward
  <2>2. CASE ~Usable(r)
    <3>1. ~Rotating(r)' /\ UNCHANGED <<fresh, used>>
      BY <1>0, <1>3, <2>2 DEF UseRefreshToken, Go, Goto, Rotating
    <3> QED
      BY <1>1, <1>2, <3>1 DEF OneWayForward, OneLiveRefresh
  <2> QED
    BY <2>1, <2>2
<1>4. ASSUME AddTokens(r) \/ CreateGrant(r)
      PROVE  OneWayForward'
  <2>1. r \notin fresh /\ ~Rotating(r)' /\ UNCHANGED grant
    BY <1>0, <1>4, EndsStay DEF AddTokens, CreateGrant, Answer, Goto, Rotating, TokensHang, Answered
  <2>2. \A p \in fresh' \ used' : p \in fresh \ used \/ (p = r /\ r \in fresh')
    BY <1>4 DEF AddTokens, CreateGrant, HangingFrom, KeptRefresh
  <2>3. ASSUME r \in fresh'
        PROVE  /\ \A p \in fresh \ used : GrantOf(p) # GrantOf(r)'
               /\ \A q \in Requests : q # r /\ Rotating(q) => grant[q] # GrantOf(r)'
    <3>1. CASE AddTokens(r)
      <4>1. GrantOf(r)' = grant[r] /\ Rotating(r)
        BY <2>1, <3>1, KindFits, KindsAreApart DEF AddTokens, GrantOf, Rotating, StepInv, AnswersEnd
      <4> QED
        BY <4>1 DEF OneWayForward
    <3>2. CASE CreateGrant(r)
      <4>1. r \in Exchanges /\ GrantOf(r)' = r /\ ~Answered(r) /\ r # "none"
        BY <3>2, KindFits, OAuthAssumption DEF CreateGrant, GrantOf, StepInv, Answered
      <4>2. \A p \in fresh \ used : GrantOf(p) # r
        BY <4>1 DEF TokensHang
      <4>3. \A q \in Requests : Rotating(q) => grant[q] # r
        BY <4>1 DEF GrantWasMade, Rotating
      <4> QED
        BY <4>1, <4>2, <4>3
    <3> QED
      BY <1>4, <3>1, <3>2
  <2>4. OneLiveRefresh'
    BY <1>1, <2>2, <2>3 DEF OneWayForward, OneLiveRefresh
  <2>5. \A q \in Requests, p \in fresh' \ used' : Rotating(q)' => GrantOf(p)' # grant'[q]
    BY <1>1, <1>2, <2>1, <2>2, <2>3 DEF OneWayForward
  <2>6. \A q, s \in Requests : Rotating(q)' /\ Rotating(s)' /\ grant'[q] = grant'[s] => q = s
    BY <1>2, <2>1 DEF OneWayForward
  <2> QED
    BY <2>4, <2>5, <2>6 DEF OneWayForward
<1>5. CASE ~UseRefreshToken(r) /\ ~AddTokens(r) /\ ~CreateGrant(r)
  <2>1. /\ fresh' \ used' \subseteq fresh \ used
        /\ Rotating(r)' => Rotating(r) /\ grant'[r] = grant[r]
    BY <1>5, RotationStays
  <2> QED
    BY <1>1, <1>2, <2>1 DEF OneWayForward, OneLiveRefresh
<1> QED
  BY <1>3, <1>4, <1>5

LEMMA GoneStay ==
    ASSUME StepInv, GrantWasMade, RevokedIsGone, NEW r \in Requests, Step(r)
    PROVE  RevokedIsGone'
<1>0. /\ TypeInv /\ pc \in [Requests -> Steps] /\ outcome \in [Requests -> Outcomes]
      /\ Refreshes \cup Revocations \subseteq Requests
  BY DEF StepInv, TypeInv, TypeOK, Requests
<1>1. ASSUME NEW q \in Refreshes \cup Revocations, q # r,
             pc'[q] = "done", outcome'[q] \in {"replay", "revoked"}
      PROVE  grant'[q] \notin grants'
  <2>1. Same(q) /\ grant[q] \notin grants
    BY <1>0, <1>1, OthersStay DEF RevokedIsGone, Same
  <2>2. CASE CreateGrant(r)
    <3>1. r # "none" /\ ~Answered(r)
      BY <2>2, KindFits, OAuthAssumption DEF CreateGrant, StepInv, Answered
    <3> QED
      BY <2>1, <3>1, WhatIsNew DEF GrantWasMade, Same
  <2>3. CASE ~CreateGrant(r)
    BY <2>1, <2>3, WhatIsNew DEF Same
  <2> QED
    BY <2>2, <2>3
<1>2. ASSUME r \in Refreshes \cup Revocations, pc'[r] = "done", outcome'[r] \in {"replay", "revoked"}
      PROVE  grant'[r] \notin grants'
  <2>1. r \notin Registrations \cup Approvals \cup Exchanges
    BY <1>2, KindsAreApart
  <2>2. ~Begin(r)
    BY <1>0, <1>2, KindFacts DEF Begin
  <2>3. ~Fail(r)
    BY <1>0, <1>2 DEF Fail, Goto
  <2>4. ~UseRefreshToken(r) /\ ~FindReplayedToken(r)
    BY <1>0, <1>2 DEF UseRefreshToken, FindReplayedToken, Go, Goto, Answer
  <2>5. ~FindGrant(r) /\ ~AddTokens(r) /\ ~FindOwnGrant(r)
    BY <1>0, <1>2 DEF FindGrant, AfterReplay, AddTokens, FindOwnGrant, Go, Goto, Answer
  <2>6. DeleteGrant(r)
    BY <2>1, <2>2, <2>3, <2>4, <2>5, KindFits
    DEF StepInv, Step, PruneClients, InsertClient, FindClient, PruneCodes, InsertCode,
        ConsumeCode, FindReplayedCode, CreateGrant, Pairs
  <2> QED
    BY <2>6 DEF DeleteGrant
<1> QED
  BY <1>1, <1>2 DEF RevokedIsGone

(* Of an exchange that was answered, the client is settled, and it is not  *)
(* the one that is just being registered.                                  *)
LEMMA ClientOfAnswered ==
    ASSUME StepInv, NEW r \in Requests, Step(r), NEW e \in Exchanges,
           pc[e] # "idle", ~Begin(r) \/ e # r
    PROVE  /\ ClientOf(e)' = ClientOf(e)
           /\ InsertClient(r) => ClientOf(e) # r
<1>0. TypeInv /\ e \in Requests /\ Approvals \subseteq Requests
  BY DEF StepInv, Requests
<1>1. arg[e] \in Approvals /\ Answered(arg[e])
  BY <1>0, KindFacts, KindsAreApart DEF StepInv, SentWasAnswered
<1>2. arg'[e] = arg[e]
  BY <1>0, OthersStay, ArgumentStays DEF Same
<1>3. arg'[arg[e]] = arg[arg[e]]
  BY <1>0, <1>1, AnsweredStays DEF Answered, Same
<1>4. InsertClient(r) => ~Answered(r)
  BY DEF InsertClient, Answered
<1>5. ClientOf(e) \in Requests => Answered(ClientOf(e))
  BY <1>0, <1>1, KindsAreApart DEF StepInv, SentWasAnswered, Answered, ClientOf
<1> QED
  BY <1>2, <1>3, <1>4, <1>5 DEF ClientOf

LEMMA MarksKept ==
    ASSUME StepInv, GrantedAreMarked, NEW r \in Requests, Step(r)
    PROVE  GrantedAreMarked'
<1>0. /\ TypeInv /\ pc \in [Requests -> Steps] /\ outcome \in [Requests -> Outcomes]
      /\ granted \subseteq clients /\ Exchanges \subseteq Requests
  BY DEF StepInv, TypeInv, TypeOK, Requests
<1>1. /\ clients' \subseteq clients \cup {r}
      /\ ~InsertClient(r) => clients' \subseteq clients
      /\ granted \cap clients' \subseteq granted'
  BY DEF Step, Begin, Fail, PruneClients, InsertClient, FindClient, PruneCodes, InsertCode,
         ConsumeCode, FindReplayedCode, CreateGrant, Marked, UseRefreshToken, FindReplayedToken,
         FindGrant, AddTokens, FindOwnGrant, DeleteGrant, tables
<1>2. ASSUME NEW e \in Exchanges, outcome[e] = "issued", ClientOf(e)' \in clients'
      PROVE  ClientOf(e)' \in granted'
  <2>1. pc[e] = "done"
    BY <1>0, <1>2 DEF StepInv, AnswersEnd
  <2>2. ClientOf(e)' = ClientOf(e) /\ (InsertClient(r) => ClientOf(e) # r)
    BY <2>1, ClientOfAnswered, EndsStay
  <2> QED
    BY <1>1, <1>2, <2>2 DEF GrantedAreMarked
<1>3. ASSUME NEW e \in Exchanges, outcome[e] # "issued", outcome'[e] = "issued", ClientOf(e)' \in clients'
      PROVE  ClientOf(e)' \in granted'
  <2>1. e = r
    BY <1>0, <1>3, OthersStay DEF Same
  <2>2. CASE CreateGrant(r)
    <3>1. ClientOf(e)' = ClientOf(e)
      BY <2>1, <2>2, ClientOfAnswered DEF CreateGrant, Begin
    <3> QED
      BY <1>3, <2>1, <2>2, <3>1 DEF CreateGrant, Marked
  <2>3. CASE ~CreateGrant(r)
    <3>1. r \notin Registrations \cup Approvals \cup Refreshes \cup Revocations
      BY <1>3, <2>1, KindsAreApart
    <3>2. ~Begin(r) /\ ~Fail(r)
      BY <1>3, <2>1 DEF Begin, Fail, request
    <3>3. ~ConsumeCode(r) /\ ~FindReplayedCode(r) /\ ~DeleteGrant(r)
      BY <1>0, <1>3, <2>1 DEF ConsumeCode, FindReplayedCode, DeleteGrant, Go, Answer
    <3> QED
      BY <2>3, <3>1, <3>2, <3>3, KindFits, KindsAreApart
      DEF StepInv, Step, PruneClients, InsertClient, FindClient, PruneCodes, InsertCode,
          UseRefreshToken, FindReplayedToken, FindGrant, AddTokens, FindOwnGrant
  <2> QED
    BY <2>2, <2>3
<1> QED
  BY <1>2, <1>3 DEF GrantedAreMarked

LEMMA ClockKept ==
    ASSUME TypeInv, ClockWasRead, NEW r \in Requests, Step(r)
    PROVE  ClockWasRead' /\ clock' = clock
<1>1. clock \in Nat /\ at \in [Requests -> Nat]
  BY OAuthAssumption DEF TypeInv, TypeOK
<1>2. clock' = clock /\ (at' = at \/ at' = [at EXCEPT ![r] = clock])
  BY DEF Step, Begin, Fail, PruneClients, InsertClient, FindClient, PruneCodes, InsertCode,
         ConsumeCode, FindReplayedCode, CreateGrant, UseRefreshToken, FindReplayedToken,
         FindGrant, AfterReplay, AddTokens, FindOwnGrant, DeleteGrant, request, Go, Goto, Answer
<1> QED
  BY <1>1, <1>2 DEF ClockWasRead

-----------------------------------------------------------------------------
(* Theorems *)

LEMMA GrantInvInit == Init => GrantInv
<1> SUFFICES ASSUME Init PROVE GrantInv
  OBVIOUS
<1> USE DEF Init
<1>1. TypeInv
  BY OAuthAssumption DEF TypeInv, TypeOK, Steps, Outcomes
<1>2. StepsFit /\ SentWasAnswered /\ AnswersEnd /\ OutcomesFit
  BY KindsOfSteps DEF StepsFit, KindOf, SentWasAnswered, AnswersEnd, OutcomesFit
<1>3. TokensHang /\ OneWayForward /\ RevokedIsGone
  BY DEF TokensHang, OneWayForward, OneLiveRefresh, RevokedIsGone, Rotating, Requests
<1>4. CodeHasItsTaker /\ GrantWasMade /\ GrantedAreMarked /\ ClockWasRead
  BY DEF CodeHasItsTaker, GrantWasMade, GrantedAreMarked, ClockWasRead, Requests
<1> QED
  BY <1>1, <1>2, <1>3, <1>4 DEF GrantInv, StepInv

LEMMA GrantInvStep == GrantInv /\ [Next]_vars => GrantInv'
<1> SUFFICES ASSUME GrantInv, [Next]_vars PROVE GrantInv'
  OBVIOUS
<1> USE DEF GrantInv
<1>1. ASSUME NEW r \in Requests, Step(r) PROVE GrantInv'
  BY <1>1, StepInvKept, TokensHangKept, TakersKept, GrantsMadeKept, OneWayKept, GoneStay,
     MarksKept, ClockKept DEF StepInv
<1>2. ASSUME UNCHANGED <<tables, pc, request>>, clock' \in 0 .. MaxTime, clock <= clock' PROVE GrantInv'
  <2> USE DEF tables, request, Answered
  <2>1. StepInv'
    BY <1>2 DEF StepInv, TypeInv, TypeOK, StepsFit, KindOf, SentWasAnswered, ArgsOf, AnswersEnd, OutcomesFit
  <2>2. TokensHang' /\ CodeHasItsTaker' /\ GrantWasMade'
    BY <1>2 DEF TokensHang, GrantOf, CodeHasItsTaker, GrantWasMade
  <2>3. OneWayForward' /\ RevokedIsGone' /\ GrantedAreMarked'
    BY <1>2 DEF OneWayForward, OneLiveRefresh, GrantOf, Rotating, RevokedIsGone, GrantedAreMarked, ClientOf
  <2>4. ClockWasRead'
    <3>1. clock \in Nat /\ clock' \in Nat /\ at \in [Requests -> Nat]
      BY <1>2, OAuthAssumption DEF StepInv, TypeInv, TypeOK
    <3> QED
      BY <1>2, <3>1 DEF ClockWasRead
  <2> QED
    BY <2>1, <2>2, <2>3, <2>4
<1>3. CASE Tick \/ Quiet \/ UNCHANGED vars
  <2>1. clock' \in 0 .. MaxTime /\ clock <= clock'
    BY <1>3, OAuthAssumption DEF Tick, Quiet, vars, StepInv, TypeInv, TypeOK
  <2> QED
    BY <1>2, <1>3, <2>1 DEF Tick, Quiet, vars
<1> QED
  BY <1>1, <1>3 DEF Next

(* The inductive invariant holds in every state the authorization server   *)
(* can reach.                                                              *)
THEOREM GrantInvariant == Spec => []GrantInv
  BY GrantInvInit, GrantInvStep, PTL DEF Spec

(* Every request is at a step of its kind, with an argument of its kind.   *)
THEOREM TypeCorrect == Spec => []TypeOK
<1>1. GrantInv => TypeOK
  BY DEF GrantInv, StepInv, TypeInv
<1> QED
  BY <1>1, GrantInvariant, PTL

(* The one UPDATE that takes a code names its taker for good, so that two  *)
(* exchanges answered with a grant were sent two codes.                    *)
THEOREM CodesGrantOnce == Spec => []OneGrantPerCode
<1>1. GrantInv => OneGrantPerCode
  BY DEF GrantInv, CodeHasItsTaker, OneGrantPerCode
<1> QED
  BY <1>1, GrantInvariant, PTL

(* A grant has one way forward, its live refresh token or the refresh that *)
(* used it and will add the next, so that it never has two live ones.      *)
THEOREM RefreshTokensRotate == Spec => []OneLiveRefresh
<1>1. GrantInv => OneLiveRefresh
  BY DEF GrantInv, OneWayForward
<1> QED
  BY <1>1, GrantInvariant, PTL

(* A grant that was revoked, or whose used refresh token came back, is not *)
(* made again, and tokens hang from grants: nothing of it is left.         *)
THEOREM RevocationIsFinal == Spec => []RevocationHolds
<1>1. ASSUME GrantInv, NEW v \in Revocations, NEW p \in access \cup fresh,
             outcome[v] = "revoked", GrantOf(p) = grant[v]
      PROVE  FALSE
  <2>1. pc[v] = "done"
    BY <1>1 DEF GrantInv, StepInv, AnswersEnd, Requests
  <2>2. grant[v] \notin grants
    BY <1>1, <2>1 DEF GrantInv, RevokedIsGone
  <2> QED
    BY <1>1, <2>2 DEF GrantInv, TokensHang
<1>2. GrantInv => RevokedStaysRevoked
  BY <1>1 DEF RevokedStaysRevoked
<1>3. GrantInv => RefreshReplayRevokes
  BY DEF GrantInv, RevokedIsGone, RefreshReplayRevokes
<1>4. GrantInv => RevocationHolds
  BY <1>2, <1>3 DEF RevocationHolds
<1> QED
  BY <1>4, GrantInvariant, PTL

(* The clients of grants are kept. *)
LEMMA MarkedClientsStay ==
    ASSUME GrantInv, [Next]_vars
    PROVE  \A c \in clients \ clients', e \in Exchanges : outcome[e] = "issued" => ClientOf(e) # c
<1>1. ASSUME NEW r \in Requests, Step(r) PROVE clients \cap granted \subseteq clients'
  BY <1>1
  DEF Step, Begin, Fail, PruneClients, UnusedClients, InsertClient, FindClient, PruneCodes,
      InsertCode, ConsumeCode, FindReplayedCode, CreateGrant, UseRefreshToken,
      FindReplayedToken, FindGrant, AddTokens, FindOwnGrant, DeleteGrant, tables
<1>2. clients \cap granted \subseteq clients'
  BY <1>1 DEF Next, Tick, Quiet, vars, tables
<1> QED
  BY <1>2 DEF GrantInv, GrantedAreMarked

(* What is kept at an earlier time includes what is kept now. *)
LEMMA PrunedGrantsAreDead ==
    ASSUME GrantInv, [Next]_vars, NEW g \in grants \ grants'
    PROVE  \/ \E r \in Requests : pc[r] = "delete" /\ grant[r] = g
           \/ \A p \in Pairs : /\ p \in access /\ GrantOf(p) = g => AccessExpired(p, clock)
                               /\ p \in fresh /\ GrantOf(p) = g => RefreshExpired(p, clock)
<1>0. /\ clock \in Nat /\ AccessTTL \in Nat /\ RefreshTTL \in Nat
      /\ \A q \in Requests \cup Pairs : at[q] \in Nat
  BY OAuthAssumption DEF GrantInv, StepInv, TypeInv, TypeOK, Pairs, Requests
<1>1. PICK r \in Requests : Step(r)
  BY DEF Next, Tick, Quiet, vars, tables
<1>2. CASE DeleteGrant(r)
  BY <1>2 DEF DeleteGrant
<1>3. CASE CreateGrant(r) \/ AddTokens(r)
  <2>1. g \notin KeptGrants(at[r])
    BY <1>3 DEF CreateGrant, AddTokens
  <2>2. at[r] <= clock
    BY DEF GrantInv, ClockWasRead
  <2>3. ASSUME NEW p \in access, GrantOf(p) = g, p \in Pairs PROVE AccessExpired(p, clock)
    <3>1. at[p] + AccessTTL <= at[r]
      BY <2>1, <2>3 DEF KeptGrants, KeptAccess, AccessExpired
    <3> QED
      BY <1>0, <2>2, <2>3, <3>1 DEF AccessExpired
  <2>4. ASSUME NEW p \in fresh, GrantOf(p) = g, p \in Pairs PROVE RefreshExpired(p, clock)
    <3>1. at[p] + RefreshTTL <= at[r]
      BY <2>1, <2>4 DEF KeptGrants, KeptRefresh, RefreshExpired
    <3> QED
      BY <1>0, <2>2, <2>4, <3>1 DEF RefreshExpired
  <2> QED
    BY <2>3, <2>4
<1>4. CreateGrant(r) \/ AddTokens(r) \/ DeleteGrant(r) \/ UNCHANGED grants
  BY <1>1
  DEF Step, Begin, Fail, PruneClients, InsertClient, FindClient, PruneCodes, InsertCode,
      ConsumeCode, FindReplayedCode, UseRefreshToken, FindReplayedToken, FindGrant, FindOwnGrant,
      tables
<1> QED
  BY <1>2, <1>3, <1>4

(* What cleaning up takes is a registration without the mark of a grant,   *)
(* or a grant whose tokens have all expired by the clock of the request    *)
(* that cleans, which is no later than now.                                *)
THEOREM CleaningIsHarmless == Spec => CleaningSparesTheGranted
<1>1. GrantInv /\ [Next]_vars =>
        [\A c \in clients \ clients', e \in Exchanges :
            outcome[e] = "issued" => ClientOf(e) # c]_vars
  BY MarkedClientsStay
<1>2. GrantInv /\ [Next]_vars =>
        [\A g \in grants \ grants' :
            \/ \E r \in Requests : pc[r] = "delete" /\ grant[r] = g
            \/ \A p \in Pairs : /\ p \in access /\ GrantOf(p) = g => AccessExpired(p, clock)
                                /\ p \in fresh /\ GrantOf(p) = g => RefreshExpired(p, clock)]_vars
  BY PrunedGrantsAreDead
<1>3. Spec => GrantedClientStays
  BY <1>1, GrantInvariant, PTL DEF Spec, GrantedClientStays
<1>4. Spec => PruningSparesTheLiving
  BY <1>2, GrantInvariant, PTL DEF Spec, PruningSparesTheLiving
<1> QED
  BY <1>3, <1>4 DEF CleaningSparesTheGranted
=============================================================================
