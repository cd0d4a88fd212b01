-------------------------- MODULE BoardWrites_proofs --------------------------
(***************************************************************************)
(* Proofs about BoardWrites, for every set of requests, users, projects,   *)
(* plans and items.  The first part is about the board: its lock, its      *)
(* target, its members and the binding of runs to the target.  The second  *)
(* is about its history: nothing made on GitHub is without a trace, what   *)
(* the fold shows is what GitHub has unless it is listed as unsettled, and *)
(* a creation writes its interpretation, all of it and nothing else.       *)
(***************************************************************************)
EXTENDS BoardWrites, WindowLemmas

(* What the fields of a call are, by its operation. *)
LEMMA CallTypes ==
    ASSUME NEW c \in Calls
    PROVE  /\ c.op \in {"create", "target", "refresh", "delete", "setRole", "remove", "invite"}
           /\ c.user \in Users
           /\ c.op = "create" => /\ c.annotation \in Annotations
                                 /\ c.hash \in Hashes
                                 /\ c.plan \in Seq(PlanItem)
           /\ c.op \in {"target", "refresh"} => c.project \in Projects
           /\ c.op \in {"setRole", "invite"} => c.role \in Viewer .. Owner
           /\ c.op \in {"setRole", "remove", "invite"} => c.member \in Users
  BY ConstantsAssumption
  DEF CreateCall, TargetCall, RefreshCall, DeleteCall, RoleCall, RemoveCall, InviteCall

(* Which operation a request is doing follows from where it is. *)
StepFitsCall ==
    \A r \in Requests :
        /\ pc[r] \in CreateSteps => call[r].op = "create"
        /\ pc[r] = "inviting" => call[r].op = "invite"
        /\ pc[r] = "locked" => call[r].op # "invite"

(* The rows a creation collects belong to its plan; it has none before the *)
(* first write, and one with an item while it fills in the fields.         *)
RowsFit ==
    \A r \in Requests :
        /\ pc[r] \in {"waiting", "locked", "checking", "resolving"} => rows[r] = << >>
        /\ pc[r] \in CreateSteps =>
            \A k \in DOMAIN rows[r] : rows[r][k].localId \in DOMAIN call[r].plan
        /\ pc[r] \in {"kind", "parent"} =>
            rows[r] # << >> /\ Current(r).item \in Items

ViewFits == \A r \in Requests : pc[r] \in CreateSteps => view[r].hash = call[r].hash

TypeInv == TypeOK /\ StepFitsCall /\ RowsFit /\ ViewFits

LEMMA InitTypeInv == Init => TypeInv
<1> SUFFICES ASSUME Init PROVE TypeInv
  OBVIOUS
<1> USE ConstantsAssumption
    DEF Init, Roles, None, Viewer, Editor, Owner, InSection, CreateSteps
<1>1. github \in [Items -> GithubItem]
  BY DEF GithubItem, Absent, Nobody
<1>2. TypeOK
  BY <1>1 DEF TypeOK, Run, Row, NoView
<1>3. StepFitsCall /\ RowsFit /\ ViewFits
  BY DEF StepFitsCall, RowsFit, ViewFits
<1> QED
  BY <1>2, <1>3 DEF TypeInv

(* A row in hand stands for an item of a well-typed plan. *)
LEMMA PlanItemType ==
    ASSUME TypeInv, NEW r \in Requests, call[r].op = "create",
           NEW i \in DOMAIN call[r].plan
    PROVE  /\ i \in Nat
           /\ call[r].plan[i] \in PlanItem
           /\ call[r].plan[i].kind \in Kinds
           /\ call[r].plan[i].title \in Titles
           /\ call[r].plan[i].prev \in Items \cup {NoItem}
<1>1. call[r].plan \in Seq(PlanItem)
  BY CallTypes DEF TypeInv, TypeOK
<1>2. i \in Nat /\ call[r].plan[i] \in PlanItem
  BY <1>1
<1> QED
  BY <1>2 DEF PlanItem

LEMMA WriteTypeInv ==
    ASSUME TypeInv, NEW r \in Requests, WriteDraftIssue(r)
    PROVE  TypeInv'
<1>1. pc[r] = "writing" /\ call[r].op = "create"
  BY DEF WriteDraftIssue, TypeInv, StepFitsCall, CreateSteps
<1>2. PICK i \in DOMAIN call[r].plan : CreateDraftIssue(r, i) \/ UpdateDraftIssue(r, i)
  BY DEF WriteDraftIssue
<1>3. /\ i \in Nat
      /\ call[r].plan[i].title \in Titles
      /\ call[r].plan[i].prev \in Items \cup {NoItem}
  BY <1>1, PlanItemType
<1>4. /\ github' \in [Items -> GithubItem]
      /\ \E x \in Items \cup {NoItem} :
            (x \in Items /\ Answered(r, i, x)) \/ Unanswered(r, i, x)
  <2>1. CASE CreateDraftIssue(r, i)
    <3>1. view[r].project \in Projects \cup {NoProject}
      BY DEF TypeInv, TypeOK
    <3>2. \A x \in Items :
            [Absent EXCEPT !.project = view[r].project,
                           !.title = call[r].plan[i].title,
                           !.by = <<r, i>>] \in GithubItem
      BY <1>3, <3>1 DEF Absent, GithubItem
    <3> QED
      BY <2>1, <3>2 DEF CreateDraftIssue, TypeInv, TypeOK
  <2>2. CASE UpdateDraftIssue(r, i)
    <3> DEFINE x == call[r].plan[i].prev
    <3>1. x \in Items
      BY <1>3, <2>2 DEF UpdateDraftIssue
    <3>2. [github[x] EXCEPT !.title = call[r].plan[i].title] \in GithubItem
      <4>1. github[x] \in GithubItem
        BY <3>1 DEF TypeInv, TypeOK
      <4> HIDE DEF x
      <4> QED
        BY <1>3, <4>1 DEF GithubItem
    <3>3. github' \in [Items -> GithubItem]
      BY <2>2, <3>1, <3>2 DEF UpdateDraftIssue, TypeInv, TypeOK
    <3>4. Answered(r, i, x) \/ Unanswered(r, i, x)
      BY <2>2 DEF UpdateDraftIssue
    <3> QED
      BY <3>1, <3>3, <3>4
  <2> QED
    BY <1>2, <2>1, <2>2
<1>5. PICK x \in Items \cup {NoItem}, answered \in BOOLEAN :
        /\ Collect(r, i, x, answered)
        /\ IF answered THEN x \in Items /\ Goto(r, "kind") /\ UNCHANGED failed
           ELSE Fail(r)
  BY <1>4 DEF Answered, Unanswered
<1> DEFINE row == [localId |-> i, item |-> x, title |-> call[r].plan[i].title,
                   confirmed |-> answered]
<1>6. row \in Row /\ rows' = [rows EXCEPT ![r] = Append(rows[r], row)]
  BY <1>3, <1>5 DEF Row, Collect
<1>7. /\ rows' \in [Requests -> Seq(Row)]
      /\ Len(rows'[r]) = Len(rows[r]) + 1
      /\ rows'[r][Len(rows'[r])] = row
      /\ \A k \in DOMAIN rows[r] : rows'[r][k] = rows[r][k]
      /\ DOMAIN rows'[r] = DOMAIN rows[r] \cup {Len(rows'[r])}
      /\ \A q \in Requests \ {r} : rows'[q] = rows[q]
  <2> HIDE DEF row
  <2> QED
    BY <1>6 DEF TypeInv, TypeOK
<1>8. /\ pc' \in [Requests -> {"waiting", "inviting", "done"} \cup InSection]
      /\ pc'[r] \in {"kind", "saving"}
      /\ \A q \in Requests \ {r} : pc'[q] = pc[q]
      /\ failed' \in [Requests -> BOOLEAN]
      /\ pc'[r] = "kind" => x \in Items
  BY <1>5 DEF Goto, Fail, TypeInv, TypeOK, InSection, CreateSteps
<1>9. UNCHANGED <<lock, board, runs, call, cancelled, view, lost, crashes>>
  BY DEF WriteDraftIssue
<1>10. TypeOK'
  BY <1>4, <1>7, <1>8, <1>9 DEF TypeInv, TypeOK, board
<1>11. StepFitsCall'
  BY <1>1, <1>8, <1>9 DEF TypeInv, StepFitsCall, CreateSteps
<1>12. RowsFit'
  <2> SUFFICES ASSUME NEW q \in Requests
               PROVE  (/\ pc[q] \in {"waiting", "locked", "checking", "resolving"} => rows[q] = << >>
                       /\ pc[q] \in CreateSteps =>
                            \A k \in DOMAIN rows[q] : rows[q][k].localId \in DOMAIN call[q].plan
                       /\ pc[q] \in {"kind", "parent"} => rows[q] # << >> /\ Current(q).item \in Items)'
    BY DEF RowsFit
  <2>1. CASE q = r
    <3>1. rows'[r] # << >> /\ (pc'[r] = "kind" => Current(r)'.item \in Items)
      BY <1>6, <1>7, <1>8 DEF Current
    <3>2. \A k \in DOMAIN rows'[r] : rows'[r][k].localId \in DOMAIN call[r].plan
      BY <1>1, <1>6, <1>7 DEF TypeInv, RowsFit, CreateSteps
    <3> QED
      BY <2>1, <3>1, <3>2, <1>8, <1>9
  <2>2. CASE q # r
    BY <2>2, <1>7, <1>8, <1>9 DEF TypeInv, RowsFit, Current
  <2> QED
    BY <2>1, <2>2
<1>13. ViewFits'
  BY <1>1, <1>8, <1>9 DEF TypeInv, ViewFits, CreateSteps
<1> QED
  BY <1>10, <1>11, <1>12, <1>13 DEF TypeInv

(* SetKind and SetParent write one field of an item; what follows depends  *)
(* only on the answer.                                                     *)
LEMMA FieldTypeInv ==
    ASSUME TypeInv, NEW r \in Requests,
           pc[r] \in {"kind", "parent"},
           github' \in [Items -> GithubItem],
           \/ Goto(r, "writing") /\ UNCHANGED failed
           \/ pc[r] = "kind" /\ Goto(r, "parent") /\ UNCHANGED failed
           \/ Fail(r),
           UNCHANGED <<lock, board, runs, call, cancelled, view, rows, lost, crashes>>
    PROVE  TypeInv'
<1>1. /\ \E step \in {"writing", "parent", "saving"} : pc' = [pc EXCEPT ![r] = step]
      /\ failed' \in [Requests -> BOOLEAN]
      /\ pc \in [Requests -> {"waiting", "inviting", "done"} \cup InSection]
      /\ \A q \in Requests : pc'[q] \in {"kind", "parent"} => pc[q] \in {"kind", "parent"}
  BY DEF Goto, Fail, TypeInv, TypeOK
<1>2. \A q \in Requests :
        /\ pc'[q] = pc[q] \/ pc'[q] \in CreateSteps \ {"checking", "resolving"}
        /\ pc'[q] \in CreateSteps => pc[q] \in CreateSteps
  BY <1>1 DEF CreateSteps
<1>3. TypeOK'
  BY <1>1 DEF TypeInv, TypeOK, InSection, CreateSteps, board
<1>4. StepFitsCall'
  BY <1>2 DEF TypeInv, StepFitsCall, CreateSteps
<1>5. RowsFit'
  BY <1>1, <1>2 DEF TypeInv, RowsFit, CreateSteps, Current
<1>6. ViewFits'
  BY <1>2 DEF TypeInv, ViewFits
<1> QED
  BY <1>3, <1>4, <1>5, <1>6 DEF TypeInv

LEMMA CurrentType ==
    ASSUME TypeInv, NEW r \in Requests, pc[r] \in {"kind", "parent"}
    PROVE  /\ call[r].op = "create"
           /\ Current(r).item \in Items
           /\ Current(r).localId \in DOMAIN call[r].plan
           /\ CurrentItem(r).kind \in Kinds
           /\ github[Current(r).item] \in GithubItem
<1>1. call[r].op = "create" /\ Current(r).item \in Items /\ rows[r] # << >>
  BY DEF TypeInv, StepFitsCall, RowsFit, CreateSteps
<1>2. rows[r] \in Seq(Row)
  BY DEF TypeInv, TypeOK
<1>3. Len(rows[r]) \in DOMAIN rows[r]
  BY <1>1, <1>2
<1>4. Current(r).localId \in DOMAIN call[r].plan
  BY <1>3 DEF TypeInv, RowsFit, Current, CreateSteps
<1> QED
  BY <1>1, <1>4, PlanItemType DEF CurrentItem, TypeInv, TypeOK

LEMMA SetKindTypeInv ==
    ASSUME TypeInv, NEW r \in Requests, SetKind(r)
    PROVE  TypeInv'
<1>1. pc[r] = "kind"
  BY DEF SetKind
<1>2. [github[Current(r).item] EXCEPT !.kind = CurrentItem(r).kind] \in GithubItem
  BY <1>1, CurrentType DEF GithubItem
<1>3. github' \in [Items -> GithubItem]
  BY <1>2 DEF SetKind, TypeInv, TypeOK
<1>4. ParentStep(r) \in {"writing", "parent"}
  BY DEF ParentStep
<1> QED
  BY <1>1, <1>3, <1>4, FieldTypeInv DEF SetKind

LEMMA SetParentTypeInv ==
    ASSUME TypeInv, NEW r \in Requests, SetParent(r)
    PROVE  TypeInv'
<1>1. pc[r] = "parent"
  BY DEF SetParent
<1>2. ASSUME ~ParentMissing(r)
      PROVE  [github[Current(r).item] EXCEPT !.parent = ParentText(r)] \in GithubItem
  <2>1. ParentText(r) \in Titles \cup {NoTitle}
    <3>1. CASE CurrentItem(r).parent = 0
      BY <3>1 DEF ParentText
    <3>2. CASE CurrentItem(r).parent # 0
      <4>1. CurrentItem(r).parent \in Handled(r)
        BY <1>2, <3>2 DEF ParentMissing, ParentWritten
      <4>2. CurrentItem(r).parent \in DOMAIN call[r].plan
        BY <1>1, <4>1 DEF Handled, TypeInv, RowsFit, CreateSteps
      <4> QED
        BY <1>1, <3>2, <4>2, CurrentType, PlanItemType DEF ParentText
    <3> QED
      BY <3>1, <3>2
  <2> QED
    BY <1>1, <2>1, CurrentType DEF GithubItem
<1>3. github' \in [Items -> GithubItem]
  <2>1. CASE ParentMissing(r)
    BY <2>1 DEF SetParent, TypeInv, TypeOK
  <2>2. CASE ~ParentMissing(r)
    BY <1>2, <2>2 DEF SetParent, TypeInv, TypeOK
  <2> QED
    BY <2>1, <2>2
<1> QED
  BY <1>1, <1>3, FieldTypeInv DEF SetParent

LEMMA SaveRunTypeInv ==
    ASSUME TypeInv, NEW r \in Requests, SaveRun(r)
    PROVE  TypeInv'
<1>1. pc[r] = "saving" /\ call[r].op = "create"
  BY DEF SaveRun, TypeInv, StepFitsCall, CreateSteps
<1>2. call[r].annotation \in Annotations /\ view[r].hash \in Hashes
  BY <1>1, CallTypes DEF TypeInv, TypeOK, ViewFits, CreateSteps
<1>3. [req |-> r, annotation |-> call[r].annotation, hash |-> RecordedHash(r),
       complete |-> ~failed[r], rows |-> rows[r]] \in Run
  BY <1>2 DEF Run, RecordedHash, TypeInv, TypeOK
<1>4. runs' \in Seq(Run)
  BY <1>3 DEF SaveRun, TypeInv, TypeOK
<1> QED
  BY <1>1, <1>4
  DEF SaveRun, TypeInv, TypeOK, StepFitsCall, RowsFit, ViewFits, Goto, InSection,
      CreateSteps, board, flight, Current

LEMMA AuthorizeTypeInv ==
    ASSUME TypeInv, NEW r \in Requests, Authorize(r)
    PROVE  TypeInv'
<1>1. /\ call[r].op = "create"
      /\ call[r].hash = content[call[r].annotation]
      /\ rows[r] = << >>
  BY DEF Authorize, At, MayCreate, TypeInv, RowsFit
<1>2. view'[r].hash = call[r].hash
  BY <1>1 DEF Authorize, TypeInv, TypeOK
<1>3. view' \in [Requests -> [project : Projects \cup {NoProject},
                              hash : Hashes \cup {NoHash}]]
  BY <1>1, CallTypes DEF Authorize, TypeInv, TypeOK
<1>4. /\ pc' = [pc EXCEPT ![r] = "checking"]
      /\ \A q \in Requests \ {r} : view'[q] = view[q]
      /\ UNCHANGED <<lock, board, runs, github, call, cancelled, rows, failed, lost, crashes>>
  BY DEF Authorize, Goto, TypeInv, TypeOK
<1>5. TypeOK'
  BY <1>3, <1>4 DEF TypeInv, TypeOK, InSection, CreateSteps, board
<1>6. StepFitsCall'
  BY <1>1, <1>4 DEF TypeInv, TypeOK, StepFitsCall, CreateSteps
<1>7. RowsFit'
  BY <1>1, <1>4 DEF TypeInv, TypeOK, RowsFit, CreateSteps, Current
<1>8. ViewFits'
  BY <1>2, <1>4 DEF TypeInv, TypeOK, ViewFits, CreateSteps
<1> QED
  BY <1>5, <1>6, <1>7, <1>8 DEF TypeInv

LEMMA CrashTypeInv ==
    ASSUME TypeInv, Crash
    PROVE  TypeInv'
<1>1. /\ pc' \in [Requests -> {"waiting", "done"}]
      /\ \A r \in Requests : pc'[r] = "waiting" => pc[r] = "waiting"
  BY DEF Crash
<1>2. crashes' \in 0 .. MaxCrashes /\ lost' \in SUBSET Requests
  BY ConstantsAssumption DEF Crash, TypeInv, TypeOK
<1>3. UNCHANGED <<board, runs, github, call, cancelled, flight>> /\ lock' = NoReq
  BY DEF Crash
<1>4. TypeOK'
  BY <1>1, <1>2, <1>3 DEF TypeInv, TypeOK, board, flight
<1>5. StepFitsCall'
  BY <1>1, <1>3 DEF TypeInv, StepFitsCall, CreateSteps
<1>6. RowsFit'
  BY <1>1, <1>3 DEF TypeInv, RowsFit, CreateSteps, flight, Current
<1>7. ViewFits'
  BY <1>1, <1>3 DEF TypeInv, ViewFits, CreateSteps, flight
<1> QED
  BY <1>4, <1>5, <1>6, <1>7 DEF TypeInv

LEMMA StepTypeInv == TypeInv /\ [Next]_vars => TypeInv'
<1> SUFFICES ASSUME TypeInv, [Next]_vars PROVE TypeInv'
  OBVIOUS
<1> USE CallTypes
    DEF TypeInv, TypeOK, StepFitsCall, RowsFit, ViewFits, Goto, InSection, CreateSteps,
        board, flight, Current, Roles, None, Viewer, Editor, Owner
<1>1. ASSUME NEW r \in Requests, Acquire(r) PROVE TypeInv'
  BY <1>1 DEF Acquire
<1>2. ASSUME NEW r \in Requests, GiveUp(r) PROVE TypeInv'
  BY <1>2 DEF GiveUp
<1>3. ASSUME NEW r \in Requests, Release(r) PROVE TypeInv'
  BY <1>3 DEF Release
<1>4. ASSUME NEW r \in Requests, Disconnect(r) PROVE TypeInv'
  BY <1>4 DEF Disconnect
<1>5. ASSUME NEW r \in Requests, Refuse(r) PROVE TypeInv'
  BY <1>5 DEF Refuse
<1>6. ASSUME NEW r \in Requests, Abort(r) PROVE TypeInv'
  BY <1>6 DEF Abort
<1>7. ASSUME NEW r \in Requests, Check(r) PROVE TypeInv'
  BY <1>7 DEF Check
<1>8. ASSUME NEW r \in Requests, SetTarget(r) PROVE TypeInv'
  BY <1>8 DEF SetTarget, At
<1>27. ASSUME NEW r \in Requests, RefreshTargetDisplay(r) PROVE TypeInv'
  BY <1>27 DEF RefreshTargetDisplay, At
<1>9. ASSUME NEW r \in Requests, Delete(r) PROVE TypeInv'
  <2>1. CASE MemberExists(call[r].user)
    <3>1. /\ exists' = FALSE
          /\ role' \in [Users -> Roles]
          /\ target' = NoProject
          /\ display' = NoProject
          /\ content' \in [Annotations -> Hashes \cup {NoHash}]
          /\ runs' = << >>
          /\ runs' \in Seq(Run)
      BY <1>9, <2>1 DEF Delete
    <3> QED
      BY <1>9, <3>1 DEF Delete, At
  <2>2. CASE ~MemberExists(call[r].user)
    BY <1>9, <2>2 DEF Delete, At
  <2> QED
    BY <2>1, <2>2
<1>10. ASSUME NEW r \in Requests, SetRole(r) PROVE TypeInv'
  BY <1>10 DEF SetRole, At
<1>11. ASSUME NEW r \in Requests, Remove(r) PROVE TypeInv'
  BY <1>11 DEF Remove, At
<1>12. ASSUME NEW r \in Requests, CheckInvite(r) PROVE TypeInv'
  BY <1>12 DEF CheckInvite, At
<1>13. ASSUME NEW r \in Requests, AddMember(r) PROVE TypeInv'
  <2>1. call[r].op = "invite"
    BY <1>13 DEF AddMember
  <2>2. call[r].role \in Roles /\ call[r].member \in Users
    BY <2>1
  <2>3. role' \in [Users -> Roles]
    BY <1>13, <2>2 DEF AddMember
  <2> QED
    BY <1>13, <2>3 DEF AddMember
<1>14. ASSUME NEW r \in Requests, Authorize(r) PROVE TypeInv'
  BY <1>14, AuthorizeTypeInv
<1>15. ASSUME NEW r \in Requests, CheckPreviousItems(r) PROVE TypeInv'
  BY <1>15 DEF CheckPreviousItems
<1>16. ASSUME NEW r \in Requests, ResolveFields(r) PROVE TypeInv'
  BY <1>16 DEF ResolveFields
<1>17. ASSUME NEW r \in Requests, Stop(r) PROVE TypeInv'
  BY <1>17 DEF Stop
<1>18. ASSUME NEW r \in Requests, Finish(r) PROVE TypeInv'
  BY <1>18 DEF Finish
<1>19. ASSUME NEW r \in Requests, WriteDraftIssue(r) PROVE TypeInv'
  BY <1>19, WriteTypeInv
<1>20. ASSUME NEW r \in Requests, SetKind(r) PROVE TypeInv'
  BY <1>20, SetKindTypeInv
<1>21. ASSUME NEW r \in Requests, SetParent(r) PROVE TypeInv'
  BY <1>21, SetParentTypeInv
<1>22. ASSUME NEW r \in Requests, SaveRun(r) PROVE TypeInv'
  BY <1>22, SaveRunTypeInv
<1>23. ASSUME NEW r \in Requests, SaveRunFails(r) PROVE TypeInv'
  BY <1>23 DEF SaveRunFails
<1>24. CASE SaveScene
  <2>1. PICK a \in Annotations, h \in Hashes \cup {NoHash} :
            content' = [content EXCEPT ![a] = h]
    BY <1>24, ConstantsAssumption DEF SaveScene
  <2>2. content' \in [Annotations -> Hashes \cup {NoHash}]
    BY <2>1
  <2> QED
    BY <1>24, <2>2 DEF SaveScene
<1>25. CASE Crash
  BY <1>25, CrashTypeInv
<1>26. CASE UNCHANGED vars
  BY <1>26 DEF vars
<1> QED
  BY <1>1, <1>2, <1>3, <1>4, <1>5, <1>6, <1>7, <1>8, <1>9, <1>10, <1>11, <1>12, <1>13, <1>14, <1>15, <1>16, <1>17, <1>18, <1>19, <1>20, <1>21, <1>22, <1>23, <1>24, <1>25, <1>26, <1>27 DEF Next, Step, AllServed

(* Every variable keeps its type. *)
THEOREM TypeCorrect == Spec => []TypeOK
<1>1. TypeInv => TypeOK
  BY DEF TypeInv
<1> QED
  BY <1>1, InitTypeInv, StepTypeInv, PTL DEF Spec

-----------------------------------------------------------------------------
(* The lock. *)

(* How a step of a request moves it: into the section, out of it, on       *)
(* within it, or past it.                                                  *)
Moves(r, from, to) ==
    /\ pc[r] \in from
    /\ lock' = lock
    /\ \E step \in to : Goto(r, step)

LEMMA StepMoves ==
    ASSUME TypeInv, NEW r \in Requests, Step(r)
    PROVE  \/ Acquire(r)
           \/ Release(r)
           \/ Moves(r, InSection \ {"release"}, InSection)
           \/ Moves(r, {"waiting", "inviting"}, {"inviting", "done"})
<1> USE DEF Moves, InSection, CreateSteps, Goto, At
<1>1. CASE WriteDraftIssue(r)
  BY <1>1 DEF WriteDraftIssue, CreateDraftIssue, UpdateDraftIssue, Answered, Unanswered, Fail
<1>2. CASE SetKind(r) \/ SetParent(r)
  BY <1>2 DEF SetKind, SetParent, ParentStep, Fail
<1>3. CASE GiveUp(r) \/ CheckInvite(r) \/ AddMember(r)
  BY <1>3 DEF GiveUp, CheckInvite, AddMember
<1>4. CASE Refuse(r) \/ Abort(r) \/ Check(r) \/ Authorize(r)
  BY <1>4 DEF Refuse, Abort, Check, Authorize
<1>5. CASE SetTarget(r) \/ RefreshTargetDisplay(r) \/ Delete(r) \/ SetRole(r) \/ Remove(r)
  BY <1>5 DEF SetTarget, RefreshTargetDisplay, Delete, SetRole, Remove
<1>6. CASE CheckPreviousItems(r) \/ ResolveFields(r) \/ Stop(r) \/ Finish(r)
  BY <1>6 DEF CheckPreviousItems, ResolveFields, Stop, Finish
<1>7. CASE SaveRun(r) \/ SaveRunFails(r)
  BY <1>7 DEF SaveRun, SaveRunFails
<1> QED
  BY <1>1, <1>2, <1>3, <1>4, <1>5, <1>6, <1>7 DEF Step

LEMMA StepOneInSection ==
    ASSUME TypeInv, OneInSection, [Next]_vars
    PROVE  OneInSection'
<1>1. pc \in [Requests -> {"waiting", "inviting", "done"} \cup InSection]
  BY DEF TypeInv, TypeOK
<1>2. ASSUME NEW r \in Requests, Step(r) PROVE OneInSection'
  <2>1. CASE Acquire(r)
    <3>1. lock = NoReq /\ lock' = r /\ NoReq \notin Requests
      BY <2>1, ConstantsAssumption DEF Acquire, LockFree
    <3>2. pc' = [pc EXCEPT ![r] = "locked"] /\ "locked" \in InSection
      BY <2>1 DEF Acquire, Goto, InSection
    <3> QED
      BY <1>1, <3>1, <3>2 DEF OneInSection
  <2>2. CASE Release(r)
    <3>1. lock = r /\ lock' = NoReq /\ NoReq \notin Requests
      BY <2>2, ConstantsAssumption DEF Release, OneInSection, InSection
    <3>2. pc' = [pc EXCEPT ![r] = "done"] /\ "done" \notin InSection
      BY <2>2 DEF Release, Goto, InSection, CreateSteps
    <3> QED
      BY <1>1, <3>1, <3>2 DEF OneInSection
  <2>3. CASE Moves(r, InSection \ {"release"}, InSection)
    BY <1>1, <2>3 DEF Moves, OneInSection, Goto
  <2>4. CASE Moves(r, {"waiting", "inviting"}, {"inviting", "done"})
    <3>1. InSection \cap {"waiting", "inviting", "done"} = {}
      BY DEF InSection, CreateSteps
    <3> QED
      BY <1>1, <2>4, <3>1 DEF Moves, OneInSection, Goto
  <2> QED
    BY <1>2, <2>1, <2>2, <2>3, <2>4, StepMoves
<1>3. CASE Crash
  BY <1>3, ConstantsAssumption DEF Crash, OneInSection, InSection, CreateSteps
<1>4. CASE UNCHANGED <<lock, pc>>
  BY <1>4 DEF OneInSection
<1>5. UNCHANGED <<lock, pc>> \/ Crash \/ \E r \in Requests : Step(r)
  BY DEF Next, Disconnect, SaveScene, AllServed, vars
<1> QED
  BY <1>2, <1>3, <1>4, <1>5

(* What a request has checked under the lock still holds when it writes.   *)
CheckedStillHolds ==
    \A r \in Requests : pc[r] = "commit" =>
        /\ call[r].op \in {"target", "refresh", "delete", "setRole", "remove"}
        /\ call[r].op = "target" => ~TargetLocked(runs)
        /\ call[r].op = "refresh" => call[r].project = target
        /\ call[r].op = "setRole" /\ call[r].role # Owner => EnsureAnotherOwner(call[r].member)
        /\ call[r].op = "remove" => EnsureAnotherOwner(call[r].member)

LockInv ==
    /\ TypeInv
    /\ OneInSection
    /\ CheckedStillHolds
    /\ CreationKeepsItsGround
    /\ KeepsAnOwner
    /\ DisplayBelongsToTarget


(* The steps that neither change what the lock protects nor end a check.   *)
Keeps(r) ==
    /\ UNCHANGED <<exists, role, target, display, call, view>>
    /\ runs' # runs => pc[r] = "saving"
    /\ \E step : /\ Goto(r, step)
                 /\ step # "commit"
                 /\ step \in CreateSteps => pc[r] \in CreateSteps

LEMMA StepKeeps ==
    ASSUME TypeInv, NEW r \in Requests, Step(r)
    PROVE  \/ Keeps(r)
           \/ Check(r) \/ Authorize(r)
           \/ SetTarget(r) \/ RefreshTargetDisplay(r) \/ Delete(r)
           \/ SetRole(r) \/ Remove(r) \/ AddMember(r)
<1> USE DEF Keeps, CreateSteps, Goto, At, board, flight
<1>1. CASE WriteDraftIssue(r)
  BY <1>1 DEF WriteDraftIssue, CreateDraftIssue, UpdateDraftIssue, Answered, Unanswered, Fail
<1>2. CASE SetKind(r) \/ SetParent(r)
  BY <1>2 DEF SetKind, SetParent, ParentStep, Fail
<1>3. CASE Acquire(r) \/ GiveUp(r) \/ CheckInvite(r) \/ Release(r)
  BY <1>3 DEF Acquire, GiveUp, CheckInvite, Release
<1>4. CASE Refuse(r) \/ Abort(r)
  BY <1>4 DEF Refuse, Abort
<1>5. CASE CheckPreviousItems(r) \/ ResolveFields(r) \/ Stop(r) \/ Finish(r)
  BY <1>5 DEF CheckPreviousItems, ResolveFields, Stop, Finish
<1>6. CASE SaveRun(r) \/ SaveRunFails(r)
  BY <1>6 DEF SaveRun, SaveRunFails
<1> QED
  BY <1>1, <1>2, <1>3, <1>4, <1>5, <1>6 DEF Step

LEMMA StepLockInv ==
    ASSUME LockInv, NEW r \in Requests, Step(r)
    PROVE  LockInv'
<1>1. TypeInv' /\ OneInSection'
  BY StepTypeInv, StepOneInSection DEF LockInv, Next
<1>2. /\ pc \in [Requests -> {"waiting", "inviting", "done"} \cup InSection]
      /\ role \in [Users -> None .. Owner]
      /\ \A q \in Requests : pc[q] \in CreateSteps \cup {"commit", "locked"} => lock = q
      /\ None # Owner
  BY DEF LockInv, TypeInv, TypeOK, OneInSection, Roles, InSection, None, Owner
<1>3. /\ KeepsAnOwner /\ CheckedStillHolds /\ CreationKeepsItsGround /\ TypeInv
      /\ DisplayBelongsToTarget
  BY DEF LockInv
<1> USE <1>2, <1>3
    DEF KeepsAnOwner, DisplayBelongsToTarget, CheckedStillHolds, CreationKeepsItsGround, TargetLocked,
        EnsureAnotherOwner, Access, Goto, At, board, flight
<1>4. CASE Keeps(r)
  <2>1. KeepsAnOwner' /\ DisplayBelongsToTarget'
    BY <1>4 DEF Keeps
  <2>2. CheckedStillHolds'
    BY <1>4 DEF Keeps, CreateSteps
  <2>3. CreationKeepsItsGround'
    BY <1>4 DEF Keeps
  <2> QED
    BY <1>1, <2>1, <2>2, <2>3 DEF LockInv
<1>5. CASE Check(r)
  <2>1. UNCHANGED <<exists, role, target, display, call, view, runs>> /\ pc' = [pc EXCEPT ![r] = "commit"]
    BY <1>5 DEF Check
  <2>2. CheckedStillHolds'
    <3>1. call[r].op \in {"target", "refresh", "delete", "setRole", "remove"}
      BY <1>5, CallTypes DEF Check, TypeInv, TypeOK, StepFitsCall
    <3>2. Permitted(call[r])
      BY <1>5 DEF Check
    <3> QED
      BY <2>1, <3>1, <3>2 DEF Permitted, MaySetTarget, MayRefresh, MaySetRole, MayRemove
  <2>3. CreationKeepsItsGround' /\ KeepsAnOwner' /\ DisplayBelongsToTarget'
    BY <2>1 DEF CreateSteps
  <2> QED
    BY <1>1, <2>2, <2>3 DEF LockInv
<1>6. CASE Authorize(r)
  <2>1. /\ UNCHANGED <<exists, role, target, display, call, runs>>
        /\ pc' = [pc EXCEPT ![r] = "checking"]
        /\ view'[r].project = target
        /\ \A q \in Requests \ {r} : view'[q] = view[q]
        /\ target # NoProject
        /\ exists /\ role[call[r].user] >= Editor
    BY <1>6 DEF Authorize, MayCreate, TypeInv, TypeOK
  <2>2. CheckedStillHolds' /\ KeepsAnOwner' /\ DisplayBelongsToTarget'
    BY <2>1
  <2>3. CreationKeepsItsGround'
    BY <2>1 DEF CreateSteps
  <2> QED
    BY <1>1, <2>2, <2>3 DEF LockInv
<1>7. CASE SetTarget(r) \/ RefreshTargetDisplay(r) \/ Delete(r) \/ SetRole(r) \/ Remove(r)
  <2>1. /\ pc[r] = "commit"
        /\ pc' = [pc EXCEPT ![r] = "release"]
        /\ call' = call
        /\ \A q \in Requests : pc'[q] \notin CreateSteps \cup {"commit"}
    BY <1>7 DEF SetTarget, RefreshTargetDisplay, Delete, SetRole, Remove, CreateSteps
  <2>2. CheckedStillHolds' /\ CreationKeepsItsGround'
    BY <2>1
  <2>3. KeepsAnOwner' /\ DisplayBelongsToTarget'
    <3>1. CASE SetTarget(r) \/ RefreshTargetDisplay(r)
      BY <3>1 DEF SetTarget, RefreshTargetDisplay
    <3>2. CASE Delete(r)
      BY <3>2 DEF Delete
    <3>3. CASE SetRole(r)
      BY <3>3 DEF SetRole
    <3>4. CASE Remove(r)
      BY <3>4 DEF Remove
    <3> QED
      BY <1>7, <3>1, <3>2, <3>3, <3>4
  <2> QED
    BY <1>1, <2>2, <2>3 DEF LockInv
<1>8. CASE AddMember(r)
  <2>1. \A u \in Users : role[u] # None => role'[u] = role[u]
    BY <1>8 DEF AddMember
  <2>2. UNCHANGED <<exists, target, display, runs, call, view>> /\ pc' = [pc EXCEPT ![r] = "done"]
    BY <1>8 DEF AddMember
  <2>3. KeepsAnOwner' /\ CheckedStillHolds' /\ DisplayBelongsToTarget'
    BY <2>1, <2>2
  <2>4. CreationKeepsItsGround'
    <3>1. \A q \in Requests : call[q].user \in Users
      BY CallTypes DEF TypeInv, TypeOK
    <3> QED
      BY <2>1, <2>2, <3>1 DEF CreateSteps, Editor, None
  <2> QED
    BY <1>1, <2>3, <2>4 DEF LockInv
<1> QED
  BY <1>4, <1>5, <1>6, <1>7, <1>8, StepKeeps

LEMMA NextLockInv == LockInv /\ [Next]_vars => LockInv'
<1> SUFFICES ASSUME LockInv, [Next]_vars PROVE LockInv'
  OBVIOUS
<1>1. TypeInv' /\ OneInSection'
  BY StepTypeInv, StepOneInSection DEF LockInv
<1>2. ASSUME UNCHANGED <<exists, role, target, display, call, view, runs>>,
             \A r \in Requests : pc'[r] = pc[r] \/ pc'[r] \in {"waiting", "done"}
      PROVE  LockInv'
  BY <1>1, <1>2
  DEF LockInv, CheckedStillHolds, CreationKeepsItsGround, KeepsAnOwner,
      DisplayBelongsToTarget, TargetLocked, EnsureAnotherOwner, Access, CreateSteps
<1>3. CASE \E r \in Requests : Step(r)
  BY <1>3, StepLockInv
<1>4. CASE Crash
  BY <1>2, <1>4 DEF Crash, board, flight, LockInv, TypeInv, TypeOK
<1>5. CASE SaveScene \/ (\E r \in Requests : Disconnect(r)) \/ UNCHANGED vars
  BY <1>2, <1>5 DEF SaveScene, Disconnect, vars, board, flight
<1> QED
  BY <1>3, <1>4, <1>5 DEF Next, AllServed

LEMMA InitLockInv == Init => LockInv
<1> SUFFICES ASSUME Init PROVE LockInv
  OBVIOUS
<1>1. TypeInv
  BY InitTypeInv
<1>2. OneInSection /\ CheckedStillHolds /\ CreationKeepsItsGround
  BY ConstantsAssumption
  DEF Init, OneInSection, CheckedStillHolds, CreationKeepsItsGround, InSection, CreateSteps
<1>3. KeepsAnOwner /\ DisplayBelongsToTarget
  BY ConstantsAssumption DEF Init, KeepsAnOwner, DisplayBelongsToTarget
<1> QED
  BY <1>1, <1>2, <1>3 DEF LockInv

(* BoardLocks keeps the operations that read before they write apart, for  *)
(* any number of requests, whatever fails, disconnects or crashes.         *)
THEOREM LockIsExclusive == Spec => []OneInSection
<1>1. LockInv => OneInSection
  BY DEF LockInv
<1> QED
  BY <1>1, InitLockInv, NextLockInv, PTL DEF Spec

(* While a creation talks to GitHub, nobody takes its board, its role or   *)
(* its project away, though roles and boards are read only once.           *)
THEOREM GroundIsKept == Spec => []CreationKeepsItsGround
<1>1. LockInv => CreationKeepsItsGround
  BY DEF LockInv
<1> QED
  BY <1>1, InitLockInv, NextLockInv, PTL DEF Spec

(* The names shown for the project of a board are never those of another.  *)
THEOREM DisplayBelongs == Spec => []DisplayBelongsToTarget
<1>1. LockInv => DisplayBelongsToTarget
  BY DEF LockInv
<1> QED
  BY <1>1, InitLockInv, NextLockInv, PTL DEF Spec

(* ensureAnotherOwner, read before the write, is enough to keep an owner.  *)
THEOREM OwnerIsKept == Spec => []KeepsAnOwner
<1>1. LockInv => KeepsAnOwner
  BY DEF LockInv
<1> QED
  BY <1>1, InitLockInv, NextLockInv, PTL DEF Spec

-----------------------------------------------------------------------------
(* BoardWrites keeps the promise of TargetBinding: once a creation is      *)
(* recorded the board keeps its project, and everything recorded lies in   *)
(* it.                                                                     *)

Lies(x) == x \in Items /\ github[x].project = target

(* Of every run, the rows GitHub answered. *)
HistoryLies ==
    \A n \in DOMAIN runs : \A k \in DOMAIN runs[n].rows :
        runs[n].rows[k].confirmed => Lies(runs[n].rows[k].item)

(* The same of the rows a running creation has collected, and of the items *)
(* it was allowed to update.                                               *)
CollectedLie(r) ==
    \A k \in DOMAIN rows[r] : rows[r][k].confirmed => Lies(rows[r][k].item)

PreviousLie(r) ==
    \A i \in DOMAIN call[r].plan : call[r].plan[i].prev # NoItem => Lies(call[r].plan[i].prev)

CreationsLie ==
    \A r \in Requests : pc[r] \in CreateSteps =>
        CollectedLie(r) /\ (pc[r] # "checking" => PreviousLie(r))

HistoryHasTarget == runs # << >> => target # NoProject

BindingInv == LockInv /\ HistoryLies /\ CreationsLie /\ HistoryHasTarget

LEMMA HistoryRows ==
    ASSUME NEW p \in ConfirmedRows(runs)
    PROVE  /\ p[1] \in DOMAIN runs
           /\ p[2] \in DOMAIN runs[p[1]].rows
           /\ runs[p[1]].rows[p[2]].confirmed
           /\ RowAt(runs, p) = runs[p[1]].rows[p[2]]
  BY DEF ConfirmedRows, RowIds, RowAt

(* An item never moves to another project.                                 *)
LEMMA ItemsStayInProject ==
    ASSUME LockInv, NEW r \in Requests, Step(r)
    PROVE  \A x \in Items : github[x].project # NoProject =>
                github'[x].project = github[x].project
<1>1. github \in [Items -> GithubItem]
  BY DEF LockInv, TypeInv, TypeOK
<1>2. CASE WriteDraftIssue(r)
  <2>1. PICK i : CreateDraftIssue(r, i) \/ UpdateDraftIssue(r, i)
    BY <1>2 DEF WriteDraftIssue
  <2>2. CASE CreateDraftIssue(r, i)
    BY <1>1, <2>2 DEF CreateDraftIssue, Fresh, Absent
  <2>3. CASE UpdateDraftIssue(r, i)
    BY <1>1, <2>3 DEF UpdateDraftIssue, GithubItem
  <2> QED
    BY <2>1, <2>2, <2>3
<1>3. CASE SetKind(r)
  BY <1>1, <1>3 DEF SetKind, GithubItem
<1>4. CASE SetParent(r)
  BY <1>1, <1>4 DEF SetParent, GithubItem
<1>5. CASE UNCHANGED github
  BY <1>5
<1>6. WriteDraftIssue(r) \/ SetKind(r) \/ SetParent(r) \/ UNCHANGED github
  BY DEF Step, Acquire, GiveUp, Release, Refuse, Abort, Check, SetTarget, Delete, SetRole,
         RefreshTargetDisplay, Remove, CheckInvite, AddMember, Authorize, CheckPreviousItems, ResolveFields, Stop,
         Finish, SaveRun, SaveRunFails
<1> QED
  BY <1>2, <1>3, <1>4, <1>5, <1>6

(* What lay in the project of the board still does, unless that changed.   *)
LEMMA StillLies ==
    ASSUME LockInv, target # NoProject, target' = target,
           NEW r \in Requests, Step(r), NEW x, Lies(x)
    PROVE  Lies(x)'
  BY ItemsStayInProject DEF Lies

(* Steps that collect nothing and pass no check of previous items.         *)
Quiet(r) ==
    /\ UNCHANGED <<target, runs, call, rows>>
    /\ \E step : /\ Goto(r, step)
                 /\ step \in CreateSteps => pc[r] \in CreateSteps \ {"checking"}

LEMMA StepQuiet ==
    ASSUME LockInv, NEW r \in Requests, Step(r)
    PROVE  \/ Quiet(r)
           \/ Authorize(r) \/ CheckPreviousItems(r) \/ WriteDraftIssue(r) \/ SaveRun(r)
           \/ SetTarget(r) \/ Delete(r)
<1> USE DEF Quiet, CreateSteps, Goto, At, board, flight
<1>1. CASE SetKind(r) \/ SetParent(r)
  BY <1>1 DEF SetKind, SetParent, ParentStep, Fail
<1>2. CASE Acquire(r) \/ GiveUp(r) \/ CheckInvite(r) \/ Release(r)
  BY <1>2 DEF Acquire, GiveUp, CheckInvite, Release
<1>3. CASE Refuse(r) \/ Abort(r) \/ Check(r)
  BY <1>3 DEF Refuse, Abort, Check
<1>4. CASE ResolveFields(r) \/ Stop(r) \/ Finish(r) \/ SaveRunFails(r)
  BY <1>4 DEF ResolveFields, Stop, Finish, SaveRunFails
<1>5. CASE RefreshTargetDisplay(r) \/ SetRole(r) \/ Remove(r) \/ AddMember(r)
  BY <1>5 DEF RefreshTargetDisplay, SetRole, Remove, AddMember
<1> QED
  BY <1>1, <1>2, <1>3, <1>4, <1>5 DEF Step

LEMMA HistoryKept ==
    ASSUME BindingInv, NEW r \in Requests, Step(r), UNCHANGED <<target, runs>>
    PROVE  HistoryLies' /\ HistoryHasTarget'
<1>1. HistoryHasTarget'
  BY DEF BindingInv, HistoryHasTarget
<1>2. ASSUME NEW n \in DOMAIN runs, NEW k \in DOMAIN runs[n].rows, runs[n].rows[k].confirmed
      PROVE  Lies(runs[n].rows[k].item)'
  <2>1. runs # << >>
    BY <1>2 DEF BindingInv, LockInv, TypeInv, TypeOK
  <2> QED
    BY <1>2, <2>1, StillLies DEF BindingInv, HistoryLies, HistoryHasTarget
<1> QED
  BY <1>1, <1>2 DEF HistoryLies

(* The creations in the section keep the project under their feet.         *)
LEMMA CreationHasTarget ==
    ASSUME BindingInv, NEW r \in Requests, pc[r] \in CreateSteps
    PROVE  target # NoProject /\ view[r].project = target
  BY DEF BindingInv, LockInv, CreationKeepsItsGround

LEMMA OthersKept ==
    ASSUME BindingInv, NEW r \in Requests, Step(r), UNCHANGED <<target, call>>,
           NEW q \in Requests, rows'[q] = rows[q], pc'[q] \in CreateSteps,
           pc[q] \in CreateSteps,
           pc'[q] # "checking" => pc[q] # "checking"
    PROVE  CollectedLie(q)' /\ (pc'[q] # "checking" => PreviousLie(q)')
<1>1. target # NoProject /\ LockInv
  BY CreationHasTarget DEF BindingInv
<1>2. \A x : Lies(x) => x \in Items /\ github'[x].project = target'
  BY <1>1, StillLies DEF Lies
<1>3. CollectedLie(q) /\ (pc'[q] # "checking" => PreviousLie(q))
  BY DEF BindingInv, CreationsLie
<1> QED
  BY <1>2, <1>3 DEF Lies, CollectedLie, PreviousLie

LEMMA WriteLies ==
    ASSUME BindingInv, NEW r \in Requests, WriteDraftIssue(r)
    PROVE  \E row :
            /\ rows' = [rows EXCEPT ![r] = Append(rows[r], row)]
            /\ row.confirmed => row.item \in Items /\ github'[row.item].project = target'
<1>1. pc[r] = "writing" /\ UNCHANGED <<target, call>> /\ Step(r)
  BY DEF WriteDraftIssue, board, Step
<1>2. target # NoProject /\ view[r].project = target /\ LockInv
  BY <1>1, CreationHasTarget DEF CreateSteps, BindingInv
<1>3. PICK i \in DOMAIN call[r].plan : CreateDraftIssue(r, i) \/ UpdateDraftIssue(r, i)
  BY DEF WriteDraftIssue
<1>4. github \in [Items -> GithubItem]
  BY <1>2 DEF LockInv, TypeInv, TypeOK
<1> DEFINE row(x, answered) ==
        [localId |-> i, item |-> x, title |-> call[r].plan[i].title, confirmed |-> answered]
<1> DEFINE Holds(x) == x \in Items /\ github'[x].project = target'
<1>5. \E x : \/ rows' = [rows EXCEPT ![r] = Append(rows[r], row(x, FALSE))]
             \/ rows' = [rows EXCEPT ![r] = Append(rows[r], row(x, TRUE))] /\ Holds(x)
  <2>1. CASE CreateDraftIssue(r, i)
    <3>1. CASE \E x \in Items : /\ github' = [github EXCEPT ![x] =
                                    [Absent EXCEPT !.project = view[r].project,
                                                   !.title = call[r].plan[i].title,
                                                   !.by = <<r, i>>]]
                                /\ Answered(r, i, x)
      BY <1>1, <1>2, <1>4, <3>1 DEF Answered, Collect, Lies, Absent
    <3>2. CASE Unanswered(r, i, NoItem)
      BY <3>2 DEF Unanswered, Collect
    <3> QED
      BY <2>1, <3>1, <3>2 DEF CreateDraftIssue
  <2>2. CASE UpdateDraftIssue(r, i)
    <3> DEFINE x == call[r].plan[i].prev
    <3>1. Holds(x)
      <4>1. x # NoItem
        BY <2>2 DEF UpdateDraftIssue
      <4>2. Lies(x)
        BY <1>1, <4>1 DEF BindingInv, CreationsLie, PreviousLie, CreateSteps
      <4> QED
        BY <1>1, <1>2, <4>2, StillLies DEF Lies
    <3>2. Answered(r, i, x) \/ Unanswered(r, i, x)
      BY <2>2 DEF UpdateDraftIssue
    <3>3. \/ rows' = [rows EXCEPT ![r] = Append(rows[r], row(x, FALSE))]
          \/ rows' = [rows EXCEPT ![r] = Append(rows[r], row(x, TRUE))]
      BY <3>2 DEF Answered, Unanswered, Collect
    <3> HIDE DEF x, row, Holds
    <3> QED
      BY <3>1, <3>3
  <2> HIDE DEF row, Holds
  <2> QED
    BY <1>3, <2>1, <2>2
<1>6. CASE \E x : rows' = [rows EXCEPT ![r] = Append(rows[r], row(x, FALSE))]
  <2>1. PICK x : rows' = [rows EXCEPT ![r] = Append(rows[r], row(x, FALSE))]
    BY <1>6
  <2>2. ~row(x, FALSE).confirmed
    OBVIOUS
  <2> QED
    BY <2>1, <2>2
<1>7. CASE \E x : rows' = [rows EXCEPT ![r] = Append(rows[r], row(x, TRUE))] /\ Holds(x)
  <2>1. PICK x : rows' = [rows EXCEPT ![r] = Append(rows[r], row(x, TRUE))] /\ Holds(x)
    BY <1>7
  <2>2. row(x, TRUE).item = x /\ Holds(x)
    BY <2>1
  <2> QED
    BY <2>1, <2>2
<1> HIDE DEF row, Holds
<1> QED
  BY <1>5, <1>6, <1>7

LEMMA StepBindingInv ==
    ASSUME BindingInv, NEW r \in Requests, Step(r)
    PROVE  BindingInv'
<1>1. LockInv'
  BY StepLockInv DEF BindingInv
<1>2. /\ LockInv /\ TypeInv
      /\ pc \in [Requests -> {"waiting", "inviting", "done"} \cup InSection]
      /\ rows \in [Requests -> Seq(Row)]
      /\ \A q \in Requests : pc[q] \in CreateSteps \cup {"commit"} => lock = q
  BY DEF BindingInv, LockInv, TypeInv, TypeOK, OneInSection, InSection
<1>3. ASSUME UNCHANGED <<target, runs, call>>,
             \A q \in Requests \ {r} : pc'[q] = pc[q] /\ rows'[q] = rows[q],
             pc'[r] \in CreateSteps =>
                CollectedLie(r)' /\ (pc'[r] # "checking" => PreviousLie(r)')
      PROVE  BindingInv'
  <2>1. HistoryLies' /\ HistoryHasTarget'
    BY <1>3, HistoryKept
  <2>2. ASSUME NEW q \in Requests, pc'[q] \in CreateSteps
        PROVE  CollectedLie(q)' /\ (pc'[q] # "checking" => PreviousLie(q)')
    <3>1. CASE q = r
      BY <1>3, <2>2, <3>1
    <3>2. CASE q # r
      BY <1>3, <2>2, <3>2, OthersKept
    <3> QED
      BY <3>1, <3>2
  <2>3. CreationsLie'
    BY <2>2 DEF CreationsLie
  <2> QED
    BY <1>1, <2>1, <2>3 DEF BindingInv
<1>4. CASE Quiet(r)
  <2>1. /\ UNCHANGED <<target, runs, call, rows>>
        /\ \A q \in Requests \ {r} : pc'[q] = pc[q]
        /\ pc'[r] \in CreateSteps => pc[r] \in CreateSteps \ {"checking"}
    BY <1>2, <1>4 DEF Quiet, Goto
  <2>2. pc'[r] \in CreateSteps =>
            CollectedLie(r)' /\ (pc'[r] # "checking" => PreviousLie(r)')
    BY <2>1, OthersKept
  <2> QED
    BY <1>3, <2>1, <2>2
<1>5. CASE Authorize(r)
  <2>1. /\ UNCHANGED <<target, runs, call, rows>>
        /\ pc' = [pc EXCEPT ![r] = "checking"]
        /\ rows[r] = << >>
    BY <1>2, <1>5 DEF Authorize, Goto, At, board, TypeInv, RowsFit
  <2>2. CollectedLie(r)'
    BY <2>1 DEF CollectedLie
  <2>3. pc'[r] = "checking" /\ \A q \in Requests \ {r} : pc'[q] = pc[q]
    BY <1>2, <2>1
  <2> QED
    BY <1>3, <2>1, <2>2, <2>3
<1>6. CASE CheckPreviousItems(r)
  <2>1. /\ UNCHANGED <<target, runs, call, rows, github>>
        /\ pc[r] = "checking"
        /\ \/ pc' = [pc EXCEPT ![r] = "resolving"] /\ PreviousItemsKnown(r)
           \/ pc' = [pc EXCEPT ![r] = "release"]
    BY <1>6 DEF CheckPreviousItems, Goto, board, flight
  <2>2. PreviousItemsKnown(r) => PreviousLie(r)
    BY HistoryRows
    DEF PreviousItemsKnown, ListItemsByAnnotation, FoldedRows, BindingInv, HistoryLies,
        PreviousLie
  <2>3. pc'[r] \in CreateSteps => PreviousItemsKnown(r)
    BY <1>2, <2>1 DEF CreateSteps
  <2>4. CollectedLie(r)
    BY <2>1 DEF BindingInv, CreationsLie, CreateSteps
  <2>5. CollectedLie(r)' /\ (PreviousLie(r) => PreviousLie(r)')
    BY <2>1, <2>4 DEF Lies, CollectedLie, PreviousLie
  <2>6. \A q \in Requests \ {r} : pc'[q] = pc[q]
    BY <1>2, <2>1
  <2> QED
    BY <1>3, <2>1, <2>2, <2>3, <2>5, <2>6
<1>7. CASE WriteDraftIssue(r)
  <2>1. PICK row : /\ rows' = [rows EXCEPT ![r] = Append(rows[r], row)]
                   /\ row.confirmed => row.item \in Items /\ github'[row.item].project = target'
    BY <1>7, WriteLies
  <2>2. /\ UNCHANGED <<target, runs, call>>
        /\ pc[r] = "writing"
        /\ \E step \in {"kind", "saving"} : pc' = [pc EXCEPT ![r] = step]
    BY <1>7
    DEF WriteDraftIssue, board, CreateDraftIssue, UpdateDraftIssue, Answered, Unanswered,
        Fail, Goto
  <2>3. /\ target # NoProject
        /\ \A x : Lies(x) => x \in Items /\ github'[x].project = target'
    BY <1>2, <2>2, StillLies, CreationHasTarget DEF Lies, CreateSteps
  <2>4. rows[r] \in Seq(Row) /\ CollectedLie(r) /\ PreviousLie(r)
    BY <1>2, <2>2 DEF BindingInv, CreationsLie, CreateSteps
  <2>5. rows'[r] = Append(rows[r], row) /\ \A q \in Requests \ {r} : rows'[q] = rows[q]
    BY <1>2, <2>1
  <2>6. \A k \in DOMAIN rows'[r] : \/ k \in DOMAIN rows[r] /\ rows'[r][k] = rows[r][k]
                                   \/ rows'[r][k] = row
    BY <2>4, <2>5
  <2>7. CollectedLie(r)' /\ PreviousLie(r)'
    BY <2>1, <2>2, <2>3, <2>4, <2>6 DEF Lies, CollectedLie, PreviousLie
  <2>8. \A q \in Requests \ {r} : pc'[q] = pc[q]
    BY <1>2, <2>2
  <2> QED
    BY <1>3, <2>2, <2>5, <2>7, <2>8
<1>8. CASE SaveRun(r)
  <2>1. /\ UNCHANGED <<target, github, call, rows>>
        /\ pc[r] = "saving"
        /\ pc' = [pc EXCEPT ![r] = "release"]
        /\ runs' = Append(runs, [req |-> r, annotation |-> call[r].annotation,
                                 hash |-> RecordedHash(r), complete |-> ~failed[r],
                                 rows |-> rows[r]])
    BY <1>8 DEF SaveRun, Goto, board, flight
  <2>2. /\ runs \in Seq(Run)
        /\ \A n \in DOMAIN runs' : \/ n \in DOMAIN runs /\ runs'[n] = runs[n]
                                   \/ runs'[n].rows = rows[r]
    BY <1>2, <2>1 DEF TypeInv, TypeOK
  <2>3. HistoryHasTarget'
    BY <2>1, CreationHasTarget DEF HistoryHasTarget, CreateSteps
  <2>4. CollectedLie(r)
    BY <2>1 DEF BindingInv, CreationsLie, CreateSteps
  <2>5. HistoryLies'
    BY <2>1, <2>2, <2>4 DEF BindingInv, HistoryLies, Lies, CollectedLie
  <2>6. CreationsLie'
    <3>1. \A q \in Requests : pc'[q] \in CreateSteps => pc'[q] = pc[q]
      BY <1>2, <2>1 DEF CreateSteps
    <3> QED
      BY <2>1, <3>1 DEF BindingInv, CreationsLie, CollectedLie, PreviousLie, Lies
  <2> QED
    BY <1>1, <2>3, <2>5, <2>6 DEF BindingInv
<1>9. CASE SetTarget(r) \/ Delete(r)
  <2>1. \A q \in Requests : pc'[q] \notin CreateSteps
    BY <1>2, <1>9 DEF SetTarget, Delete, At, Goto, CreateSteps
  <2>2. runs' = << >> \/ UNCHANGED <<runs, target>>
    BY <1>2, <1>9
    DEF SetTarget, Delete, At, LockInv, CheckedStillHolds, TargetLocked, MemberExists, board
  <2>3. HistoryLies' /\ HistoryHasTarget'
    BY <2>2, HistoryKept DEF HistoryLies, HistoryHasTarget
  <2> QED
    BY <1>1, <2>1, <2>3 DEF BindingInv, CreationsLie
<1> QED
  BY <1>2, <1>4, <1>5, <1>6, <1>7, <1>8, <1>9, StepQuiet

LEMMA NextBindingInv == BindingInv /\ [Next]_vars => BindingInv'
<1> SUFFICES ASSUME BindingInv, [Next]_vars PROVE BindingInv'
  OBVIOUS
<1>1. LockInv'
  BY NextLockInv DEF BindingInv
<1>2. ASSUME UNCHANGED <<target, call, runs, github, rows>>,
             \A r \in Requests : pc'[r] = pc[r] \/ pc'[r] \in {"waiting", "done"}
      PROVE  BindingInv'
  <2>1. HistoryLies' /\ HistoryHasTarget'
    BY <1>2 DEF BindingInv, HistoryLies, HistoryHasTarget, Lies
  <2>2. CreationsLie'
    BY <1>2 DEF BindingInv, CreationsLie, CollectedLie, PreviousLie, Lies, CreateSteps
  <2> QED
    BY <1>1, <2>1, <2>2 DEF BindingInv
<1>3. CASE \E r \in Requests : Step(r)
  BY <1>3, StepBindingInv
<1>4. CASE Crash
  BY <1>2, <1>4 DEF Crash, board, flight
<1>5. CASE SaveScene \/ (\E r \in Requests : Disconnect(r)) \/ UNCHANGED vars
  BY <1>2, <1>5 DEF SaveScene, Disconnect, vars, board, flight
<1> QED
  BY <1>3, <1>4, <1>5 DEF Next, AllServed

LEMMA InitBindingInv == Init => BindingInv
<1> SUFFICES ASSUME Init PROVE BindingInv
  OBVIOUS
<1>1. HistoryLies /\ HistoryHasTarget /\ CreationsLie
  BY DEF Init, HistoryLies, HistoryHasTarget, CreationsLie, CreateSteps
<1> QED
  BY <1>1, InitLockInv DEF BindingInv

(* Every item the history claims lies in the project the board points to.  *)
THEOREM RecordedLiesInTarget == Spec => []RecordedInTarget
<1>1. BindingInv => RecordedInTarget
  BY HistoryRows DEF BindingInv, HistoryLies, Lies, RecordedInTarget
<1> QED
  BY <1>1, InitBindingInv, NextBindingInv, PTL DEF Spec

-----------------------------------------------------------------------------
(* The refinement. *)

(* What a history claims to have written.                                  *)
Known(h) == {RowAt(h, p).item : p \in ConfirmedRows(h)}

LEMMA KnownRows ==
    ASSUME NEW h, NEW x
    PROVE  x \in Known(h) <=>
                \E n \in DOMAIN h : \E k \in DOMAIN h[n].rows :
                    h[n].rows[k].confirmed /\ h[n].rows[k].item = x
<1>1. ASSUME NEW n \in DOMAIN h, NEW k \in DOMAIN h[n].rows, h[n].rows[k].confirmed
      PROVE  h[n].rows[k].item \in Known(h)
  <2>1. <<n, k>> \in ConfirmedRows(h) /\ RowAt(h, <<n, k>>) = h[n].rows[k]
    BY <1>1 DEF ConfirmedRows, RowIds, RowAt
  <2> QED
    BY <2>1 DEF Known
<1>2. ASSUME NEW p \in ConfirmedRows(h)
      PROVE  /\ p[1] \in DOMAIN h
             /\ p[2] \in DOMAIN h[p[1]].rows
             /\ h[p[1]].rows[p[2]].confirmed
             /\ RowAt(h, p) = h[p[1]].rows[p[2]]
  BY DEF ConfirmedRows, RowIds, RowAt
<1> QED
  BY <1>1, <1>2 DEF Known

Home == [x \in Items |-> github[x].project]

LEMMA HomeChanges ==
    ASSUME BindingInv, NEW r \in Requests, Step(r), ~WriteDraftIssue(r)
    PROVE  Home' = Home
<1>1. github \in [Items -> GithubItem]
  BY DEF BindingInv, LockInv, TypeInv, TypeOK
<1>2. CASE SetKind(r)
  BY <1>1, <1>2 DEF SetKind, GithubItem, Home
<1>3. CASE SetParent(r)
  BY <1>1, <1>3 DEF SetParent, GithubItem, Home
<1>4. CASE UNCHANGED github
  BY <1>4 DEF Home
<1>5. SetKind(r) \/ SetParent(r) \/ UNCHANGED github
  BY DEF Step, Acquire, GiveUp, Release, Refuse, Abort, Check, SetTarget, Delete, SetRole,
         RefreshTargetDisplay, Remove, CheckInvite, AddMember, Authorize, CheckPreviousItems, ResolveFields, Stop,
         Finish, SaveRun, SaveRunFails
<1> QED
  BY <1>2, <1>3, <1>4, <1>5

LEMMA WriteMaps ==
    ASSUME BindingInv, NEW r \in Requests, WriteDraftIssue(r)
    PROVE  \/ Home' = Home
           \/ \E x \in Items, p \in Projects :
                Home[x] = NoProject /\ Home' = [Home EXCEPT ![x] = p]
<1>1. github \in [Items -> GithubItem] /\ target \in Projects \cup {NoProject}
  BY DEF BindingInv, LockInv, TypeInv, TypeOK
<1>2. view[r].project \in Projects
  BY <1>1, CreationHasTarget DEF WriteDraftIssue, CreateSteps
<1>3. PICK i : CreateDraftIssue(r, i) \/ UpdateDraftIssue(r, i)
  BY DEF WriteDraftIssue
<1>4. CASE CreateDraftIssue(r, i) /\ github' # github
  <2>1. PICK x \in Items : /\ Fresh(x)
                           /\ github' = [github EXCEPT ![x] =
                                [Absent EXCEPT !.project = view[r].project,
                                               !.title = call[r].plan[i].title,
                                               !.by = <<r, i>>]]
    BY <1>4 DEF CreateDraftIssue
  <2>2. github[x].project = NoProject /\ github'[x].project = view[r].project
    BY <1>1, <2>1 DEF Fresh, Absent
  <2>3. \A y \in Items \ {x} : github'[y] = github[y]
    BY <1>1, <2>1
  <2>4. Home[x] = NoProject /\ Home' = [Home EXCEPT ![x] = view[r].project]
    BY <2>2, <2>3 DEF Home
  <2> QED
    BY <1>2, <2>4
<1>5. CASE UpdateDraftIssue(r, i)
  <2>1. \A x \in Items : github'[x].project = github[x].project
    BY <1>1, <1>5 DEF UpdateDraftIssue, GithubItem
  <2> QED
    BY <2>1 DEF Home
<1>6. CASE UNCHANGED github
  BY <1>6 DEF Home
<1> QED
  BY <1>3, <1>4, <1>5, <1>6

LEMMA SaveRunMaps ==
    ASSUME BindingInv, NEW r \in Requests, SaveRun(r)
    PROVE  /\ target # NoProject
           /\ \E S \in SUBSET {x \in Items : Home[x] = target} :
                RecordedItems' = RecordedItems \cup S
<1>1. /\ runs' = Append(runs, [req |-> r, annotation |-> call[r].annotation,
                               hash |-> RecordedHash(r), complete |-> ~failed[r],
                               rows |-> rows[r]])
      /\ pc[r] = "saving"
  BY DEF SaveRun
<1>2. runs \in Seq(Run)
  BY DEF BindingInv, LockInv, TypeInv, TypeOK
<1> DEFINE S == {rows[r][k].item : k \in {j \in DOMAIN rows[r] : rows[r][j].confirmed}}
<1>3. /\ DOMAIN runs' = DOMAIN runs \cup {Len(runs) + 1}
      /\ \A n \in DOMAIN runs : runs'[n] = runs[n]
      /\ runs'[Len(runs) + 1].rows = rows[r]
  BY <1>1, <1>2
<1>4. \A x : x \in Known(runs') <=> x \in Known(runs) \/ x \in S
  BY <1>3, KnownRows
<1>5. RecordedItems' = RecordedItems \cup S
  BY <1>4 DEF RecordedItems, Known
<1>6. target # NoProject
  BY <1>1, CreationHasTarget DEF CreateSteps
<1>7. \A x \in S : x \in Items /\ Home[x] = target
  BY <1>1 DEF BindingInv, CreationsLie, CollectedLie, Lies, Home, CreateSteps
<1> QED
  BY <1>5, <1>6, <1>7

LEMMA StepMaps ==
    ASSUME BindingInv, NEW r \in Requests, Step(r)
    PROVE  [Binding!Next]_(Binding!vars)
<1> USE DEF Binding!Next, Binding!vars, TargetLocked
<1>1. CASE WriteDraftIssue(r)
  <2>1. UNCHANGED <<target, runs>>
    BY <1>1 DEF WriteDraftIssue, board
  <2>2. RecordedItems' = RecordedItems
    BY <2>1 DEF RecordedItems
  <2> QED
    BY <1>1, <2>1, <2>2, WriteMaps DEF Binding!Appear, Home
<1>2. CASE SaveRun(r)
  <2>1. runs' # << >> /\ target' = target
    <3>1. runs \in Seq(Run)
      BY DEF BindingInv, LockInv, TypeInv, TypeOK
    <3> QED
      BY <1>2, <3>1 DEF SaveRun, board
  <2>2. Home' = Home
    BY <1>2 DEF SaveRun, Home
  <2> QED
    BY <1>2, <2>1, <2>2, SaveRunMaps DEF Binding!Record, Home
<1>3. CASE SetTarget(r)
  <2>1. UNCHANGED <<runs, github>> /\ ~TargetLocked(runs)
    BY <1>3
    DEF SetTarget, At, BindingInv, LockInv, CheckedStillHolds
  <2>2. Home' = Home /\ RecordedItems' = RecordedItems
    BY <2>1 DEF Home, RecordedItems
  <2>3. target' = target \/ target' \in Projects
    BY <1>3, CallTypes DEF SetTarget, At, BindingInv, LockInv, TypeInv, TypeOK
  <2> QED
    BY <2>1, <2>2, <2>3 DEF Binding!Choose, Home
<1>4. CASE Delete(r)
  <2>1. Home' = Home
    BY <1>4 DEF Delete, Home
  <2>2. CASE runs' = << >> /\ target' = NoProject
    <3>1. RecordedItems' = {}
      BY <2>2 DEF RecordedItems, ConfirmedRows, RowIds
    <3> QED
      BY <2>1, <2>2, <3>1 DEF Binding!Discard, Home
  <2>3. CASE UNCHANGED <<target, runs>>
    <3>1. RecordedItems' = RecordedItems
      BY <2>3 DEF RecordedItems
    <3> QED
      BY <2>1, <2>3, <3>1 DEF Home
  <2> QED
    BY <1>4, <2>2, <2>3 DEF Delete, board
<1>5. CASE UNCHANGED <<target, runs>> /\ ~WriteDraftIssue(r)
  <2>1. Home' = Home /\ RecordedItems' = RecordedItems
    BY <1>5, HomeChanges DEF RecordedItems
  <2> QED
    BY <1>5, <2>1 DEF Home
<1>6. \/ WriteDraftIssue(r) \/ SaveRun(r) \/ SetTarget(r) \/ Delete(r)
      \/ UNCHANGED <<target, runs>> /\ ~WriteDraftIssue(r)
  BY StepQuiet DEF BindingInv, Quiet, Authorize, CheckPreviousItems, board
<1> QED
  BY <1>1, <1>2, <1>3, <1>4, <1>5, <1>6

(* The board with its locks, requests, failures and crashes implements the *)
(* promise of TargetBinding.                                               *)
THEOREM BindingImplemented == Spec => BindingKept
<1>1. Init => Binding!Init
  BY DEF Init, Binding!Init, TargetLocked, Absent, RecordedItems, ConfirmedRows, RowIds
<1>2. BindingInv /\ [Next]_vars => [Binding!Next]_(Binding!vars)
  <2> SUFFICES ASSUME BindingInv, [Next]_vars PROVE [Binding!Next]_(Binding!vars)
    OBVIOUS
  <2>1. CASE \E r \in Requests : Step(r)
    BY <2>1, StepMaps
  <2>2. CASE UNCHANGED <<target, runs, github>>
    <3>1. RecordedItems' = RecordedItems
      BY <2>2 DEF RecordedItems
    <3> QED
      BY <2>2, <3>1 DEF Binding!vars, TargetLocked
  <2>3. (\E r \in Requests : Step(r)) \/ UNCHANGED <<target, runs, github>>
    BY DEF Next, Crash, SaveScene, Disconnect, AllServed, vars, board
  <2> QED
    BY <2>1, <2>2, <2>3
<1> QED
  BY <1>1, <1>2, InitBindingInv, NextBindingInv, PTL DEF Spec, BindingKept, Binding!Spec

-----------------------------------------------------------------------------
(* The history: the inductive invariant *)

(* A creation works on a validated plan, in the order of applyItems: what  *)
(* precedes a collected item is collected.                                 *)
InOrder(r) ==
    /\ Validate(call[r].plan)
    /\ \A i \in Handled(r), j \in DOMAIN call[r].plan :
            Precedes(call[r].plan, j, i) => j \in Handled(r)

CreationsInOrder == \A r \in Requests : pc[r] \in CreateSteps => InOrder(r)

(* An item somebody made, and the annotation it was made for. *)
Belongs(x, a) ==
    /\ x \in Items
    /\ github[x].by # Nobody
    /\ call[github[x].by[1]].annotation = a

MadeByCreations ==
    \A x \in Items : github[x].by # Nobody =>
        /\ github[x].by[1] \in Requests
        /\ call[github[x].by[1]].op = "create"

(* A run repeats what its request asked for. *)
RunsFit ==
    \A n \in DOMAIN runs :
        /\ call[runs[n].req].op = "create"
        /\ runs[n].annotation = call[runs[n].req].annotation
        /\ runs[n].hash = call[runs[n].req].hash

(* Rows that name an item name one of their annotation; a confirmed row    *)
(* names one.                                                              *)
RowsBelong(rs, a) ==
    \A k \in DOMAIN rs :
        /\ rs[k].confirmed => rs[k].item # NoItem
        /\ rs[k].item # NoItem => Belongs(rs[k].item, a)

HistoryBelongs == \A n \in DOMAIN runs : RowsBelong(runs[n].rows, runs[n].annotation)

PreviousBelong(r) ==
    \A i \in DOMAIN call[r].plan :
        call[r].plan[i].prev # NoItem => Belongs(call[r].plan[i].prev, call[r].annotation)

CreationsBelong ==
    \A r \in Requests : pc[r] \in CreateSteps =>
        /\ RowsBelong(rows[r], call[r].annotation)
        /\ pc[r] # "checking" => PreviousBelong(r)

(* The rows hold the write that made x: its id, or that none was answered. *)
HoldsMaker(rs, x) ==
    \E k \in DOMAIN rs :
        /\ rs[k].localId = github[x].by[2]
        /\ rs[k].item = IF rs[k].confirmed THEN x ELSE NoItem

MakerKnown(x) ==
    LET r == github[x].by[1]
    IN  \/ r \in lost
        \/ pc[r] \in CreateSteps /\ HoldsMaker(rows[r], x)
        \/ \E n \in DOMAIN runs : runs[n].req = r /\ HoldsMaker(runs[n].rows, x)

MakersKnown == exists => \A x \in Items : github[x].by # Nobody => MakerKnown(x)

(* The last row of an item says what the item is called now, if answered.  *)
HandShowsGithub ==
    \A r \in Requests : pc[r] \in CreateSteps =>
        \A k \in DOMAIN rows[r] :
            /\ rows[r][k].confirmed
            /\ \A j \in DOMAIN rows[r] : k < j => rows[r][j].item # rows[r][k].item
            => github[rows[r][k].item].title = rows[r][k].title

(* No item is collected twice, nor both collected and still to be updated. *)
ItemsApart(r) ==
    \A k \in DOMAIN rows[r] :
        /\ \A j \in DOMAIN rows[r] : j # k /\ rows[r][j].item # NoItem =>
                rows[r][j].item # rows[r][k].item
        /\ \A i \in Pending(r) : call[r].plan[i].prev # NoItem =>
                call[r].plan[i].prev # rows[r][k].item

(* While no error was met, everything collected is written, the last item  *)
(* as far as the creation has got with it.                                 *)
RowWritten(r, k) ==
    LET x == rows[r][k].item
        i == rows[r][k].localId
        last == k = Len(rows[r])
    IN  /\ rows[r][k].confirmed
        /\ github[x].title = call[r].plan[i].title
        /\ ~(last /\ pc[r] = "kind") => github[x].kind = call[r].plan[i].kind
        /\ ~(last /\ pc[r] \in {"kind", "parent"}) => Carries(x, call[r].plan, i)
        /\ last /\ pc[r] = "kind" /\ call[r].plan[i].prev = NoItem =>
                github[x].parent = NoTitle

WrittenSoFar(r) == \A k \in DOMAIN rows[r] : RowWritten(r, k)

CreationsWrite ==
    \A r \in Requests : pc[r] \in CreateSteps =>
        /\ pc[r] \in {"writing", "kind", "parent", "saving"} => ItemsApart(r)
        /\ ~failed[r] => WrittenSoFar(r)
        /\ pc[r] = "saving" /\ ~failed[r] => Pending(r) = {}

OrderInv == LockInv /\ CreationsInOrder

BelongInv == LockInv /\ MadeByCreations /\ RunsFit /\ HistoryBelongs /\ CreationsBelong

TraceInv == BelongInv /\ MakersKnown

FoldInv == BelongInv /\ HandShowsGithub /\ FoldShowsGitHub

WriteInv == BelongInv /\ CreationsInOrder /\ CreationsWrite

-----------------------------------------------------------------------------
(* The steps of a creation *)

RowOf(r, i, x, answered) ==
    [localId |-> i, item |-> x, title |-> call[r].plan[i].title, confirmed |-> answered]

(* What GitHub does with the write of item i: it makes y, renames x, or    *)
(* nothing; x is the id the row is given.                                  *)
MadeOnGithub(r, i, y) ==
    github' = [github EXCEPT ![y] = [Absent EXCEPT !.project = view[r].project,
                                                   !.title = call[r].plan[i].title,
                                                   !.by = <<r, i>>]]

Writes(r, i, x, answered) ==
    \/ /\ call[r].plan[i].prev = NoItem
       /\ \/ UNCHANGED github /\ ~answered /\ x = NoItem
          \/ \E y \in Items : /\ Fresh(y)
                              /\ MadeOnGithub(r, i, y)
                              /\ x = IF answered THEN y ELSE NoItem
    \/ /\ call[r].plan[i].prev # NoItem
       /\ x = call[r].plan[i].prev
       /\ \/ github' = [github EXCEPT ![x].title = call[r].plan[i].title]
          \/ UNCHANGED github /\ ~answered

(* One write: a row is collected and the creation goes on or fails.        *)
LEMMA WriteStep ==
    ASSUME TypeInv, NEW r \in Requests, WriteDraftIssue(r)
    PROVE  /\ pc[r] = "writing"
           /\ call[r].op = "create"
           /\ UNCHANGED <<lock, board, runs, call, cancelled, view, lost, crashes>>
           /\ \E i \in DOMAIN call[r].plan, x \in Items \cup {NoItem}, answered \in BOOLEAN :
                /\ NextItem(r, i)
                /\ Writes(r, i, x, answered)
                /\ answered => x \in Items
                /\ rows' = [rows EXCEPT ![r] = Append(rows[r], RowOf(r, i, x, answered))]
                /\ pc' = [pc EXCEPT ![r] = IF answered THEN "kind" ELSE "saving"]
                /\ failed' = IF answered THEN failed ELSE [failed EXCEPT ![r] = TRUE]
<1>1. pc[r] = "writing" /\ call[r].op = "create"
  BY DEF WriteDraftIssue, TypeInv, StepFitsCall, CreateSteps
<1>2. PICK i \in DOMAIN call[r].plan :
        NextItem(r, i) /\ (CreateDraftIssue(r, i) \/ UpdateDraftIssue(r, i))
  BY DEF WriteDraftIssue
<1> DEFINE Done(x, answered) ==
        /\ rows' = [rows EXCEPT ![r] = Append(rows[r], RowOf(r, i, x, answered))]
        /\ pc' = [pc EXCEPT ![r] = IF answered THEN "kind" ELSE "saving"]
        /\ failed' = IF answered THEN failed ELSE [failed EXCEPT ![r] = TRUE]
<1>3. ASSUME NEW x, Answered(r, i, x) PROVE Done(x, TRUE)
  BY <1>3 DEF Answered, Collect, Goto, RowOf
<1>4. ASSUME NEW x, Unanswered(r, i, x) PROVE Done(x, FALSE)
  BY <1>4 DEF Unanswered, Collect, Fail, Goto, RowOf
<1>5. \E x \in Items \cup {NoItem}, answered \in BOOLEAN :
        Writes(r, i, x, answered) /\ (answered => x \in Items) /\ Done(x, answered)
  <2>1. CASE CreateDraftIssue(r, i)
    <3>1. call[r].plan[i].prev = NoItem
      BY <2>1 DEF CreateDraftIssue
    <3>2. ASSUME NEW y \in Items, Fresh(y), MadeOnGithub(r, i, y),
                 Answered(r, i, y) \/ Unanswered(r, i, NoItem)
          PROVE  \E x \in Items \cup {NoItem}, answered \in BOOLEAN :
                    Writes(r, i, x, answered) /\ (answered => x \in Items) /\ Done(x, answered)
      <4>1. CASE Answered(r, i, y)
        <5>1. Writes(r, i, y, TRUE) /\ Done(y, TRUE)
          BY <1>3, <3>1, <3>2, <4>1 DEF Writes
        <5> QED
          BY <5>1
      <4>2. CASE Unanswered(r, i, NoItem)
        <5>1. Writes(r, i, NoItem, FALSE) /\ Done(NoItem, FALSE)
          BY <1>4, <3>1, <3>2, <4>2 DEF Writes
        <5> QED
          BY <5>1
      <4> QED
        BY <3>2, <4>1, <4>2
    <3>3. ASSUME UNCHANGED github, Unanswered(r, i, NoItem)
          PROVE  \E x \in Items \cup {NoItem}, answered \in BOOLEAN :
                    Writes(r, i, x, answered) /\ (answered => x \in Items) /\ Done(x, answered)
      <4>1. Writes(r, i, NoItem, FALSE) /\ Done(NoItem, FALSE)
        BY <1>4, <3>1, <3>3 DEF Writes
      <4> QED
        BY <4>1
    <3> HIDE DEF Done
    <3> QED
      BY <2>1, <3>2, <3>3 DEF CreateDraftIssue, MadeOnGithub
  <2>2. CASE UpdateDraftIssue(r, i)
    <3> DEFINE x == call[r].plan[i].prev
    <3>1. x \in Items /\ x # NoItem
      BY <1>1, <2>2, PlanItemType DEF UpdateDraftIssue
    <3>2. \/ Answered(r, i, x) /\ github' = [github EXCEPT ![x].title = call[r].plan[i].title]
          \/ Unanswered(r, i, x) /\ \/ github' = [github EXCEPT ![x].title = call[r].plan[i].title]
                                    \/ UNCHANGED github
      BY <2>2 DEF UpdateDraftIssue
    <3>3. \/ Done(x, TRUE) /\ Writes(r, i, x, TRUE)
          \/ Done(x, FALSE) /\ Writes(r, i, x, FALSE)
      BY <1>3, <1>4, <3>1, <3>2 DEF Writes
    <3> HIDE DEF Done, x
    <3> QED
      BY <3>1, <3>3
  <2> HIDE DEF Done
  <2> QED
    BY <1>2, <2>1, <2>2
<1>6. UNCHANGED <<lock, board, runs, call, cancelled, view, lost, crashes>>
  BY DEF WriteDraftIssue
<1> HIDE DEF Done
<1>7. PICK x \in Items \cup {NoItem}, answered \in BOOLEAN :
        Writes(r, i, x, answered) /\ (answered => x \in Items) /\ Done(x, answered)
  BY <1>5
<1>8. NextItem(r, i)
  BY <1>2
<1> QED
  BY <1>1, <1>6, <1>7, <1>8 DEF Done

(* What appending one row leaves in place. *)
LEMMA Collected ==
    ASSUME TypeInv, NEW r \in Requests, NEW row,
           rows' = [rows EXCEPT ![r] = Append(rows[r], row)]
    PROVE  /\ Len(rows[r]) \in Nat
           /\ DOMAIN rows[r] = 1 .. Len(rows[r])
           /\ Len(rows'[r]) = Len(rows[r]) + 1
           /\ DOMAIN rows'[r] = 1 .. (Len(rows[r]) + 1)
           /\ \A k \in DOMAIN rows[r] : rows'[r][k] = rows[r][k]
           /\ rows'[r][Len(rows[r]) + 1] = row
           /\ \A q \in Requests \ {r} : rows'[q] = rows[q]
  BY DEF TypeInv, TypeOK

(* Steps that write neither to GitHub nor to the history, and leave no     *)
(* creation with rows.                                                     *)
Idle(r) ==
    /\ UNCHANGED <<runs, github, call, rows, lost>>
    /\ \A q \in Requests \ {r} : failed'[q] = failed[q]
    /\ exists' => exists
    /\ \E step : Goto(r, step) /\ step \notin CreateSteps
    /\ pc[r] \in CreateSteps => rows[r] = << >>

(* The creation goes on without writing. *)
Advances(r) ==
    /\ UNCHANGED <<runs, github, call, rows, failed, lost>>
    /\ exists' => exists
    /\ \/ /\ Goto(r, "checking")
          /\ pc[r] = "locked"
          /\ call[r].op = "create"
          /\ Validate(call[r].plan)
       \/ Goto(r, "resolving") /\ pc[r] = "checking" /\ PreviousItemsKnown(r)
       \/ Goto(r, "writing") /\ pc[r] = "resolving"
       \/ Goto(r, "saving") /\ pc[r] = "writing" /\ Pending(r) = {}

StopsWriting(r) ==
    /\ UNCHANGED <<runs, github, call, rows, lost, exists>>
    /\ pc[r] = "writing"
    /\ failed' = [failed EXCEPT ![r] = TRUE]
    /\ Goto(r, "saving")

Fields(r) == SetKind(r) \/ SetParent(r)

LEMMA StepHistory ==
    ASSUME TypeInv, NEW r \in Requests, Step(r)
    PROVE  \/ Idle(r)
           \/ Advances(r)
           \/ StopsWriting(r)
           \/ WriteDraftIssue(r)
           \/ Fields(r)
           \/ Delete(r)
           \/ SaveRun(r)
           \/ SaveRunFails(r)
<1> USE DEF Idle, Advances, StopsWriting, Goto, At, board, flight, CreateSteps
<1>0. pc[r] \in {"checking", "resolving"} => rows[r] = << >>
  BY DEF TypeInv, RowsFit
<1>1. CASE Acquire(r) \/ GiveUp(r) \/ Release(r) \/ Refuse(r) \/ Check(r)
  BY <1>1 DEF Acquire, GiveUp, Release, Refuse, Check
<1>2. CASE Abort(r)
  <2>1. /\ UNCHANGED <<runs, github, call, rows, lost, failed, exists>>
        /\ pc' = [pc EXCEPT ![r] = "release"]
        /\ pc[r] \in {"locked", "commit", "checking", "resolving"}
    BY <1>2 DEF Abort
  <2>2. pc[r] \in CreateSteps => rows[r] = << >>
    BY <1>0, <2>1
  <2>3. "release" \notin CreateSteps
    OBVIOUS
  <2>4. Goto(r, "release")
    BY <2>1
  <2> HIDE DEF CreateSteps, Goto
  <2> QED
    BY <2>1, <2>2, <2>3, <2>4
<1>3. CASE SetTarget(r) \/ RefreshTargetDisplay(r)
  BY <1>3 DEF SetTarget, RefreshTargetDisplay
<1>4. CASE SetRole(r) \/ Remove(r) \/ CheckInvite(r) \/ AddMember(r)
  BY <1>4 DEF SetRole, Remove, CheckInvite, AddMember
<1>5. CASE Authorize(r) \/ ResolveFields(r) \/ Finish(r)
  BY <1>5 DEF Authorize, MayCreate, ResolveFields, Finish
<1>6. CASE CheckPreviousItems(r)
  <2>1. /\ UNCHANGED <<runs, github, call, rows, lost, failed, exists>>
        /\ pc[r] = "checking"
        /\ \/ pc' = [pc EXCEPT ![r] = "resolving"] /\ PreviousItemsKnown(r)
           \/ pc' = [pc EXCEPT ![r] = "release"]
    BY <1>6 DEF CheckPreviousItems
  <2>2. CASE pc' = [pc EXCEPT ![r] = "resolving"]
    <3>1. PreviousItemsKnown(r)
      BY <2>1, <2>2 DEF TypeInv, TypeOK
    <3>2. Advances(r)
      BY <2>1, <2>2, <3>1
    <3> QED
      BY <3>2
  <2>3. CASE pc' = [pc EXCEPT ![r] = "release"]
    <3>1. rows[r] = << >> /\ "release" \notin CreateSteps /\ Goto(r, "release")
      BY <1>0, <2>1, <2>3
    <3> HIDE DEF CreateSteps, Goto
    <3>2. Idle(r)
      BY <2>1, <3>1
    <3> QED
      BY <3>2
  <2> QED
    BY <2>1, <2>2, <2>3
<1>7. CASE Stop(r)
  <2>1. CASE rows[r] # << >>
    BY <1>7, <2>1 DEF Stop
  <2>2. CASE rows[r] = << >>
    BY <1>7, <2>2 DEF Stop, TypeInv, TypeOK
  <2> QED
    BY <2>1, <2>2
<1> QED
  BY <1>1, <1>2, <1>3, <1>4, <1>5, <1>6, <1>7 DEF Step, Fields

LEMMA FieldStep ==
    ASSUME TypeInv, NEW r \in Requests, Fields(r)
    PROVE  /\ pc[r] \in {"kind", "parent"}
           /\ UNCHANGED <<runs, call, rows, lost, exists>>
           /\ \E step \in {"writing", "parent", "saving"} : pc' = [pc EXCEPT ![r] = step]
           /\ \A q \in Requests \ {r} : failed'[q] = failed[q] /\ pc'[q] = pc[q]
<1> USE DEF Goto, Fail, board
<1>1. CASE SetKind(r)
  <2>1. pc[r] = "kind" /\ UNCHANGED <<runs, call, rows, lost, exists>>
    BY <1>1 DEF SetKind
  <2>2. ParentStep(r) \in {"writing", "parent"}
    BY DEF ParentStep
  <2>3. \/ UNCHANGED failed /\ pc' = [pc EXCEPT ![r] = ParentStep(r)]
        \/ failed' = [failed EXCEPT ![r] = TRUE] /\ pc' = [pc EXCEPT ![r] = "saving"]
    BY <1>1 DEF SetKind
  <2> QED
    BY <2>1, <2>2, <2>3 DEF TypeInv, TypeOK
<1>2. CASE SetParent(r)
  <2>1. pc[r] = "parent" /\ UNCHANGED <<runs, call, rows, lost, exists>>
    BY <1>2 DEF SetParent
  <2>3. \/ UNCHANGED failed /\ pc' = [pc EXCEPT ![r] = "writing"]
        \/ failed' = [failed EXCEPT ![r] = TRUE] /\ pc' = [pc EXCEPT ![r] = "saving"]
    BY <1>2 DEF SetParent
  <2> QED
    BY <2>1, <2>3 DEF TypeInv, TypeOK
<1> QED
  BY <1>1, <1>2 DEF Fields

(* Everything that is no step of a request: crashes lose what is in hand.  *)
Outside ==
    /\ UNCHANGED <<runs, github, call, rows, failed, exists>>
    /\ lost \subseteq lost'
    /\ \A r \in Requests :
        \/ pc'[r] = pc[r]
        \/ /\ pc'[r] \in {"waiting", "done"}
           /\ pc[r] \in CreateSteps /\ rows[r] # << >> => r \in lost'

LEMMA OutsideSteps ==
    ASSUME TypeInv, [Next]_vars
    PROVE  Outside \/ \E r \in Requests : Step(r)
<1>1. CASE Crash
  BY <1>1 DEF Crash, Outside, board, flight
<1>2. CASE SaveScene \/ (\E r \in Requests : Disconnect(r)) \/ UNCHANGED vars
  BY <1>2 DEF SaveScene, Disconnect, vars, Outside, board, flight
<1> QED
  BY <1>1, <1>2 DEF Next, AllServed

-----------------------------------------------------------------------------
(* Epics first *)

LEMMA PrecedesIsAnOrder ==
    ASSUME TypeInv, NEW r \in Requests, call[r].op = "create",
           NEW i \in DOMAIN call[r].plan, NEW j \in DOMAIN call[r].plan,
           Precedes(call[r].plan, i, j)
    PROVE  ~Precedes(call[r].plan, j, i)
<1>1. i \in Nat /\ j \in Nat
  BY PlanItemType
<1> QED
  BY <1>1 DEF Precedes

LEMMA WriteInOrder ==
    ASSUME TypeInv, CreationsInOrder, NEW r \in Requests, WriteDraftIssue(r)
    PROVE  CreationsInOrder'
<1>1. /\ pc[r] = "writing" /\ call[r].op = "create" /\ call' = call
      /\ InOrder(r)
  BY WriteStep DEF CreationsInOrder, CreateSteps
<1>2. PICK i \in DOMAIN call[r].plan, x \in Items \cup {NoItem}, answered \in BOOLEAN :
        /\ NextItem(r, i)
        /\ rows' = [rows EXCEPT ![r] = Append(rows[r], RowOf(r, i, x, answered))]
        /\ pc' = [pc EXCEPT ![r] = IF answered THEN "kind" ELSE "saving"]
  BY WriteStep
<1> DEFINE row == RowOf(r, i, x, answered)
<1>3. row.localId = i
  BY DEF RowOf
<1>4. /\ DOMAIN rows[r] = 1 .. Len(rows[r]) /\ Len(rows[r]) \in Nat
      /\ DOMAIN rows'[r] = 1 .. (Len(rows[r]) + 1)
      /\ \A k \in DOMAIN rows[r] : rows'[r][k] = rows[r][k]
      /\ rows'[r][Len(rows[r]) + 1] = row
      /\ \A q \in Requests \ {r} : rows'[q] = rows[q]
  BY <1>2, Collected
<1> HIDE DEF row
<1>5. Handled(r)' = Handled(r) \cup {i}
  BY <1>3, <1>4 DEF Handled
<1>6. InOrder(r)'
  <2>1. ASSUME NEW h \in Handled(r) \cup {i}, NEW j \in DOMAIN call[r].plan,
               Precedes(call[r].plan, j, h)
        PROVE  j \in Handled(r) \cup {i}
    <3>1. CASE h \in Handled(r)
      BY <1>1, <2>1, <3>1 DEF InOrder
    <3>2. CASE h = i /\ j \notin Handled(r) \cup {i}
      BY <1>1, <1>2, <2>1, <3>2, PrecedesIsAnOrder DEF NextItem, Pending
    <3> QED
      BY <2>1, <3>1, <3>2
  <2> QED
    BY <1>1, <1>5, <2>1 DEF InOrder, Validate
<1>7. \A q \in Requests \ {r} : pc'[q] = pc[q] /\ (InOrder(q) => InOrder(q)')
  BY <1>1, <1>2, <1>4 DEF InOrder, Handled, TypeInv, TypeOK
<1> QED
  BY <1>6, <1>7 DEF CreationsInOrder

LEMMA StepInOrder ==
    ASSUME TypeInv, CreationsInOrder, [Next]_vars
    PROVE  CreationsInOrder'
<1> USE DEF CreationsInOrder, Goto
<1>0. pc \in [Requests -> {"waiting", "inviting", "done"} \cup InSection]
  BY DEF TypeInv, TypeOK
<1>1. ASSUME UNCHANGED <<call, rows>>, NEW q \in Requests PROVE InOrder(q) => InOrder(q)'
  BY <1>1 DEF InOrder, Handled
<1>2. ASSUME NEW r \in Requests, Step(r) PROVE CreationsInOrder'
  <2>1. CASE Idle(r)
    BY <1>0, <1>1, <2>1 DEF Idle
  <2>2. CASE Advances(r)
    <3>1. ASSUME pc[r] = "locked", Validate(call[r].plan) PROVE InOrder(r)
      <4>1. rows[r] = << >>
        BY <3>1 DEF TypeInv, RowsFit
      <4> QED
        BY <3>1, <4>1 DEF InOrder, Handled
    <3>2. pc'[r] \in CreateSteps => InOrder(r)
      BY <1>0, <2>2, <3>1 DEF Advances, CreateSteps
    <3>3. UNCHANGED <<call, rows>> /\ \A q \in Requests \ {r} : pc'[q] = pc[q]
      BY <1>0, <2>2 DEF Advances
    <3> QED
      BY <1>1, <3>2, <3>3
  <2>3. CASE StopsWriting(r)
    BY <1>0, <1>1, <2>3 DEF StopsWriting, CreateSteps
  <2>4. CASE WriteDraftIssue(r)
    BY <2>4, WriteInOrder
  <2>5. CASE Fields(r)
    <3>1. UNCHANGED <<call, rows>> /\ pc[r] \in CreateSteps /\ \A q \in Requests \ {r} : pc'[q] = pc[q]
      BY <2>5, FieldStep DEF CreateSteps
    <3> QED
      BY <1>1, <3>1
  <2>6. CASE Delete(r) \/ SaveRun(r) \/ SaveRunFails(r)
    <3>1. UNCHANGED <<call, rows>> /\ pc' = [pc EXCEPT ![r] = "release"]
      BY <2>6 DEF Delete, SaveRun, SaveRunFails, flight
    <3> QED
      BY <1>0, <1>1, <3>1 DEF CreateSteps
  <2> QED
    BY <1>2, <2>1, <2>2, <2>3, <2>4, <2>5, <2>6, StepHistory
<1>3. CASE Outside
  BY <1>1, <1>3 DEF Outside, CreateSteps
<1> QED
  BY <1>2, <1>3, OutsideSteps

LEMMA ParentIsThere ==
    ASSUME TypeInv, CreationsInOrder
    PROVE  ParentAlwaysWritten
<1> SUFFICES ASSUME NEW r \in Requests, pc[r] = "parent", CurrentItem(r).parent # 0
             PROVE  ParentWritten(r)
  BY DEF ParentAlwaysWritten, ParentMissing
<1> DEFINE plan == call[r].plan
           i == Current(r).localId
<1>1. /\ call[r].op = "create" /\ i \in DOMAIN plan
      /\ InOrder(r)
  BY CurrentType DEF CreationsInOrder, CreateSteps
<1>2. /\ plan[i].kind = "issue"
      /\ plan[i].parent \in DOMAIN plan
      /\ plan[plan[i].parent].kind = "epic"
  BY <1>1 DEF InOrder, Validate, ParentsFit, CurrentItem
<1>3. i \in Handled(r)
  <2>1. rows[r] # << >> /\ rows[r] \in Seq(Row)
    BY DEF TypeInv, TypeOK, RowsFit
  <2>2. Len(rows[r]) \in DOMAIN rows[r]
    BY <2>1
  <2> QED
    BY <2>2 DEF Handled, Current
<1>4. plan[i].parent \in Handled(r)
  BY <1>1, <1>2, <1>3 DEF InOrder, Precedes
<1> QED
  BY <1>2, <1>4 DEF ParentWritten, CurrentItem

-----------------------------------------------------------------------------
(* Items belong to annotations *)

(* What one write does to the items on GitHub, and what the row says.      *)
LEMMA WriteOnGithub ==
    ASSUME TypeInv, NEW r \in Requests, call[r].op = "create", NEW i \in DOMAIN call[r].plan,
           NEW x \in Items \cup {NoItem}, NEW answered \in BOOLEAN, answered => x \in Items,
           Writes(r, i, x, answered)
    PROVE  LET prev == call[r].plan[i].prev
               title == call[r].plan[i].title
           IN  /\ \A z \in Items : github[z].by # Nobody =>
                    /\ github'[z].by = github[z].by
                    /\ github'[z].kind = github[z].kind
                    /\ github'[z].parent = github[z].parent
                    /\ z # prev => github'[z].title = github[z].title
               /\ \A z \in Items : github[z].by = Nobody =>
                    \/ github'[z].by = Nobody
                    \/ /\ github'[z].by = <<r, i>>
                       /\ prev = NoItem
                       /\ x = IF answered THEN z ELSE NoItem
               /\ prev = NoItem /\ answered =>
                    /\ github[x].by = Nobody
                    /\ github'[x].by = <<r, i>>
                    /\ github'[x].title = title
                    /\ github'[x].parent = NoTitle
               /\ prev = NoItem /\ ~answered => x = NoItem
               /\ prev # NoItem => x = prev /\ x \in Items
               /\ prev # NoItem /\ answered => github'[x].title = title
<1> DEFINE prev == call[r].plan[i].prev
           title == call[r].plan[i].title
<1>1. github \in [Items -> GithubItem] /\ NoItem \notin Items
  BY ConstantsAssumption DEF TypeInv, TypeOK
<1>2. prev \in Items \cup {NoItem}
  BY PlanItemType
<1>3. \A z \in Items : github[z] \in GithubItem
  BY <1>1
<1>4. CASE prev = NoItem
  <2>1. CASE UNCHANGED github /\ ~answered /\ x = NoItem
    BY <1>4, <2>1
  <2>2. ASSUME NEW y \in Items, Fresh(y), MadeOnGithub(r, i, y), x = IF answered THEN y ELSE NoItem
        PROVE  /\ \A z \in Items \ {y} : github'[z] = github[z]
               /\ github[y].by = Nobody
               /\ github'[y].by = <<r, i>>
               /\ github'[y].title = title
               /\ github'[y].parent = NoTitle
    <3>1. /\ \A z \in Items \ {y} : github'[z] = github[z]
          /\ github'[y] = [Absent EXCEPT !.project = view[r].project, !.title = title,
                                         !.by = <<r, i>>]
      BY <1>1, <2>2 DEF MadeOnGithub
    <3>2. github[y] = Absent /\ Absent.by = Nobody /\ Absent.parent = NoTitle
      BY <2>2 DEF Fresh, Absent
    <3>3. /\ github'[y].by = <<r, i>>
          /\ github'[y].title = title
          /\ github'[y].parent = Absent.parent
      BY <3>1 DEF Absent
    <3> QED
      BY <3>1, <3>2, <3>3
  <2>3. CASE \E y \in Items : /\ Fresh(y)
                              /\ MadeOnGithub(r, i, y)
                              /\ x = IF answered THEN y ELSE NoItem
    <3>1. PICK y \in Items : /\ Fresh(y)
                             /\ MadeOnGithub(r, i, y)
                             /\ x = IF answered THEN y ELSE NoItem
      BY <2>3
    <3> HIDE DEF prev, title
    <3>2. /\ \A z \in Items \ {y} : github'[z] = github[z]
          /\ github[y].by = Nobody
          /\ github'[y].by = <<r, i>>
          /\ github'[y].title = title
          /\ github'[y].parent = NoTitle
      BY <2>2, <3>1
    <3> QED
      BY <1>4, <3>1, <3>2 DEF prev, title
  <2> QED
    BY <1>4, <2>1, <2>3 DEF Writes
<1>5. CASE prev # NoItem
  <2>1. x = prev /\ x \in Items
    BY <1>2, <1>5 DEF Writes
  <2>2. CASE UNCHANGED github /\ ~answered
    BY <1>5, <2>1, <2>2
  <2>3. CASE github' = [github EXCEPT ![x].title = title]
    <3>1. /\ github'[x] = [github[x] EXCEPT !.title = title]
          /\ \A z \in Items \ {x} : github'[z] = github[z]
      BY <1>1, <2>1, <2>3
    <3>2. /\ github'[x].by = github[x].by
          /\ github'[x].kind = github[x].kind
          /\ github'[x].parent = github[x].parent
          /\ github'[x].title = title
      <4>1. github[x] \in GithubItem
        BY <1>3, <2>1
      <4> QED
        BY <3>1, <4>1 DEF GithubItem
    <3> QED
      BY <1>5, <2>1, <3>1, <3>2
  <2> QED
    BY <1>5, <2>1, <2>2, <2>3 DEF Writes
<1> QED
  BY <1>4, <1>5

LEMMA AnsweredTitle ==
    ASSUME TypeInv, NEW r \in Requests, call[r].op = "create", NEW i \in DOMAIN call[r].plan,
           NEW x \in Items, Writes(r, i, x, TRUE)
    PROVE  github'[x].title = call[r].plan[i].title
<1>1. CASE call[r].plan[i].prev = NoItem
  <2>1. Fresh(x) /\ MadeOnGithub(r, i, x)
    BY <1>1 DEF Writes
  <2>2. github \in [Items -> GithubItem]
    BY DEF TypeInv, TypeOK
  <2>3. github'[x] = [Absent EXCEPT !.project = view[r].project,
                                    !.title = call[r].plan[i].title, !.by = <<r, i>>]
    BY <2>1, <2>2 DEF MadeOnGithub
  <2> QED
    BY <2>3 DEF Absent
<1>2. CASE call[r].plan[i].prev # NoItem
  BY <1>2, WriteOnGithub, ZenonT(40)
<1> QED
  BY <1>1, <1>2

(* Setting the fields of the current item touches neither its title nor    *)
(* its maker, nor any other item.                                          *)
LEMMA FieldOnGithub ==
    ASSUME TypeInv, NEW r \in Requests, Fields(r)
    PROVE  /\ \A z \in Items : /\ github'[z].by = github[z].by
                               /\ github'[z].title = github[z].title
           /\ \A z \in Items : z # Current(r).item => github'[z] = github[z]
<1>1. github \in [Items -> GithubItem]
  BY DEF TypeInv, TypeOK
<1>2. \A z \in Items : github[z] \in GithubItem
  BY <1>1
<1>3. CASE SetKind(r)
  <2>1. github' \in {github, [github EXCEPT ![Current(r).item].kind = CurrentItem(r).kind]}
    BY <1>3 DEF SetKind
  <2> QED
    BY <1>1, <1>2, <2>1 DEF GithubItem
<1>4. CASE SetParent(r)
  <2>1. github' \in {github, [github EXCEPT ![Current(r).item].parent = ParentText(r)]}
    BY <1>4 DEF SetParent
  <2> QED
    BY <1>1, <1>2, <2>1 DEF GithubItem
<1> QED
  BY <1>3, <1>4 DEF Fields

(* Whoever made an item stays its maker. *)
LEMMA MakersStay ==
    ASSUME TypeInv, NEW r \in Requests, Step(r)
    PROVE  \A x \in Items : github[x].by # Nobody => github'[x].by = github[x].by
<1>1. CASE WriteDraftIssue(r)
  <2>1. PICK i \in DOMAIN call[r].plan, x \in Items \cup {NoItem}, answered \in BOOLEAN :
            /\ answered => x \in Items
            /\ Writes(r, i, x, answered)
    BY <1>1, WriteStep
  <2>2. call[r].op = "create"
    BY <1>1, WriteStep
  <2> QED
    BY <2>1, <2>2, WriteOnGithub
<1>2. CASE Fields(r)
  BY <1>2, FieldOnGithub
<1>3. WriteDraftIssue(r) \/ Fields(r) \/ UNCHANGED github
  BY StepHistory DEF Idle, Advances, StopsWriting, Delete, SaveRun, SaveRunFails
<1> QED
  BY <1>1, <1>2, <1>3

LEMMA CallsStay ==
    ASSUME TypeInv, NEW r \in Requests, Step(r)
    PROVE  call' = call
<1>1. WriteDraftIssue(r) => call' = call
  BY WriteStep
<1>2. Fields(r) => call' = call
  BY FieldStep
<1> QED
  BY <1>1, <1>2, StepHistory DEF Idle, Advances, StopsWriting, Delete, SaveRun, SaveRunFails

LEMMA StillBelongs ==
    ASSUME TypeInv, NEW r \in Requests, Step(r), NEW x, NEW a, Belongs(x, a)
    PROVE  Belongs(x, a)'
  BY MakersStay, CallsStay DEF Belongs

(* RowsBelong of given rows, after the step. *)
RowsStillBelong(rs, a) ==
    \A k \in DOMAIN rs :
        /\ rs[k].confirmed => rs[k].item # NoItem
        /\ rs[k].item # NoItem =>
            /\ rs[k].item \in Items
            /\ github'[rs[k].item].by # Nobody
            /\ call'[github'[rs[k].item].by[1]].annotation = a

LEMMA RowsKeepBelonging ==
    ASSUME TypeInv, NEW r \in Requests, Step(r), NEW rs, NEW a, RowsBelong(rs, a)
    PROVE  RowsStillBelong(rs, a)
  BY StillBelongs DEF RowsBelong, RowsStillBelong, Belongs

LEMMA RequestIsSomebody ==
    ASSUME NEW r \in Requests, NEW i PROVE <<r, i>> # Nobody
  BY ConstantsAssumption DEF Nobody

(* Of every step, how the makers change: at most by a new item of r.       *)
LEMMA NewMakers ==
    ASSUME TypeInv, NEW r \in Requests, Step(r)
    PROVE  \A z \in Items : github[z].by = Nobody /\ github'[z].by # Nobody =>
                /\ WriteDraftIssue(r)
                /\ github'[z].by[1] = r
                /\ call[r].op = "create"
<1>1. CASE WriteDraftIssue(r)
  <2>1. PICK i \in DOMAIN call[r].plan, x \in Items \cup {NoItem}, answered \in BOOLEAN :
            /\ answered => x \in Items
            /\ Writes(r, i, x, answered)
    BY <1>1, WriteStep
  <2>2. call[r].op = "create"
    BY <1>1, WriteStep
  <2>3. \A z \in Items : github[z].by = Nobody =>
            github'[z].by = Nobody \/ github'[z].by = <<r, i>>
    BY <2>1, <2>2, WriteOnGithub
  <2> QED
    BY <1>1, <2>2, <2>3
<1>2. CASE Fields(r)
  BY <1>2, FieldOnGithub
<1>3. WriteDraftIssue(r) \/ Fields(r) \/ UNCHANGED github
  BY StepHistory DEF Idle, Advances, StopsWriting, Delete, SaveRun, SaveRunFails
<1> QED
  BY <1>1, <1>2, <1>3

(* How the history of a board changes: it is kept, it gets the run of a    *)
(* creation, or it is deleted with the board.                              *)
LEMMA HistoryGrows ==
    ASSUME TypeInv, NEW r \in Requests, Step(r)
    PROVE  \/ UNCHANGED runs
           \/ runs' = << >> /\ ~exists' /\ Delete(r)
           \/ /\ SaveRun(r)
              /\ Len(runs) \in Nat
              /\ DOMAIN runs = 1 .. Len(runs)
              /\ DOMAIN runs' = 1 .. (Len(runs) + 1)
              /\ Len(runs') = Len(runs) + 1
              /\ \A n \in DOMAIN runs : runs'[n] = runs[n]
              /\ runs'[Len(runs) + 1].req = r
              /\ runs'[Len(runs) + 1].annotation = call[r].annotation
              /\ runs'[Len(runs) + 1].hash = call[r].hash
              /\ runs'[Len(runs) + 1].complete = ~failed[r]
              /\ runs'[Len(runs) + 1].rows = rows[r]
<1>1. CASE SaveRun(r)
  <2>1. view[r].hash = call[r].hash
    BY <1>1 DEF SaveRun, TypeInv, ViewFits, CreateSteps
  <2>2. runs \in Seq(Run)
    BY DEF TypeInv, TypeOK
  <2> DEFINE run == [req |-> r, annotation |-> call[r].annotation,
                     hash |-> RecordedHash(r), complete |-> ~failed[r], rows |-> rows[r]]
  <2>3. /\ run.req = r
        /\ run.annotation = call[r].annotation
        /\ run.hash = call[r].hash
        /\ run.complete = ~failed[r]
        /\ run.rows = rows[r]
    BY <2>1 DEF RecordedHash
  <2>4. runs' = Append(runs, run)
    BY <1>1 DEF SaveRun
  <2> HIDE DEF run
  <2>5. /\ Len(runs) \in Nat
        /\ DOMAIN runs = 1 .. Len(runs)
        /\ DOMAIN runs' = 1 .. (Len(runs) + 1)
        /\ Len(runs') = Len(runs) + 1
        /\ \A n \in DOMAIN runs : runs'[n] = runs[n]
        /\ runs'[Len(runs) + 1] = run
    BY <2>2, <2>4
  <2> QED
    BY <1>1, <2>3, <2>5
<1>2. CASE Delete(r)
  BY <1>2 DEF Delete
<1>3. CASE WriteDraftIssue(r)
  BY <1>3, WriteStep
<1>4. CASE Fields(r)
  BY <1>4, FieldStep
<1> QED
  BY <1>1, <1>2, <1>3, <1>4, StepHistory DEF Idle, Advances, StopsWriting, SaveRunFails

LEMMA StepBelong ==
    ASSUME BelongInv, NEW r \in Requests, Step(r)
    PROVE  BelongInv'
<1>1. LockInv' /\ TypeInv /\ pc \in [Requests -> {"waiting", "inviting", "done"} \cup InSection]
  BY StepLockInv DEF BelongInv, LockInv, TypeInv, TypeOK
<1>2. call' = call
  BY <1>1, CallsStay
<1>3. MadeByCreations'
  BY <1>1, <1>2, MakersStay, NewMakers DEF BelongInv, MadeByCreations
<1>4. RunsFit'
  <2>1. CASE UNCHANGED runs
    BY <1>2, <2>1 DEF BelongInv, RunsFit
  <2>2. CASE runs' = << >>
    BY <2>2 DEF RunsFit
  <2>3. CASE SaveRun(r)
    <3>1. call[r].op = "create"
      BY <1>1, <2>3 DEF SaveRun, TypeInv, StepFitsCall, CreateSteps
    <3>2. CASE UNCHANGED runs
      BY <1>2, <3>2 DEF BelongInv, RunsFit
    <3>3. CASE runs' = << >>
      BY <3>3 DEF RunsFit
    <3> QED
      BY <1>1, <1>2, <3>1, <3>2, <3>3, HistoryGrows DEF BelongInv, RunsFit
  <2> QED
    BY <1>1, <2>1, <2>2, <2>3, HistoryGrows
<1>5. HistoryBelongs'
  <2>1. \A n \in DOMAIN runs : RowsBelong(runs[n].rows, runs[n].annotation)
    BY DEF BelongInv, HistoryBelongs
  <2>2. CASE UNCHANGED runs
    <3>1. \A n \in DOMAIN runs : RowsStillBelong(runs[n].rows, runs[n].annotation)
      BY <1>1, <2>1, RowsKeepBelonging
    <3> QED
      BY <2>2, <3>1 DEF HistoryBelongs, RowsBelong, RowsStillBelong, Belongs
  <2>3. CASE runs' = << >>
    BY <2>3 DEF HistoryBelongs
  <2>4. CASE SaveRun(r) /\ ~UNCHANGED runs /\ runs' # << >>
    <3>1. RowsBelong(rows[r], call[r].annotation)
      BY <2>4 DEF BelongInv, CreationsBelong, SaveRun, CreateSteps
    <3>2. \A n \in DOMAIN runs' :
            \/ n \in DOMAIN runs /\ runs'[n] = runs[n]
            \/ runs'[n].rows = rows[r] /\ runs'[n].annotation = call[r].annotation
      BY <1>1, <2>4, HistoryGrows
    <3>3. \A n \in DOMAIN runs' : RowsBelong(runs'[n].rows, runs'[n].annotation)
      BY <2>1, <3>1, <3>2
    <3>4. \A n \in DOMAIN runs' : RowsStillBelong(runs'[n].rows, runs'[n].annotation)
      BY <1>1, <3>3, RowsKeepBelonging
    <3> QED
      BY <3>4 DEF HistoryBelongs, RowsBelong, RowsStillBelong, Belongs
  <2> QED
    BY <1>1, <2>2, <2>3, <2>4, HistoryGrows
<1>6. ASSUME NEW q \in Requests, rows'[q] = rows[q],
             pc[q] \in CreateSteps, pc'[q] \in CreateSteps, pc'[q] # "checking" => pc[q] # "checking"
      PROVE  /\ RowsBelong(rows[q], call[q].annotation)'
             /\ pc'[q] # "checking" => PreviousBelong(q)'
  <2>1. RowsBelong(rows[q], call[q].annotation)
    BY <1>6 DEF BelongInv, CreationsBelong
  <2>2. RowsBelong(rows[q], call[q].annotation)'
    <3>1. RowsStillBelong(rows[q], call[q].annotation)
      BY <1>1, <2>1, RowsKeepBelonging
    <3> QED
      BY <1>2, <1>6, <3>1 DEF RowsBelong, RowsStillBelong, Belongs
  <2>3. pc'[q] # "checking" => PreviousBelong(q)
    BY <1>6 DEF BelongInv, CreationsBelong
  <2> QED
    BY <1>1, <1>2, <2>2, <2>3, StillBelongs DEF PreviousBelong
<1>7. CreationsBelong'
  <2>1. CASE WriteDraftIssue(r)
    <3>1. PICK i \in DOMAIN call[r].plan, x \in Items \cup {NoItem}, answered \in BOOLEAN :
            /\ Writes(r, i, x, answered)
            /\ answered => x \in Items
            /\ rows' = [rows EXCEPT ![r] = Append(rows[r], RowOf(r, i, x, answered))]
            /\ pc' = [pc EXCEPT ![r] = IF answered THEN "kind" ELSE "saving"]
      BY <1>1, <2>1, WriteStep
    <3>2. pc[r] = "writing" /\ call[r].op = "create"
      BY <1>1, <2>1, WriteStep
    <3>3. RowsBelong(rows[r], call[r].annotation) /\ PreviousBelong(r)
      BY <3>2 DEF BelongInv, CreationsBelong, CreateSteps
    <3>4. PreviousBelong(r)'
      BY <1>1, <1>2, <3>3, StillBelongs DEF PreviousBelong
    <3>5. x # NoItem => Belongs(x, call[r].annotation)'
      <4>1. CASE call[r].plan[i].prev = NoItem /\ x # NoItem
        <5>1. github'[x].by = <<r, i>> /\ x \in Items
          BY <1>1, <3>1, <3>2, <4>1, WriteOnGithub
        <5> QED
          BY <1>2, <5>1, RequestIsSomebody DEF Belongs
      <4>2. CASE call[r].plan[i].prev # NoItem
        <5>1. x = call[r].plan[i].prev
          BY <1>1, <3>1, <3>2, <4>2, WriteOnGithub
        <5> QED
          BY <1>2, <3>4, <4>2, <5>1 DEF PreviousBelong
      <4> QED
        BY <4>1, <4>2
    <3>6. /\ answered => x # NoItem
          /\ RowOf(r, i, x, answered).confirmed = answered
          /\ RowOf(r, i, x, answered).item = x
      BY <3>1, ConstantsAssumption DEF RowOf
    <3> DEFINE row == RowOf(r, i, x, answered)
    <3>7. /\ \A k \in DOMAIN rows'[r] : \/ k \in DOMAIN rows[r] /\ rows'[r][k] = rows[r][k]
                                        \/ rows'[r][k] = row
          /\ \A q \in Requests \ {r} : rows'[q] = rows[q]
      <4> HIDE DEF row
      <4>1. rows' = [rows EXCEPT ![r] = Append(rows[r], row)]
        BY <3>1 DEF row
      <4> QED
        BY <1>1, <4>1, Collected
    <3> HIDE DEF row
    <3>8. RowsBelong(rows[r], call[r].annotation)'
      <4>1. RowsStillBelong(rows[r], call[r].annotation)
        BY <1>1, <3>3, RowsKeepBelonging
      <4>2. /\ row.confirmed => row.item # NoItem
            /\ row.item # NoItem =>
                /\ row.item \in Items
                /\ github'[row.item].by # Nobody
                /\ call'[github'[row.item].by[1]].annotation = call'[r].annotation
        BY <3>5, <3>6 DEF row, Belongs
      <4> QED
        BY <1>2, <3>7, <4>1, <4>2 DEF RowsBelong, RowsStillBelong, Belongs
    <3>9. \A q \in Requests \ {r} : pc'[q] = pc[q]
      BY <1>1, <3>1
    <3> QED
      BY <1>6, <3>4, <3>7, <3>8, <3>9 DEF CreationsBelong
  <2>2. CASE Advances(r)
    <3>1. /\ UNCHANGED <<rows, runs, github>>
          /\ \A q \in Requests \ {r} : pc'[q] = pc[q]
          /\ \/ pc'[r] = "checking" /\ pc[r] = "locked"
             \/ pc'[r] = "resolving" /\ pc[r] = "checking" /\ PreviousItemsKnown(r)
             \/ pc[r] \in CreateSteps \ {"checking"}
      BY <1>1, <2>2 DEF Advances, Goto, CreateSteps
    <3>2. CASE pc'[r] = "checking" /\ pc[r] = "locked"
      <4>1. rows[r] = << >>
        BY <1>1, <3>2 DEF TypeInv, RowsFit
      <4>2. RowsBelong(rows[r], call[r].annotation)'
        BY <3>1, <4>1 DEF RowsBelong
      <4> QED
        BY <1>6, <3>1, <3>2, <4>2 DEF CreationsBelong
    <3>3. CASE pc'[r] = "resolving" /\ pc[r] = "checking" /\ PreviousItemsKnown(r)
      <4>1. RowsBelong(rows[r], call[r].annotation)'
        BY <1>2, <3>1, <3>3 DEF BelongInv, CreationsBelong, CreateSteps, RowsBelong, Belongs
      <4>2. PreviousBelong(r)
        <5>1. ASSUME NEW i \in DOMAIN call[r].plan, call[r].plan[i].prev # NoItem
              PROVE  Belongs(call[r].plan[i].prev, call[r].annotation)
          <6>1. PICK p \in FoldedRows(runs) :
                    AnnotationAt(runs, p) = call[r].annotation /\ RowAt(runs, p).item = call[r].plan[i].prev
            BY <3>3, <5>1 DEF PreviousItemsKnown, ListItemsByAnnotation
          <6>2. p[1] \in DOMAIN runs /\ p[2] \in DOMAIN runs[p[1]].rows
            BY <6>1 DEF FoldedRows, ConfirmedRows, RowIds
          <6> QED
            BY <5>1, <6>1, <6>2 DEF BelongInv, HistoryBelongs, RowsBelong, RowAt, AnnotationAt
        <5> QED
          BY <5>1 DEF PreviousBelong
      <4>3. PreviousBelong(r)'
        BY <1>2, <3>1, <4>2 DEF PreviousBelong, Belongs
      <4> QED
        BY <1>6, <3>1, <3>3, <4>1, <4>3 DEF CreationsBelong
    <3>4. CASE pc[r] \in CreateSteps \ {"checking"}
      BY <1>6, <3>1, <3>4 DEF CreationsBelong
    <3> QED
      BY <3>1, <3>2, <3>3, <3>4
  <2>3. CASE ~WriteDraftIssue(r) /\ ~Advances(r)
    <3>1. /\ UNCHANGED rows
          /\ \A q \in Requests \ {r} : pc'[q] = pc[q]
          /\ pc'[r] \in CreateSteps => pc[r] \in CreateSteps \ {"checking"}
      <4>1. CASE Fields(r)
        BY <1>1, <4>1, FieldStep DEF CreateSteps
      <4>2. CASE StopsWriting(r)
        BY <1>1, <4>2 DEF StopsWriting, Goto, CreateSteps
      <4>3. CASE Idle(r)
        BY <1>1, <4>3 DEF Idle, Goto
      <4>4. CASE Delete(r) \/ SaveRun(r) \/ SaveRunFails(r)
        BY <1>1, <4>4 DEF Delete, SaveRun, SaveRunFails, Goto, flight, CreateSteps
      <4> QED
        BY <1>1, <2>3, <4>1, <4>2, <4>3, <4>4, StepHistory
    <3> QED
      BY <1>6, <3>1 DEF CreationsBelong
  <2> QED
    BY <2>1, <2>2, <2>3
<1> QED
  BY <1>1, <1>3, <1>4, <1>5, <1>7 DEF BelongInv

LEMMA NextBelong ==
    ASSUME BelongInv, [Next]_vars
    PROVE  BelongInv'
<1>1. LockInv' /\ TypeInv
  BY NextLockInv DEF BelongInv, LockInv
<1>2. CASE Outside
  <2>1. MadeByCreations' /\ RunsFit' /\ HistoryBelongs'
    BY <1>2, SMTT(30) DEF BelongInv, MadeByCreations, RunsFit, HistoryBelongs, RowsBelong, Belongs, Outside
  <2>2. ASSUME NEW r \in Requests, pc'[r] \in CreateSteps
        PROVE  /\ RowsBelong(rows[r], call[r].annotation)'
               /\ pc'[r] # "checking" => PreviousBelong(r)'
    <3>1. pc'[r] = pc[r]
      BY <1>2, <2>2 DEF Outside, CreateSteps
    <3>2. /\ RowsBelong(rows[r], call[r].annotation)
          /\ pc[r] # "checking" => PreviousBelong(r)
      BY <2>2, <3>1 DEF BelongInv, CreationsBelong
    <3>3. UNCHANGED <<github, call, rows>>
      BY <1>2 DEF Outside
    <3> QED
      BY <3>1, <3>2, <3>3 DEF RowsBelong, PreviousBelong, Belongs
  <2>3. CreationsBelong'
    BY <2>2 DEF CreationsBelong
  <2> QED
    BY <1>1, <2>1, <2>3 DEF BelongInv
<1> QED
  BY <1>1, <1>2, StepBelong, OutsideSteps

-----------------------------------------------------------------------------
(* Nothing on GitHub is without a trace *)

(* The history folds to one row of every group that has a confirmed one.   *)
LEMMA GroupIsFolded ==
    ASSUME NEW h \in Seq(Run), NEW p \in ConfirmedRows(h)
    PROVE  \E q \in FoldedRows(h) : SameGroup(h, p, q)
<1> DEFINE Group(n, k) == <<n, k>> \in ConfirmedRows(h) /\ SameGroup(h, p, <<n, k>>)
           N == {n \in DOMAIN h : \E k \in DOMAIN h[n].rows : Group(n, k)}
<1>1. /\ p = <<p[1], p[2]>> /\ p[1] \in DOMAIN h /\ p[2] \in DOMAIN h[p[1]].rows
      /\ Group(p[1], p[2])
  BY DEF ConfirmedRows, RowIds, SameGroup
<1>2. N # {} /\ N \subseteq 1 .. Len(h) /\ Len(h) \in Nat
  BY <1>1
<1>3. PICK n \in N : \A m \in N : m <= n
  BY <1>2, GreatestNatural
<1> DEFINE K == {k \in DOMAIN h[n].rows : Group(n, k)}
<1>0. \A m \in DOMAIN h : h[m].rows \in Seq(Row)
  <2>1. \A m \in DOMAIN h : h[m] \in Run
    OBVIOUS
  <2> QED
    BY <2>1 DEF Run
<1>4. h[n].rows \in Seq(Row)
  BY <1>0
<1>5. K # {} /\ K \subseteq 1 .. Len(h[n].rows) /\ Len(h[n].rows) \in Nat
  <2>1. n \in N
    OBVIOUS
  <2>2. K # {}
    BY <2>1
  <2>3. DOMAIN h[n].rows = 1 .. Len(h[n].rows) /\ Len(h[n].rows) \in Nat
    BY <1>4
  <2>4. K \subseteq DOMAIN h[n].rows
    OBVIOUS
  <2> HIDE DEF K
  <2> QED
    BY <2>2, <2>3, <2>4
<1>6. PICK k \in K : \A j \in K : j <= k
  BY <1>5, GreatestNatural
<1> DEFINE q == <<n, k>>
<1>7. q \in ConfirmedRows(h) /\ SameGroup(h, p, q)
  BY <1>6
<1>8. ASSUME NEW s \in ConfirmedRows(h), SameGroup(h, q, s) PROVE ~Later(q, s)
  <2>1. s = <<s[1], s[2]>> /\ s[1] \in DOMAIN h /\ s[2] \in DOMAIN h[s[1]].rows
    BY DEF ConfirmedRows, RowIds
  <2>2. SameGroup(h, p, s)
    BY <1>7, <1>8 DEF SameGroup
  <2>3. Group(s[1], s[2])
    BY <1>8, <2>1, <2>2
  <2>4. s[1] \in N
    BY <2>1, <2>3
  <2>5. s[1] <= n /\ (s[1] = n => s[2] <= k)
    BY <1>3, <1>6, <2>1, <2>3, <2>4
  <2>6. n \in Nat /\ k \in Nat /\ s[1] \in Nat /\ s[2] \in Nat
    <3>1. h[s[1]].rows \in Seq(Row)
      BY <1>0, <2>1
    <3> QED
      BY <1>2, <1>5, <2>1, <3>1
  <2> QED
    BY <2>5, <2>6 DEF Later
<1> QED
  BY <1>7, <1>8 DEF FoldedRows

LEMMA ConfirmedIsListed ==
    ASSUME NEW h \in Seq(Run), NEW n \in DOMAIN h, NEW k \in DOMAIN h[n].rows,
           h[n].rows[k].confirmed
    PROVE  /\ h[n].rows[k].item \in ListItemsByAnnotation(h, h[n].annotation)
           /\ \E q \in FoldedRows(h) : AnnotationAt(h, q) = h[n].annotation
<1>1. <<n, k>> \in ConfirmedRows(h)
  BY DEF ConfirmedRows, RowIds, RowAt
<1>2. PICK q \in FoldedRows(h) : SameGroup(h, <<n, k>>, q)
  BY <1>1, GroupIsFolded
<1> QED
  BY <1>2 DEF SameGroup, ListItemsByAnnotation, RowAt, AnnotationAt

LEMMA TraceFound ==
    ASSUME TraceInv
    PROVE  EveryItemTraced
<1> SUFFICES ASSUME exists, NEW x \in Items, github[x].by # Nobody
             PROVE  Traced(x)
  BY DEF EveryItemTraced
<1> DEFINE r == github[x].by[1]
<1>1. r \in Requests /\ call[r].op = "create" /\ MakerKnown(x)
  BY DEF TraceInv, BelongInv, MadeByCreations, MakersKnown
<1>2. runs \in Seq(Run)
  BY DEF TraceInv, BelongInv, LockInv, TypeInv, TypeOK
<1>3. CASE pc[r] \in CreateSteps /\ HoldsMaker(rows[r], x)
  BY <1>3 DEF Traced, Handled, HoldsMaker
<1>4. CASE \E n \in DOMAIN runs : runs[n].req = r /\ HoldsMaker(runs[n].rows, x)
  <2>1. PICK n \in DOMAIN runs : runs[n].req = r /\ HoldsMaker(runs[n].rows, x)
    BY <1>4
  <2>2. PICK k \in DOMAIN runs[n].rows :
            /\ runs[n].rows[k].localId = github[x].by[2]
            /\ runs[n].rows[k].item = IF runs[n].rows[k].confirmed THEN x ELSE NoItem
    BY <2>1 DEF HoldsMaker
  <2>3. runs[n].annotation = call[r].annotation
    BY <2>1 DEF TraceInv, BelongInv, RunsFit
  <2>4. CASE runs[n].rows[k].confirmed
    BY <1>2, <2>2, <2>3, <2>4, ConfirmedIsListed DEF Traced, Listed, DetachedAnnotations
  <2>5. CASE ~runs[n].rows[k].confirmed
    <3>1. <<n, k>> \in ListUnconfirmed(runs)
      BY <2>2, <2>5 DEF ListUnconfirmed, RowIds, RowAt
    <3>2. Listed(call[r].annotation)
      BY <2>3, <3>1 DEF Listed, DetachedAnnotations, AnnotationAt
    <3> QED
      BY <2>1, <2>2, <3>1, <3>2 DEF Traced, RowAt
  <2> QED
    BY <2>4, <2>5
<1> QED
  BY <1>1, <1>3, <1>4 DEF MakerKnown, Traced

(* A creation that has rows keeps them in hand until they are saved or     *)
(* known to be lost.                                                       *)
LEMMA RowsStayKnown ==
    ASSUME TypeInv, NEW r \in Requests, Step(r), NEW s \in Requests,
           pc[s] \in CreateSteps, rows[s] # << >>
    PROVE  /\ s \in lost' \/ pc'[s] \in CreateSteps \/ (s = r /\ SaveRun(r))
           /\ rows'[s] # << >>
           /\ DOMAIN rows[s] \subseteq DOMAIN rows'[s]
           /\ \A k \in DOMAIN rows[s] : rows'[s][k] = rows[s][k]
<1>0. pc \in [Requests -> {"waiting", "inviting", "done"} \cup InSection]
  BY DEF TypeInv, TypeOK
<1> USE DEF Goto
<1>1. CASE WriteDraftIssue(r)
  <2>1. PICK i, x, answered :
            /\ rows' = [rows EXCEPT ![r] = Append(rows[r], RowOf(r, i, x, answered))]
            /\ pc' = [pc EXCEPT ![r] = IF answered THEN "kind" ELSE "saving"]
    BY <1>1, WriteStep
  <2> DEFINE row == RowOf(r, i, x, answered)
  <2> HIDE DEF row
  <2>2. /\ rows' = [rows EXCEPT ![r] = Append(rows[r], row)]
        /\ pc'[s] \in CreateSteps
    BY <1>0, <2>1 DEF row, CreateSteps
  <2> QED
    BY <2>2, Collected
<1>2. CASE Fields(r)
  BY <1>0, <1>2, FieldStep DEF CreateSteps
<1>3. CASE Idle(r)
  BY <1>0, <1>3 DEF Idle
<1>4. CASE Advances(r) \/ StopsWriting(r)
  BY <1>0, <1>4 DEF Advances, StopsWriting, CreateSteps
<1>5. CASE Delete(r)
  BY <1>0, <1>5 DEF Delete, At, flight, CreateSteps
<1>6. CASE SaveRun(r) \/ SaveRunFails(r)
  BY <1>0, <1>6 DEF SaveRun, SaveRunFails, flight
<1> QED
  BY <1>1, <1>2, <1>3, <1>4, <1>5, <1>6, StepHistory

LEMMA LostStayLost ==
    ASSUME TypeInv, NEW r \in Requests, Step(r)
    PROVE  lost \subseteq lost' /\ (exists' => exists)
<1>1. CASE WriteDraftIssue(r)
  BY <1>1, WriteStep DEF board
<1>2. CASE Fields(r)
  BY <1>2, FieldStep
<1> QED
  BY <1>1, <1>2, StepHistory
  DEF Idle, Advances, StopsWriting, Delete, SaveRun, SaveRunFails, board

LEMMA StepTrace ==
    ASSUME TraceInv, NEW r \in Requests, Step(r)
    PROVE  MakersKnown'
<1>1. BelongInv /\ TypeInv
  BY DEF TraceInv, BelongInv, LockInv
<1> SUFFICES ASSUME exists', NEW x \in Items, github'[x].by # Nobody
             PROVE  MakerKnown(x)'
  BY DEF MakersKnown
<1>2. CASE github[x].by = Nobody
  <2>1. /\ WriteDraftIssue(r) /\ github'[x].by[1] = r
    BY <1>1, <1>2, NewMakers
  <2>2. PICK i \in DOMAIN call[r].plan, y \in Items \cup {NoItem}, answered \in BOOLEAN :
            /\ Writes(r, i, y, answered)
            /\ answered => y \in Items
            /\ rows' = [rows EXCEPT ![r] = Append(rows[r], RowOf(r, i, y, answered))]
            /\ pc' = [pc EXCEPT ![r] = IF answered THEN "kind" ELSE "saving"]
    BY <1>1, <2>1, WriteStep
  <2>3. github'[x].by = <<r, i>> /\ y = IF answered THEN x ELSE NoItem
    <3>1. call[r].op = "create"
      BY <1>1, <2>1, WriteStep
    <3>2. github'[x].by # Nobody
      OBVIOUS
    <3>3. \A z \in Items : github[z].by = Nobody =>
            \/ github'[z].by = Nobody
            \/ github'[z].by = <<r, i>> /\ y = IF answered THEN z ELSE NoItem
      BY <1>1, <2>2, <3>1, WriteOnGithub, SMTT(30)
    <3> QED
      BY <1>2, <3>2, <3>3
  <2> DEFINE row == RowOf(r, i, y, answered)
  <2>4. /\ row.localId = i
        /\ row.item = IF row.confirmed THEN x ELSE NoItem
    BY <2>3 DEF RowOf
  <2> HIDE DEF row
  <2>5. rows' = [rows EXCEPT ![r] = Append(rows[r], row)]
    BY <2>2 DEF row
  <2>6. Len(rows[r]) + 1 \in DOMAIN rows'[r] /\ rows'[r][Len(rows[r]) + 1] = row
    <3>1. /\ Len(rows[r]) \in Nat
          /\ DOMAIN rows'[r] = 1 .. (Len(rows[r]) + 1)
          /\ rows'[r][Len(rows[r]) + 1] = row
      BY <1>1, <2>5, Collected
    <3> QED
      BY <3>1
  <2>7. HoldsMaker(rows[r], x)'
    BY <2>3, <2>4, <2>6 DEF HoldsMaker
  <2>8. pc'[r] \in CreateSteps
    BY <1>1, <2>2 DEF TypeInv, TypeOK, CreateSteps
  <2> QED
    BY <2>3, <2>7, <2>8 DEF MakerKnown
<1>3. CASE github[x].by # Nobody
  <2> DEFINE s == github[x].by[1]
  <2>1. github'[x].by = github[x].by
    BY <1>1, <1>3, MakersStay
  <2>2. exists /\ lost \subseteq lost' /\ s \in Requests /\ MakerKnown(x)
    BY <1>1, <1>3, LostStayLost DEF TraceInv, BelongInv, MadeByCreations, MakersKnown
  <2>3. CASE s \in lost
    BY <2>1, <2>2, <2>3 DEF MakerKnown
  <2>4. CASE \E n \in DOMAIN runs : runs[n].req = s /\ HoldsMaker(runs[n].rows, x)
    <3>1. PICK n \in DOMAIN runs : runs[n].req = s /\ HoldsMaker(runs[n].rows, x)
      BY <2>4
    <3>2. n \in DOMAIN runs' /\ runs'[n] = runs[n]
      BY <1>1, HistoryGrows
    <3> QED
      BY <2>1, <3>1, <3>2 DEF MakerKnown, HoldsMaker
  <2>5. CASE pc[s] \in CreateSteps /\ HoldsMaker(rows[s], x)
    <3>1. rows[s] # << >>
      BY <2>5 DEF HoldsMaker
    <3>2. /\ s \in lost' \/ pc'[s] \in CreateSteps \/ (s = r /\ SaveRun(r))
          /\ HoldsMaker(rows[s], x)'
      <4>1. /\ s \in lost' \/ pc'[s] \in CreateSteps \/ (s = r /\ SaveRun(r))
            /\ DOMAIN rows[s] \subseteq DOMAIN rows'[s]
            /\ \A k \in DOMAIN rows[s] : rows'[s][k] = rows[s][k]
        <5> HIDE DEF s
        <5> QED
          BY <1>1, <2>2, <2>5, <3>1, RowsStayKnown
      <4>2. HoldsMaker(rows[s], x)'
        BY <2>1, <2>5, <4>1 DEF HoldsMaker
      <4> QED
        BY <4>1, <4>2
    <3>3. CASE s = r /\ SaveRun(r)
      <4>1. runs' # << >> /\ runs' # runs
        <5>1. runs \in Seq(Run)
          BY <1>1 DEF TypeInv, TypeOK
        <5>2. Len(runs') = Len(runs) + 1 /\ Len(runs) \in Nat
          BY <3>3, <5>1 DEF SaveRun
        <5> QED
          BY <5>2
      <4>2. /\ Len(runs) + 1 \in DOMAIN runs'
            /\ runs'[Len(runs) + 1].req = r
            /\ runs'[Len(runs) + 1].rows = rows[r]
        BY <1>1, <3>3, <4>1, HistoryGrows
      <4>3. rows'[r] = rows[r]
        BY <3>3 DEF SaveRun, flight
      <4> QED
        BY <2>1, <3>2, <3>3, <4>2, <4>3 DEF MakerKnown, HoldsMaker
    <3> QED
      BY <2>1, <3>2, <3>3 DEF MakerKnown
  <2> QED
    BY <2>2, <2>3, <2>4, <2>5 DEF MakerKnown
<1> QED
  BY <1>2, <1>3

LEMMA NextTrace ==
    ASSUME TraceInv, [Next]_vars
    PROVE  TraceInv'
<1>1. BelongInv' /\ TypeInv
  BY NextBelong DEF TraceInv, BelongInv, LockInv
<1>2. CASE Outside
  <2>1. MakersKnown'
    <3> SUFFICES ASSUME exists', NEW x \in Items, github'[x].by # Nobody
                 PROVE  MakerKnown(x)'
      BY DEF MakersKnown
    <3>1. MakerKnown(x) /\ github[x].by[1] \in Requests
      BY <1>2 DEF TraceInv, BelongInv, MadeByCreations, MakersKnown, Outside
    <3>2. HoldsMaker(rows[github[x].by[1]], x) => rows[github[x].by[1]] # << >>
      BY DEF HoldsMaker
    <3> QED
      BY <1>2, <3>1, <3>2 DEF MakerKnown, HoldsMaker, Outside
  <2> QED
    BY <1>1, <2>1 DEF TraceInv
<1> QED
  BY <1>1, <1>2, StepTrace, OutsideSteps DEF TraceInv

-----------------------------------------------------------------------------
(* What the fold shows is what GitHub has *)

LEMMA RowsGrow ==
    ASSUME TypeInv, NEW r \in Requests, Step(r), NEW s \in Requests
    PROVE  /\ DOMAIN rows[s] \subseteq DOMAIN rows'[s]
           /\ \A k \in DOMAIN rows[s] : rows'[s][k] = rows[s][k]
<1>1. CASE WriteDraftIssue(r)
  <2>1. PICK i, x, answered :
            rows' = [rows EXCEPT ![r] = Append(rows[r], RowOf(r, i, x, answered))]
    BY <1>1, WriteStep
  <2> DEFINE row == RowOf(r, i, x, answered)
  <2> HIDE DEF row
  <2>2. rows' = [rows EXCEPT ![r] = Append(rows[r], row)]
    BY <2>1 DEF row
  <2> QED
    BY <2>2, Collected
<1>2. CASE Fields(r)
  BY <1>2, FieldStep
<1> QED
  BY <1>1, <1>2, StepHistory
  DEF Idle, Advances, StopsWriting, Delete, SaveRun, SaveRunFails, flight

LEMMA WriterHoldsTheLock ==
    ASSUME LockInv, NEW r \in Requests, WriteDraftIssue(r) \/ Fields(r),
           NEW q \in Requests, pc[q] \in CreateSteps
    PROVE  q = r
<1>1. pc[r] \in InSection /\ pc[q] \in InSection
  BY WriteStep, FieldStep DEF LockInv, InSection, CreateSteps
<1> QED
  BY <1>1 DEF LockInv, OneInSection

(* The titles a write leaves alone: all but that of the item it renames.   *)
LEMMA TitlesStay ==
    ASSUME BelongInv, NEW r \in Requests, Step(r), NEW x \in Items, github[x].by # Nobody,
           github'[x].title # github[x].title
    PROVE  /\ WriteDraftIssue(r)
           /\ pc'[r] \in CreateSteps
           /\ rows'[r] # << >>
           /\ Current(r)'.item = x
           /\ Len(rows'[r]) \in DOMAIN rows'[r]
           /\ \A k \in DOMAIN rows[r] : k < Len(rows'[r])
<1>1. TypeInv
  BY DEF BelongInv, LockInv
<1>2. WriteDraftIssue(r)
  BY <1>1, FieldOnGithub, StepHistory
  DEF Idle, Advances, StopsWriting, Delete, SaveRun, SaveRunFails
<1>3. PICK i \in DOMAIN call[r].plan, y \in Items \cup {NoItem}, answered \in BOOLEAN :
        /\ Writes(r, i, y, answered)
        /\ answered => y \in Items
        /\ rows' = [rows EXCEPT ![r] = Append(rows[r], RowOf(r, i, y, answered))]
        /\ pc' = [pc EXCEPT ![r] = IF answered THEN "kind" ELSE "saving"]
  BY <1>1, <1>2, WriteStep, SMTT(30)
<1>4. call[r].op = "create"
  BY <1>1, <1>2, WriteStep
<1>5. \A z \in Items : github[z].by # Nobody =>
            (z # call[r].plan[i].prev => github'[z].title = github[z].title)
  BY <1>1, <1>3, <1>4, WriteOnGithub, SMTT(30)
<1>6. x = call[r].plan[i].prev /\ x # NoItem
  BY <1>5, ConstantsAssumption
<1>7. y = x
  BY <1>1, <1>3, <1>4, <1>6, WriteOnGithub, SMTT(30)
<1> DEFINE row == RowOf(r, i, y, answered)
<1>8. row.item = x
  BY <1>7 DEF RowOf
<1> HIDE DEF row
<1>9. rows' = [rows EXCEPT ![r] = Append(rows[r], row)]
  BY <1>3 DEF row
<1>10. /\ Len(rows[r]) \in Nat
       /\ DOMAIN rows[r] = 1 .. Len(rows[r])
       /\ Len(rows'[r]) = Len(rows[r]) + 1
       /\ DOMAIN rows'[r] = 1 .. (Len(rows[r]) + 1)
       /\ rows'[r][Len(rows[r]) + 1] = row
  BY <1>1, <1>9, Collected
<1>11. pc'[r] \in CreateSteps
  BY <1>1, <1>3 DEF TypeInv, TypeOK, CreateSteps
<1>12. Len(rows'[r]) \in DOMAIN rows'[r] /\ rows'[r] # << >>
  BY <1>10
<1>13. Current(r)'.item = x
  BY <1>8, <1>10 DEF Current
<1> QED
  BY <1>2, <1>10, <1>11, <1>12, <1>13

LEMMA StepHand ==
    ASSUME BelongInv, HandShowsGithub, NEW r \in Requests, Step(r)
    PROVE  HandShowsGithub'
<1>1. TypeInv /\ LockInv /\ pc \in [Requests -> {"waiting", "inviting", "done"} \cup InSection]
  BY DEF BelongInv, LockInv, TypeInv, TypeOK
<1> SUFFICES ASSUME NEW q \in Requests, pc'[q] \in CreateSteps,
                    NEW k \in DOMAIN rows'[q], rows'[q][k].confirmed,
                    \A j \in DOMAIN rows'[q] : k < j => rows'[q][j].item # rows'[q][k].item
             PROVE  github'[rows'[q][k].item].title = rows'[q][k].title
  BY DEF HandShowsGithub
<1>2. ASSUME pc[q] \in CreateSteps, k \in DOMAIN rows[q]
      PROVE  github'[rows'[q][k].item].title = rows'[q][k].title
  <2>1. rows'[q][k] = rows[q][k] /\ DOMAIN rows[q] \subseteq DOMAIN rows'[q]
    BY <1>1, <1>2, RowsGrow
  <2>2. /\ rows[q][k].confirmed
        /\ \A j \in DOMAIN rows[q] : k < j => rows[q][j].item # rows[q][k].item
    BY <1>1, <2>1, RowsGrow
  <2>3. github[rows[q][k].item].title = rows[q][k].title
    BY <1>2, <2>2 DEF HandShowsGithub
  <2>4. rows[q][k].item \in Items /\ github[rows[q][k].item].by # Nobody
    BY <1>2, <2>2 DEF BelongInv, CreationsBelong, RowsBelong, Belongs
  <2>5. ASSUME github'[rows[q][k].item].title # github[rows[q][k].item].title PROVE FALSE
    <3>1. WriteDraftIssue(r) /\ Current(r)'.item = rows[q][k].item
      BY <2>4, <2>5, TitlesStay
    <3>2. q = r
      BY <1>1, <1>2, <3>1, WriterHoldsTheLock
    <3>3. Len(rows'[r]) \in DOMAIN rows'[r] /\ k < Len(rows'[r])
      BY <1>2, <2>4, <2>5, <3>2, TitlesStay
    <3> QED
      BY <2>1, <3>1, <3>2, <3>3 DEF Current
  <2> QED
    BY <2>1, <2>3, <2>5
<1>3. CASE WriteDraftIssue(r)
  <2>1. PICK i \in DOMAIN call[r].plan, y \in Items \cup {NoItem}, answered \in BOOLEAN :
        /\ Writes(r, i, y, answered)
        /\ answered => y \in Items
        /\ rows' = [rows EXCEPT ![r] = Append(rows[r], RowOf(r, i, y, answered))]
        /\ pc' = [pc EXCEPT ![r] = IF answered THEN "kind" ELSE "saving"]
    BY <1>1, <1>3, WriteStep, SMTT(30)
  <2>2. call[r].op = "create" /\ pc[r] = "writing"
    BY <1>1, <1>3, WriteStep
  <2> DEFINE row == RowOf(r, i, y, answered)
  <2>3. row.item = y /\ row.confirmed = answered /\ row.title = call[r].plan[i].title
    BY DEF RowOf
  <2>4. answered => github'[y].title = call[r].plan[i].title
    <3>1. ASSUME answered PROVE Writes(r, i, y, TRUE) /\ y \in Items
      BY <2>1, <3>1 DEF Writes
    <3> QED
      BY <1>1, <2>1, <2>2, <3>1, AnsweredTitle
  <2> HIDE DEF row
  <2>5. rows' = [rows EXCEPT ![r] = Append(rows[r], row)]
    BY <2>1 DEF row
  <2>6. q = r
    <3>1. pc[q] \in CreateSteps
      BY <1>1, <2>1, <2>2 DEF CreateSteps
    <3> QED
      BY <1>1, <1>3, <3>1, WriterHoldsTheLock
  <2>7. k \in DOMAIN rows[q] \/ rows'[q][k] = row
    <3>1. /\ Len(rows[r]) \in Nat
          /\ DOMAIN rows[r] = 1 .. Len(rows[r])
          /\ DOMAIN rows'[r] = 1 .. (Len(rows[r]) + 1)
          /\ rows'[r][Len(rows[r]) + 1] = row
      BY <1>1, <2>5, Collected
    <3> QED
      BY <2>6, <3>1
  <2>8. pc[q] \in CreateSteps
    BY <2>2, <2>6 DEF CreateSteps
  <2> QED
    BY <1>2, <2>3, <2>4, <2>7, <2>8
<1>4. CASE ~WriteDraftIssue(r)
  <2>1. rows' = rows
    BY <1>1, <1>4, FieldStep, StepHistory
    DEF Idle, Advances, StopsWriting, Delete, SaveRun, SaveRunFails, flight
  <2>2. CASE pc[q] \in CreateSteps
    BY <1>2, <2>1, <2>2
  <2>3. CASE pc[q] \notin CreateSteps
    <3>1. Advances(r) /\ q = r /\ pc[r] = "locked"
      <4>1. CASE Fields(r)
        BY <1>1, <2>3, <4>1, FieldStep DEF CreateSteps
      <4>2. CASE Idle(r)
        BY <1>1, <2>3, <4>2 DEF Idle, Goto
      <4>3. CASE StopsWriting(r) \/ Delete(r) \/ SaveRun(r) \/ SaveRunFails(r)
        BY <1>1, <2>3, <4>3 DEF StopsWriting, Delete, SaveRun, SaveRunFails, Goto, CreateSteps
      <4>4. CASE Advances(r)
        BY <1>1, <2>3, <4>4 DEF Advances, Goto, CreateSteps
      <4> QED
        BY <1>1, <1>4, <4>1, <4>2, <4>3, <4>4, StepHistory
    <3>2. rows[q] = << >>
      BY <1>1, <3>1 DEF TypeInv, RowsFit
    <3> QED
      BY <2>1, <3>2
  <2> QED
    BY <2>2, <2>3
<1> QED
  BY <1>3, <1>4

LEMMA RowsOfHistory ==
    ASSUME TypeInv, NEW p \in RowIds(runs)
    PROVE  /\ p = <<p[1], p[2]>>
           /\ p[1] \in DOMAIN runs /\ p[2] \in DOMAIN runs[p[1]].rows
           /\ p[1] \in Nat /\ p[2] \in Nat /\ p[1] <= Len(runs)
<1>1. p = <<p[1], p[2]>> /\ p[1] \in DOMAIN runs /\ p[2] \in DOMAIN runs[p[1]].rows
  BY DEF RowIds
<1>2. runs \in Seq(Run)
  BY DEF TypeInv, TypeOK
<1>3. runs[p[1]] \in Run
  BY <1>1, <1>2
<1>4. runs[p[1]].rows \in Seq(Row)
  BY <1>3 DEF Run
<1> QED
  BY <1>1, <1>2, <1>4

(* The rows after a run was saved: those from before and those of the run. *)
LEMMA SavedRows ==
    ASSUME TypeInv, NEW r \in Requests, SaveRun(r)
    PROVE  /\ runs' # runs /\ runs' # << >>
           /\ \A p \in RowIds(runs) :
                /\ p \in RowIds(runs')
                /\ RowAt(runs', p) = RowAt(runs, p)
                /\ AnnotationAt(runs', p) = AnnotationAt(runs, p)
           /\ \A k \in DOMAIN rows[r] :
                /\ <<Len(runs) + 1, k>> \in RowIds(runs')
                /\ RowAt(runs', <<Len(runs) + 1, k>>) = rows[r][k]
                /\ AnnotationAt(runs', <<Len(runs) + 1, k>>) = call[r].annotation
           /\ \A p \in RowIds(runs') :
                \/ p \in RowIds(runs)
                \/ \E k \in DOMAIN rows[r] : p = <<Len(runs) + 1, k>>
           /\ \A k \in DOMAIN rows[r] : k \in Nat
           /\ Len(runs) \in Nat
<1>0. runs \in Seq(Run) /\ rows[r] \in Seq(Row)
  BY DEF TypeInv, TypeOK
<1>1. Len(runs) \in Nat /\ Len(runs') = Len(runs) + 1
  BY <1>0 DEF SaveRun
<1>2. runs' # runs /\ runs' # << >>
  BY <1>1
<1>3. /\ DOMAIN runs = 1 .. Len(runs)
      /\ DOMAIN runs' = 1 .. (Len(runs) + 1)
      /\ \A n \in DOMAIN runs : runs'[n] = runs[n]
      /\ runs'[Len(runs) + 1].annotation = call[r].annotation
      /\ runs'[Len(runs) + 1].rows = rows[r]
  BY <1>2, HistoryGrows DEF Step
<1>4. DOMAIN runs' = DOMAIN runs \cup {Len(runs) + 1}
  BY <1>1, <1>3
<1>5. \A k \in DOMAIN rows[r] : k \in Nat
  BY <1>0
<1>6. \A p \in RowIds(runs) :
        /\ p \in RowIds(runs')
        /\ RowAt(runs', p) = RowAt(runs, p)
        /\ AnnotationAt(runs', p) = AnnotationAt(runs, p)
  BY <1>3, <1>4 DEF RowIds, RowAt, AnnotationAt
<1>7. \A k \in DOMAIN rows[r] :
        /\ <<Len(runs) + 1, k>> \in RowIds(runs')
        /\ RowAt(runs', <<Len(runs) + 1, k>>) = rows[r][k]
        /\ AnnotationAt(runs', <<Len(runs) + 1, k>>) = call[r].annotation
  BY <1>3, <1>4 DEF RowIds, RowAt, AnnotationAt
<1>8. \A p \in RowIds(runs') :
        \/ p \in RowIds(runs)
        \/ \E k \in DOMAIN rows[r] : p = <<Len(runs) + 1, k>>
  BY <1>3, <1>4 DEF RowIds
<1> QED
  BY <1>1, <1>2, <1>5, <1>6, <1>7, <1>8

(* A row of the board names an item of its annotation. *)
LEMMA HistoryRowBelongs ==
    ASSUME BelongInv, NEW p \in RowIds(runs)
    PROVE  /\ RowAt(runs, p).confirmed => RowAt(runs, p).item # NoItem
           /\ RowAt(runs, p).item # NoItem => Belongs(RowAt(runs, p).item, AnnotationAt(runs, p))
<1>1. p[1] \in DOMAIN runs /\ p[2] \in DOMAIN runs[p[1]].rows
  BY DEF RowIds
<1>2. RowsBelong(runs[p[1]].rows, runs[p[1]].annotation)
  BY <1>1 DEF BelongInv, HistoryBelongs
<1> QED
  BY <1>1, <1>2 DEF RowsBelong, RowAt, AnnotationAt

LEMMA SavingFold ==
    ASSUME FoldInv, NEW r \in Requests, SaveRun(r), NEW p \in FoldedRows(runs'),
           NEW x, x = RowAt(runs', p).item
    PROVE  github'[x].title = RowAt(runs', p).title \/ Unsettled(x)'
<1>1. /\ BelongInv /\ TypeInv /\ FoldShowsGitHub /\ HandShowsGithub
      /\ pc \in [Requests -> {"waiting", "inviting", "done"} \cup InSection]
  BY DEF FoldInv, BelongInv, LockInv, TypeInv, TypeOK
<1>2. /\ UNCHANGED <<github, rows, lost, call>>
      /\ pc[r] = "saving" /\ pc[r] \in CreateSteps
      /\ \A q \in Requests \ {r} : pc'[q] = pc[q]
  BY <1>1 DEF SaveRun, Goto, flight, CreateSteps
<1> DEFINE new == Len(runs) + 1
<1>3. /\ \A q \in RowIds(runs) :
            /\ q \in RowIds(runs')
            /\ RowAt(runs', q) = RowAt(runs, q)
            /\ AnnotationAt(runs', q) = AnnotationAt(runs, q)
            /\ q = <<q[1], q[2]>> /\ q[1] \in Nat /\ q[1] < new
      /\ \A k \in DOMAIN rows[r] :
            /\ <<new, k>> \in RowIds(runs')
            /\ RowAt(runs', <<new, k>>) = rows[r][k]
            /\ AnnotationAt(runs', <<new, k>>) = call[r].annotation
            /\ k \in Nat
      /\ \A q \in RowIds(runs') :
            \/ q \in RowIds(runs)
            \/ \E k \in DOMAIN rows[r] : q = <<new, k>>
      /\ new \in Nat
  <2>1. \A q \in RowIds(runs) : q = <<q[1], q[2]>> /\ q[1] \in Nat /\ q[1] < new
    BY <1>1, RowsOfHistory
  <2>2. /\ \A q \in RowIds(runs) :
            /\ q \in RowIds(runs')
            /\ RowAt(runs', q) = RowAt(runs, q)
            /\ AnnotationAt(runs', q) = AnnotationAt(runs, q)
        /\ \A k \in DOMAIN rows[r] :
            /\ <<new, k>> \in RowIds(runs')
            /\ RowAt(runs', <<new, k>>) = rows[r][k]
            /\ AnnotationAt(runs', <<new, k>>) = call[r].annotation
            /\ k \in Nat
        /\ \A q \in RowIds(runs') :
            \/ q \in RowIds(runs)
            \/ \E k \in DOMAIN rows[r] : q = <<new, k>>
        /\ new \in Nat
    BY <1>1, SavedRows
  <2> QED
    BY <2>1, <2>2
<1>4. /\ p \in RowIds(runs') /\ RowAt(runs', p).confirmed
      /\ \A q \in RowIds(runs') :
            RowAt(runs', q).confirmed /\ AnnotationAt(runs', p) = AnnotationAt(runs', q)
            /\ RowAt(runs', q).item = x
                => ~Later(p, q)
  BY DEF FoldedRows, ConfirmedRows, SameGroup
<1>5. \A k \in DOMAIN rows[r] :
        /\ rows[r][k].confirmed => rows[r][k].item # NoItem
        /\ rows[r][k].item # NoItem => Belongs(rows[r][k].item, call[r].annotation)
  BY <1>1, <1>2 DEF BelongInv, CreationsBelong, RowsBelong
<1> HIDE DEF new
(* Unanswered rows of the run that no later one settles are listed.        *)
<1>6. ASSUME NEW j \in DOMAIN rows[r], rows[r][j].item = x, ~rows[r][j].confirmed,
             \A k \in DOMAIN rows[r] : rows[r][k].confirmed /\ rows[r][k].item = x => k <= j
      PROVE  Unsettled(x)'
  <2>1. ASSUME NEW q \in ConfirmedRows(runs'), SameGroup(runs', <<new, j>>, q), Later(<<new, j>>, q)
        PROVE  FALSE
    <3>1. q \in RowIds(runs') /\ RowAt(runs', q).confirmed /\ RowAt(runs', q).item = x
      BY <1>3, <1>6, <2>1 DEF ConfirmedRows, SameGroup
    <3>2. CASE q \in RowIds(runs)
      BY <1>3, <2>1, <3>2 DEF Later
    <3>3. CASE \E k \in DOMAIN rows[r] : q = <<new, k>>
      <4>1. PICK k \in DOMAIN rows[r] : q = <<new, k>>
        BY <3>3
      <4>2. rows[r][k].confirmed /\ rows[r][k].item = x
        BY <1>3, <3>1, <4>1
      <4>3. k <= j /\ j < k /\ j \in Nat /\ k \in Nat
        BY <1>3, <1>6, <2>1, <4>1, <4>2 DEF Later
      <4> QED
        BY <4>3
    <3> QED
      BY <1>3, <3>1, <3>2, <3>3
  <2>2. <<new, j>> \in RowIds(runs') /\ ~RowAt(runs', <<new, j>>).confirmed
    BY <1>3, <1>6
  <2>3. <<new, j>> \in ListUnconfirmed(runs')
    BY <2>1, <2>2 DEF ListUnconfirmed
  <2>4. RowAt(runs', <<new, j>>).item = x
    BY <1>3, <1>6
  <2> QED
    BY <2>3, <2>4 DEF Unsettled
<1>7. CASE p \in RowIds(runs)
  <2>1. p \in ConfirmedRows(runs) /\ x = RowAt(runs, p).item
    BY <1>3, <1>4, <1>7 DEF ConfirmedRows
  <2>2. x # NoItem /\ Belongs(x, AnnotationAt(runs, p))
    BY <1>1, <1>7, <2>1, HistoryRowBelongs DEF ConfirmedRows
  <2>3. ASSUME NEW k \in DOMAIN rows[r], rows[r][k].confirmed, rows[r][k].item = x PROVE FALSE
    <3>1. call[r].annotation = AnnotationAt(runs, p)
      BY <1>5, <2>2, <2>3 DEF Belongs
    <3>2. Later(p, <<new, k>>)
      BY <1>3, <1>7 DEF Later
    <3> QED
      BY <1>3, <1>4, <1>7, <2>3, <3>1, <3>2
  <2>4. p \in FoldedRows(runs)
    <3>1. ASSUME NEW q \in ConfirmedRows(runs), SameGroup(runs, p, q) PROVE ~Later(p, q)
      <4>1. /\ q \in RowIds(runs') /\ RowAt(runs', q).confirmed /\ RowAt(runs', q).item = x
            /\ AnnotationAt(runs', q) = AnnotationAt(runs', p)
        BY <1>3, <1>7, <2>1, <3>1 DEF ConfirmedRows, SameGroup
      <4> QED
        BY <1>4, <4>1
    <3> QED
      BY <2>1, <3>1 DEF FoldedRows
  <2>5. github[x].title = RowAt(runs, p).title \/ Unsettled(x)
    BY <1>1, <2>1, <2>4 DEF FoldShowsGitHub
  <2>6. CASE \E q \in ListUnconfirmed(runs) : RowAt(runs, q).item = x
    <3>1. PICK q \in ListUnconfirmed(runs) : RowAt(runs, q).item = x
      BY <2>6
    <3>2. /\ q \in RowIds(runs) /\ ~RowAt(runs, q).confirmed
          /\ \A s \in ConfirmedRows(runs) : ~(SameGroup(runs, q, s) /\ Later(q, s))
      BY <2>2, <3>1 DEF ListUnconfirmed
    <3>3. ASSUME NEW s \in ConfirmedRows(runs'), SameGroup(runs', q, s), Later(q, s) PROVE FALSE
      <4>1. s \in RowIds(runs') /\ RowAt(runs', s).confirmed /\ RowAt(runs', s).item = x
        BY <1>3, <3>1, <3>2, <3>3 DEF ConfirmedRows, SameGroup
      <4>2. CASE s \in RowIds(runs)
        <5>1. s \in ConfirmedRows(runs) /\ SameGroup(runs, q, s)
          BY <1>3, <3>2, <3>3, <4>1, <4>2 DEF ConfirmedRows, SameGroup
        <5> QED
          BY <3>2, <3>3, <5>1
      <4>3. CASE \E k \in DOMAIN rows[r] : s = <<new, k>>
        BY <1>3, <2>3, <4>1, <4>3
      <4> QED
        BY <1>3, <4>1, <4>2, <4>3
    <3>4. q \in RowIds(runs') /\ ~RowAt(runs', q).confirmed /\ RowAt(runs', q).item = x
      BY <1>3, <3>1, <3>2
    <3>5. q \in ListUnconfirmed(runs')
      BY <3>3, <3>4 DEF ListUnconfirmed
    <3> QED
      BY <3>4, <3>5 DEF Unsettled
  <2>7. ASSUME NEW s \in Requests, pc[s] \in CreateSteps \/ s \in lost,
               NEW k \in DOMAIN rows[s], rows[s][k].item = x
        PROVE  Unsettled(x)'
    <3>1. CASE s # r \/ s \in lost
      BY <1>2, <2>7, <3>1 DEF Unsettled
    <3>2. CASE s = r
      BY <1>6, <2>3, <2>7, <3>2
    <3> QED
      BY <3>1, <3>2
  <2>8. CASE github[x].title = RowAt(runs, p).title
    BY <1>2, <1>3, <1>7, <2>8
  <2> QED
    BY <2>5, <2>6, <2>7, <2>8 DEF Unsettled
<1>8. CASE \E k \in DOMAIN rows[r] : p = <<new, k>>
  <2>1. PICK k \in DOMAIN rows[r] : p = <<new, k>>
    BY <1>8
  <2>2. /\ RowAt(runs', p) = rows[r][k] /\ AnnotationAt(runs', p) = call[r].annotation
        /\ rows[r][k].confirmed /\ x = rows[r][k].item
    BY <1>3, <1>4, <2>1
  <2>3. \A j \in DOMAIN rows[r] : rows[r][j].confirmed /\ rows[r][j].item = x => j <= k
    <3>1. ASSUME NEW j \in DOMAIN rows[r], rows[r][j].confirmed, rows[r][j].item = x, k < j
          PROVE FALSE
      <4>1. Later(p, <<new, j>>)
        BY <2>1, <3>1 DEF Later
      <4>2. /\ <<new, j>> \in RowIds(runs') /\ RowAt(runs', <<new, j>>).confirmed
            /\ AnnotationAt(runs', <<new, j>>) = AnnotationAt(runs', p)
            /\ RowAt(runs', <<new, j>>).item = x
        BY <1>3, <2>2, <3>1
      <4> QED
        BY <1>4, <4>1, <4>2
    <3>2. \A j \in DOMAIN rows[r] : j \in Nat
      BY <1>3
    <3> QED
      BY <3>1, <3>2
  <2>4. CASE \A j \in DOMAIN rows[r] : k < j => rows[r][j].item # x
    <3>1. github[x].title = rows[r][k].title
      BY <1>1, <1>2, <2>2, <2>4 DEF HandShowsGithub
    <3> QED
      BY <1>2, <2>2, <3>1
  <2>5. CASE \E j \in DOMAIN rows[r] : k < j /\ rows[r][j].item = x
    <3>1. PICK j \in DOMAIN rows[r] : k < j /\ rows[r][j].item = x
      BY <2>5
    <3>2. k \in Nat /\ j \in Nat /\ \A i \in DOMAIN rows[r] : i \in Nat
      BY <1>3
    <3>3. ~rows[r][j].confirmed
      BY <2>3, <3>1, <3>2
    <3>4. \A i \in DOMAIN rows[r] : rows[r][i].confirmed /\ rows[r][i].item = x => i <= j
      BY <2>3, <3>1, <3>2
    <3> QED
      BY <1>6, <3>1, <3>3, <3>4
  <2> QED
    BY <2>4, <2>5
<1> QED
  BY <1>3, <1>4, <1>7, <1>8

LEMMA StepFold ==
    ASSUME FoldInv, NEW r \in Requests, Step(r)
    PROVE  FoldShowsGitHub'
<1>1. BelongInv /\ TypeInv /\ LockInv /\ FoldShowsGitHub
  BY DEF FoldInv, BelongInv, LockInv
<1> SUFFICES ASSUME NEW p \in FoldedRows(runs'), NEW x, x = RowAt(runs', p).item
             PROVE  github'[x].title = RowAt(runs', p).title \/ Unsettled(x)'
  BY DEF FoldShowsGitHub
<1>2. CASE SaveRun(r)
  BY <1>2, SavingFold
<1>3. CASE runs' = << >>
  BY <1>3 DEF FoldedRows, ConfirmedRows, RowIds
<1>4. CASE UNCHANGED runs /\ ~SaveRun(r)
  <2>1. p \in FoldedRows(runs) /\ x = RowAt(runs, p).item /\ RowAt(runs, p) = RowAt(runs', p)
    BY <1>4
  <2>2. p \in RowIds(runs) /\ RowAt(runs, p).confirmed
    BY <2>1 DEF FoldedRows, ConfirmedRows
  <2>3. x \in Items /\ github[x].by # Nobody
    BY <1>1, <2>1, <2>2, HistoryRowBelongs DEF Belongs
  <2>4. github[x].title = RowAt(runs, p).title \/ Unsettled(x)
    BY <1>1, <2>1 DEF FoldShowsGitHub
  <2>5. CASE github'[x].title # github[x].title
    <3>1. /\ pc'[r] \in CreateSteps
          /\ Current(r)'.item = x
          /\ Len(rows'[r]) \in DOMAIN rows'[r]
      BY <1>1, <2>3, <2>5, TitlesStay
    <3> QED
      BY <3>1 DEF Unsettled, Current
  <2>6. CASE github'[x].title = github[x].title /\ Unsettled(x)
    <3>1. CASE \E q \in ListUnconfirmed(runs) : RowAt(runs, q).item = x
      BY <1>4, <3>1 DEF Unsettled
    <3>2. ASSUME NEW s \in Requests, pc[s] \in CreateSteps \/ s \in lost,
                 NEW k \in DOMAIN rows[s], rows[s][k].item = x
          PROVE  Unsettled(x)'
      <4>1. k \in DOMAIN rows'[s] /\ rows'[s][k].item = x
        BY <1>1, <3>2, RowsGrow
      <4>2. rows[s] # << >>
        BY <3>2
      <4>3. pc'[s] \in CreateSteps \/ s \in lost'
        BY <1>1, <1>4, <3>2, <4>2, RowsStayKnown, LostStayLost
      <4> QED
        BY <4>1, <4>3 DEF Unsettled
    <3> QED
      BY <2>6, <3>1, <3>2 DEF Unsettled
  <2> QED
    BY <2>1, <2>4, <2>5, <2>6
<1> QED
  BY <1>1, <1>2, <1>3, <1>4, HistoryGrows

LEMMA NextFold ==
    ASSUME FoldInv, [Next]_vars
    PROVE  FoldInv'
<1>1. BelongInv' /\ TypeInv /\ HandShowsGithub /\ BelongInv
  BY NextBelong DEF FoldInv, BelongInv, LockInv
<1>2. CASE Outside
  <2>1. HandShowsGithub'
    BY <1>2 DEF FoldInv, HandShowsGithub, Outside, CreateSteps
  <2>2. FoldShowsGitHub'
    <3> SUFFICES ASSUME NEW p \in FoldedRows(runs'), NEW x, x = RowAt(runs', p).item
                 PROVE  github'[x].title = RowAt(runs', p).title \/ Unsettled(x)'
      BY DEF FoldShowsGitHub
    <3>1. UNCHANGED <<runs, github, rows>>
      BY <1>2 DEF Outside
    <3>2. github[x].title = RowAt(runs, p).title \/ Unsettled(x)
      BY <3>1 DEF FoldInv, FoldShowsGitHub
    <3>3. Unsettled(x) => Unsettled(x)'
      <4>1. CASE \E q \in ListUnconfirmed(runs) : RowAt(runs, q).item = x
        BY <3>1, <4>1 DEF Unsettled
      <4>2. ASSUME NEW s \in Requests, pc[s] \in CreateSteps \/ s \in lost,
                   NEW k \in DOMAIN rows[s], rows[s][k].item = x
            PROVE  Unsettled(x)'
        <5>1. rows[s] # << >>
          BY <4>2
        <5>2. pc'[s] \in CreateSteps \/ s \in lost'
          BY <1>2, <4>2, <5>1 DEF Outside
        <5> QED
          BY <3>1, <4>2, <5>2 DEF Unsettled
      <4> QED
        BY <4>1, <4>2 DEF Unsettled
    <3> QED
      BY <3>1, <3>2, <3>3
  <2> QED
    BY <1>1, <2>1, <2>2 DEF FoldInv
<1>3. CASE \E r \in Requests : Step(r)
  BY <1>1, <1>3, StepHand, StepFold DEF FoldInv
<1> QED
  BY <1>1, <1>2, <1>3, OutsideSteps

-----------------------------------------------------------------------------
(* An annotation shown as created holds what was interpreted *)

LEMMA CreatedFromHash ==
    ASSUME BelongInv
    PROVE  CreatedIsWhatWasInterpreted
<1> SUFFICES ASSUME NEW a \in Annotations, DecideState(runs, a, content[a]) = Created
             PROVE  \E n \in DOMAIN runs :
                        /\ runs[n].annotation = a
                        /\ IsLatestRun(runs, n)
                        /\ call[runs[n].req].hash = content[a]
  BY DEF CreatedIsWhatWasInterpreted
<1>1. PICK n \in DOMAIN runs : /\ runs[n].annotation = a
                               /\ IsLatestRun(runs, n)
                               /\ runs[n].hash = content[a]
  BY DEF DecideState, Created, Uncreated, Changed
<1>2. runs[n].hash = call[runs[n].req].hash
  BY DEF BelongInv, RunsFit
<1> QED
  BY <1>1, <1>2

-----------------------------------------------------------------------------
(* The initial states *)

LEMMA InitHistory == Init => TraceInv /\ FoldInv /\ WriteInv /\ OrderInv
<1> SUFFICES ASSUME Init PROVE TraceInv /\ FoldInv /\ WriteInv /\ OrderInv
  OBVIOUS
<1>1. LockInv
  BY InitLockInv
<1>2. /\ runs = << >>
      /\ \A x \in Items : github[x].by = Nobody
      /\ \A r \in Requests : pc[r] \notin CreateSteps
  BY DEF Init, Absent, CreateSteps
<1>3. BelongInv
  BY <1>1, <1>2
  DEF BelongInv, MadeByCreations, RunsFit, HistoryBelongs, CreationsBelong
<1>4. MakersKnown /\ HandShowsGithub /\ CreationsInOrder /\ CreationsWrite
  BY <1>2 DEF MakersKnown, HandShowsGithub, CreationsInOrder, CreationsWrite
<1>5. FoldShowsGitHub
  BY <1>2 DEF FoldShowsGitHub, FoldedRows, ConfirmedRows, RowIds
<1> QED
  BY <1>1, <1>3, <1>4, <1>5 DEF TraceInv, FoldInv, WriteInv, OrderInv

-----------------------------------------------------------------------------
(* A creation writes its interpretation *)

LEMMA AnsweredWrite ==
    ASSUME TypeInv, NEW r \in Requests, call[r].op = "create", NEW i \in DOMAIN call[r].plan,
           NEW x \in Items, Writes(r, i, x, TRUE), call[r].plan[i].prev = NoItem
    PROVE  github[x].by = Nobody /\ github'[x].parent = NoTitle
<1>1. Fresh(x) /\ MadeOnGithub(r, i, x)
  BY DEF Writes
<1>2. github \in [Items -> GithubItem]
  BY DEF TypeInv, TypeOK
<1>3. github'[x] = [Absent EXCEPT !.project = view[r].project,
                                  !.title = call[r].plan[i].title, !.by = <<r, i>>]
  BY <1>1, <1>2 DEF MadeOnGithub
<1> QED
  BY <1>1, <1>3 DEF Absent, Fresh

(* The item of a row is never that of a new one. *)
LEMMA CollectedIsApart ==
    ASSUME WriteInv, NEW r \in Requests, pc[r] = "writing", call[r].op = "create",
           NEW i \in DOMAIN call[r].plan, i \in Pending(r),
           NEW x \in Items \cup {NoItem}, NEW answered \in BOOLEAN, answered => x \in Items,
           Writes(r, i, x, answered), x # NoItem
    PROVE  /\ \A k \in DOMAIN rows[r] : rows[r][k].item # x
           /\ \A j \in Pending(r) \ {i} : call[r].plan[j].prev # x
<1>1. /\ TypeInv /\ ItemsApart(r) /\ InOrder(r)
      /\ RowsBelong(rows[r], call[r].annotation) /\ PreviousBelong(r)
  BY DEF WriteInv, BelongInv, LockInv, CreationsBelong, CreationsInOrder, CreationsWrite, CreateSteps
<1>2. CASE call[r].plan[i].prev = NoItem
  <2>1. answered /\ x \in Items /\ Writes(r, i, x, TRUE)
    BY <1>2, ConstantsAssumption DEF Writes
  <2>2. github[x].by = Nobody
    BY <1>1, <1>2, <2>1, AnsweredWrite
  <2> QED
    BY <1>1, <2>2 DEF RowsBelong, PreviousBelong, Belongs, Pending
<1>3. CASE call[r].plan[i].prev # NoItem
  <2>1. x = call[r].plan[i].prev
    BY <1>3 DEF Writes
  <2>2. \A j \in Pending(r) \ {i} : call[r].plan[j].prev # x
    BY <1>1, <1>3, <2>1 DEF InOrder, Validate, ItemsFit, Pending
  <2> QED
    BY <1>1, <1>3, <2>1, <2>2 DEF ItemsApart
<1> QED
  BY <1>2, <1>3

LEMMA WriteApart ==
    ASSUME WriteInv, NEW r \in Requests, WriteDraftIssue(r)
    PROVE  ItemsApart(r)'
<1>1. TypeInv
  BY DEF WriteInv, BelongInv, LockInv
<1>2. PICK i \in DOMAIN call[r].plan, x \in Items \cup {NoItem}, answered \in BOOLEAN :
        /\ NextItem(r, i)
        /\ Writes(r, i, x, answered)
        /\ answered => x \in Items
        /\ rows' = [rows EXCEPT ![r] = Append(rows[r], RowOf(r, i, x, answered))]
  BY <1>1, WriteStep
<1>3. pc[r] = "writing" /\ call[r].op = "create" /\ call' = call /\ i \in Pending(r)
  BY <1>1, <1>2, WriteStep DEF NextItem
<1>4. TypeInv /\ ItemsApart(r) /\ InOrder(r) /\ PreviousBelong(r)
  BY <1>1, <1>3
  DEF WriteInv, BelongInv, CreationsBelong, CreationsInOrder, CreationsWrite, CreateSteps
<1> DEFINE row == RowOf(r, i, x, answered)
<1>5. row.localId = i /\ row.item = x
  BY DEF RowOf
<1> HIDE DEF row
<1>6. rows' = [rows EXCEPT ![r] = Append(rows[r], row)]
  BY <1>2 DEF row
<1>7. /\ Len(rows[r]) \in Nat
      /\ DOMAIN rows[r] = 1 .. Len(rows[r])
      /\ DOMAIN rows'[r] = 1 .. (Len(rows[r]) + 1)
      /\ \A k \in DOMAIN rows[r] : rows'[r][k] = rows[r][k]
      /\ rows'[r][Len(rows[r]) + 1] = row
  BY <1>4, <1>6, Collected
<1>8. Pending(r)' = Pending(r) \ {i}
  BY <1>5, <1>7, <1>3 DEF Pending, Handled
<1>9. x # NoItem => /\ \A k \in DOMAIN rows[r] : rows[r][k].item # x
                    /\ \A j \in Pending(r) \ {i} : call[r].plan[j].prev # x
  BY <1>2, <1>3, CollectedIsApart
<1>10. ASSUME NEW k \in DOMAIN rows'[r] PROVE
        /\ \A j \in DOMAIN rows'[r] : j # k /\ rows'[r][j].item # NoItem =>
                rows'[r][j].item # rows'[r][k].item
        /\ \A j \in Pending(r) \ {i} : call[r].plan[j].prev # NoItem =>
                call[r].plan[j].prev # rows'[r][k].item
  <2>1. CASE k \in DOMAIN rows[r]
    <3>1. rows'[r][k] = rows[r][k]
      BY <1>7, <2>1
    <3>2. \A j \in DOMAIN rows[r] : j # k /\ rows[r][j].item # NoItem =>
                rows[r][j].item # rows[r][k].item
      BY <1>4, <2>1 DEF ItemsApart
    <3>3. \A j \in Pending(r) : call[r].plan[j].prev # NoItem =>
                call[r].plan[j].prev # rows[r][k].item
      BY <1>4, <2>1 DEF ItemsApart
    <3>4. \A j \in DOMAIN rows'[r] : \/ j \in DOMAIN rows[r] /\ rows'[r][j] = rows[r][j]
                                     \/ rows'[r][j] = row
      BY <1>7
    <3> QED
      BY <1>5, <1>9, <2>1, <3>1, <3>2, <3>3, <3>4
  <2>2. CASE k \notin DOMAIN rows[r]
    <3>1. k = Len(rows[r]) + 1 /\ rows'[r][k] = row
      BY <1>7, <2>2
    <3>2. \A j \in DOMAIN rows'[r] : j # k => j \in DOMAIN rows[r] /\ rows'[r][j] = rows[r][j]
      BY <1>7, <3>1
    <3>3. \A j \in DOMAIN rows[r] : rows[r][j].item # NoItem => rows[r][j].item # x
      BY <1>9
    <3>4. \A j \in Pending(r) \ {i} : call[r].plan[j].prev # NoItem => call[r].plan[j].prev # x
      BY <1>9
    <3> QED
      BY <1>5, <3>1, <3>2, <3>3, <3>4
  <2> QED
    BY <2>1, <2>2
<1> QED
  BY <1>8, <1>10, <1>3 DEF ItemsApart

(* What a creation that met no error has written, item by item.            *)
LEMMA WriteWritten ==
    ASSUME WriteInv, NEW r \in Requests, WriteDraftIssue(r), ~failed'[r]
    PROVE  pc'[r] = "kind" /\ WrittenSoFar(r)'
<1>1. /\ TypeInv /\ WriteInv /\ failed \in [Requests -> BOOLEAN]
      /\ pc \in [Requests -> {"waiting", "inviting", "done"} \cup InSection]
  BY DEF WriteInv, BelongInv, LockInv, TypeInv, TypeOK
<1>2. PICK i \in DOMAIN call[r].plan, x \in Items \cup {NoItem}, answered \in BOOLEAN :
        /\ NextItem(r, i)
        /\ Writes(r, i, x, answered)
        /\ answered => x \in Items
        /\ rows' = [rows EXCEPT ![r] = Append(rows[r], RowOf(r, i, x, answered))]
        /\ pc' = [pc EXCEPT ![r] = IF answered THEN "kind" ELSE "saving"]
        /\ failed' = IF answered THEN failed ELSE [failed EXCEPT ![r] = TRUE]
  BY <1>1, WriteStep
<1>3. pc[r] = "writing" /\ call[r].op = "create" /\ call' = call
  BY <1>1, WriteStep
<1>4. answered /\ ~failed[r] /\ x \in Items /\ pc'[r] = "kind"
  BY <1>1, <1>2
<1>5. Writes(r, i, x, TRUE) /\ i \in Pending(r)
  BY <1>2, <1>4 DEF Writes, NextItem
<1>6. /\ WrittenSoFar(r)
      /\ RowsBelong(rows[r], call[r].annotation)
  BY <1>1, <1>3, <1>4 DEF WriteInv, BelongInv, CreationsBelong, CreationsWrite, CreateSteps
<1> DEFINE row == RowOf(r, i, x, answered)
<1>7. row.localId = i /\ row.item = x /\ row.confirmed
  BY <1>4 DEF RowOf
<1> HIDE DEF row
<1>8. rows' = [rows EXCEPT ![r] = Append(rows[r], row)]
  BY <1>2 DEF row
<1>9. /\ Len(rows[r]) \in Nat
      /\ DOMAIN rows[r] = 1 .. Len(rows[r])
      /\ Len(rows'[r]) = Len(rows[r]) + 1
      /\ DOMAIN rows'[r] = 1 .. (Len(rows[r]) + 1)
      /\ \A k \in DOMAIN rows[r] : rows'[r][k] = rows[r][k]
      /\ rows'[r][Len(rows[r]) + 1] = row
  BY <1>1, <1>8, Collected
<1>10. \A k \in DOMAIN rows[r] : rows[r][k].item # x
  <2>1. x # NoItem
    BY <1>4, ConstantsAssumption
  <2> QED
    BY <1>2, <1>3, <1>5, <2>1, CollectedIsApart
<1>11. \A z \in Items : github[z].by # Nobody =>
          /\ github'[z].kind = github[z].kind
          /\ github'[z].parent = github[z].parent
          /\ z # call[r].plan[i].prev => github'[z].title = github[z].title
  BY <1>1, <1>2, <1>3, WriteOnGithub
<1>12. ASSUME NEW k \in DOMAIN rows[r]
       PROVE  /\ rows[r][k].confirmed
              /\ rows[r][k].item \in Items
              /\ github'[rows[r][k].item].title = github[rows[r][k].item].title
              /\ github'[rows[r][k].item].kind = github[rows[r][k].item].kind
              /\ github'[rows[r][k].item].parent = github[rows[r][k].item].parent
              /\ Carries(rows[r][k].item, call[r].plan, rows[r][k].localId)
  <2>1. rows[r][k].confirmed /\ Carries(rows[r][k].item, call[r].plan, rows[r][k].localId)
    BY <1>3, <1>6 DEF WrittenSoFar, RowWritten
  <2>2. rows[r][k].item # NoItem /\ rows[r][k].item \in Items /\ github[rows[r][k].item].by # Nobody
    BY <1>6, <2>1 DEF RowsBelong, Belongs
  <2>3. rows[r][k].item # call[r].plan[i].prev
    BY <1>5, <1>10, <2>2 DEF Writes
  <2> QED
    BY <1>11, <2>1, <2>2, <2>3
<1>13. github'[x].title = call[r].plan[i].title
  BY <1>1, <1>3, <1>4, <1>5, AnsweredTitle
<1>14. call[r].plan[i].prev = NoItem => github'[x].parent = NoTitle
  BY <1>1, <1>3, <1>4, <1>5, AnsweredWrite
<1>15. \A k \in DOMAIN rows'[r] : k \in DOMAIN rows[r] \/ k = Len(rows'[r])
  BY <1>9
<1>16. \A k \in DOMAIN rows[r] : k # Len(rows'[r])
  BY <1>9
<1>17. ASSUME NEW k \in DOMAIN rows[r] PROVE RowWritten(r, k)'
  <2>1. k # Len(rows'[r]) /\ rows'[r][k] = rows[r][k]
    BY <1>9, <1>16
  <2> QED
    BY <1>3, <1>12, <2>1 DEF RowWritten, Carries
<1>18. ASSUME NEW k \in DOMAIN rows'[r], k = Len(rows'[r]) PROVE RowWritten(r, k)'
  <2>1. rows'[r][k] = row
    BY <1>9, <1>18
  <2> QED
    BY <1>3, <1>4, <1>7, <1>13, <1>14, <1>18, <2>1 DEF RowWritten
<1> QED
  BY <1>4, <1>15, <1>17, <1>18 DEF WrittenSoFar

LEMMA FieldWritten ==
    ASSUME WriteInv, NEW r \in Requests, Fields(r), ~failed'[r]
    PROVE  WrittenSoFar(r)' /\ pc'[r] # "saving"
<1>1. /\ TypeInv /\ failed \in [Requests -> BOOLEAN] /\ github \in [Items -> GithubItem]
      /\ pc \in [Requests -> {"waiting", "inviting", "done"} \cup InSection]
      /\ rows[r] \in Seq(Row)
  BY DEF WriteInv, BelongInv, LockInv, TypeInv, TypeOK
<1>2. pc[r] \in {"kind", "parent"} /\ UNCHANGED <<call, rows>>
  BY <1>1, FieldStep
<1> DEFINE x == Current(r).item
           i == Current(r).localId
<1>3. /\ ItemsApart(r) /\ RowsBelong(rows[r], call[r].annotation)
      /\ ~failed[r] => WrittenSoFar(r)
  BY <1>2 DEF WriteInv, BelongInv, CreationsBelong, CreationsWrite, CreateSteps
<1>4. /\ x \in Items /\ rows[r] # << >>
      /\ Len(rows[r]) \in DOMAIN rows[r] /\ rows[r][Len(rows[r])] = Current(r)
  <2>1. x \in Items /\ rows[r] # << >>
    BY <1>1, <1>2 DEF TypeInv, RowsFit
  <2>2. Len(rows[r]) \in DOMAIN rows[r]
    BY <1>1, <2>1
  <2> QED
    BY <2>1, <2>2 DEF Current
<1>5. /\ \A z \in Items : github'[z].title = github[z].title
      /\ \A z \in Items : z # x => github'[z] = github[z]
  BY <1>1, FieldOnGithub
<1>6. ~failed[r] /\ pc'[r] # "saving"
      /\ \/ SetKind(r) /\ github' = [github EXCEPT ![x].kind = CurrentItem(r).kind]
            /\ pc'[r] = ParentStep(r) /\ pc[r] = "kind"
         \/ SetParent(r) /\ github' = [github EXCEPT ![x].parent = ParentText(r)]
            /\ pc'[r] = "writing" /\ pc[r] = "parent"
  <2>1. CASE SetKind(r)
    <3>1. /\ pc[r] = "kind"
          /\ \/ /\ github' = [github EXCEPT ![x].kind = CurrentItem(r).kind]
                /\ pc' = [pc EXCEPT ![r] = ParentStep(r)]
                /\ UNCHANGED failed
             \/ failed' = [failed EXCEPT ![r] = TRUE]
      BY <2>1 DEF SetKind, Goto, Fail
    <3>2. ParentStep(r) # "saving"
      BY DEF ParentStep
    <3> QED
      BY <1>1, <2>1, <3>1, <3>2
  <2>2. CASE SetParent(r)
    <3>1. /\ pc[r] = "parent"
          /\ \/ /\ github' = [github EXCEPT ![x].parent = ParentText(r)]
                /\ pc' = [pc EXCEPT ![r] = "writing"]
                /\ UNCHANGED failed
             \/ failed' = [failed EXCEPT ![r] = TRUE]
      BY <2>2 DEF SetParent, Goto, Fail
    <3> QED
      BY <1>1, <2>2, <3>1
  <2> QED
    BY <2>1, <2>2 DEF Fields
<1>7. ASSUME NEW k \in DOMAIN rows[r], k # Len(rows[r])
      PROVE  /\ rows[r][k].confirmed
             /\ github'[rows[r][k].item] = github[rows[r][k].item]
             /\ Carries(rows[r][k].item, call[r].plan, rows[r][k].localId)
  <2>1. rows[r][k].confirmed /\ Carries(rows[r][k].item, call[r].plan, rows[r][k].localId)
    BY <1>3, <1>6, <1>7 DEF WrittenSoFar, RowWritten
  <2>2. rows[r][k].item \in Items /\ rows[r][k].item # NoItem
    BY <1>3, <2>1 DEF RowsBelong, Belongs
  <2>3. rows[r][k].item # x
    BY <1>3, <1>4, <1>7, <2>2 DEF ItemsApart
  <2> QED
    BY <1>5, <2>1, <2>2, <2>3
<1>8. /\ Current(r).confirmed
      /\ github[x].title = call[r].plan[i].title
      /\ pc[r] = "parent" => github[x].kind = call[r].plan[i].kind
      /\ pc[r] = "kind" /\ call[r].plan[i].prev = NoItem => github[x].parent = NoTitle
  BY <1>3, <1>4, <1>6 DEF WrittenSoFar, RowWritten
<1>9. github[x] \in GithubItem
  BY <1>1, <1>4
<1>10. ASSUME SetKind(r), github' = [github EXCEPT ![x].kind = CurrentItem(r).kind],
              pc'[r] = ParentStep(r), pc[r] = "kind"
       PROVE  /\ github'[x].kind = call[r].plan[i].kind
              /\ pc'[r] = "writing" => Carries(x, call[r].plan, i)'
              /\ pc'[r] \in {"writing", "parent"}
  <2>1. github'[x].kind = CurrentItem(r).kind /\ github'[x].parent = github[x].parent
    BY <1>1, <1>4, <1>9, <1>10 DEF GithubItem
  <2>2. CurrentItem(r) = call[r].plan[i]
    BY DEF CurrentItem
  <2>3. pc'[r] = "writing" => call[r].plan[i].parent = 0 /\ call[r].plan[i].prev = NoItem
    BY <1>10, <2>2 DEF ParentStep
  <2>4. pc'[r] \in {"writing", "parent"}
    BY <1>10 DEF ParentStep
  <2> QED
    BY <1>2, <1>4, <1>5, <1>8, <1>10, <2>1, <2>2, <2>3, <2>4 DEF Carries, Current
<1>11. ASSUME SetParent(r), github' = [github EXCEPT ![x].parent = ParentText(r)],
              pc'[r] = "writing", pc[r] = "parent"
       PROVE  Carries(x, call[r].plan, i)'
  <2>1. github'[x].parent = ParentText(r) /\ github'[x].kind = github[x].kind
    BY <1>1, <1>4, <1>9, <1>11 DEF GithubItem
  <2>2. ParentText(r) = IF call[r].plan[i].parent = 0 THEN NoTitle
                        ELSE call[r].plan[call[r].plan[i].parent].title
    BY DEF ParentText, CurrentItem
  <2> QED
    BY <1>2, <1>4, <1>5, <1>8, <1>11, <2>1, <2>2 DEF Carries, Current
<1>12. /\ Carries(x, call[r].plan, i)' \/ (pc'[r] = "parent" /\ github'[x].kind = call[r].plan[i].kind)
       /\ pc'[r] # "kind"
  BY <1>6, <1>10, <1>11
<1>13. ASSUME NEW k \in DOMAIN rows[r], k # Len(rows[r]) PROVE RowWritten(r, k)'
  BY <1>2, <1>7, <1>12, <1>13 DEF RowWritten, Carries
<1>14. ASSUME NEW k \in DOMAIN rows[r], k = Len(rows[r]) PROVE RowWritten(r, k)'
  <2>1. rows'[r][k] = Current(r) /\ Current(r)' = Current(r)
    BY <1>2, <1>4, <1>14 DEF Current
  <2>2. github'[x].title = call'[r].plan[i].title
    BY <1>2, <1>4, <1>5, <1>8
  <2> QED
    BY <1>2, <1>8, <1>12, <1>14, <2>1, <2>2 DEF RowWritten, Carries
<1> QED
  BY <1>2, <1>6, <1>13, <1>14 DEF WrittenSoFar

LEMMA StepWrites ==
    ASSUME WriteInv, NEW r \in Requests, Step(r)
    PROVE  CreationsWrite'
<1>1. /\ TypeInv /\ LockInv
      /\ pc \in [Requests -> {"waiting", "inviting", "done"} \cup InSection]
      /\ failed \in [Requests -> BOOLEAN]
      /\ call' = call
  BY CallsStay DEF WriteInv, BelongInv, LockInv, TypeInv, TypeOK
<1> DEFINE Fits(q) ==
        pc[q] \in CreateSteps =>
            /\ pc[q] \in {"writing", "kind", "parent", "saving"} => ItemsApart(q)
            /\ ~failed[q] => WrittenSoFar(q)
            /\ pc[q] = "saving" /\ ~failed[q] => Pending(q) = {}
<1>2. \A q \in Requests : Fits(q)
  BY DEF WriteInv, CreationsWrite
<1>3. ASSUME NEW q \in Requests, UNCHANGED <<github, call>>, rows'[q] = rows[q], pc'[q] = pc[q],
             failed'[q] = failed[q], Fits(q)
      PROVE  Fits(q)'
  <2>1. ItemsApart(q) => ItemsApart(q)'
    BY <1>3 DEF ItemsApart, Pending, Handled
  <2>2. WrittenSoFar(q) => WrittenSoFar(q)'
    <3>1. ASSUME NEW k \in DOMAIN rows[q], RowWritten(q, k) PROVE RowWritten(q, k)'
      BY <1>3, <3>1 DEF RowWritten, Carries
    <3> QED
      BY <1>3, <3>1 DEF WrittenSoFar
  <2>3. Pending(q)' = Pending(q)
    BY <1>3 DEF Pending, Handled
  <2> QED
    BY <1>3, <2>1, <2>2, <2>3
<1>4. ASSUME NEW q \in Requests, pc'[q] \notin CreateSteps PROVE Fits(q)'
  BY <1>4
<1> HIDE DEF Fits
<1>5. ASSUME WriteDraftIssue(r) \/ Fields(r), NEW q \in Requests \ {r} PROVE Fits(q)'
  <2>1. pc'[q] = pc[q]
    <3>1. CASE WriteDraftIssue(r)
      BY <1>1, <3>1, WriteStep
    <3>2. CASE Fields(r)
      BY <1>1, <3>2, FieldStep
    <3> QED
      BY <1>5, <3>1, <3>2
  <2>2. pc[q] \notin CreateSteps
    BY <1>1, <1>5, WriterHoldsTheLock
  <2> QED
    BY <1>4, <2>1, <2>2
<1>6. CASE WriteDraftIssue(r)
  <2>3. ItemsApart(r)'
    BY <1>6, WriteApart
  <2>4. ~failed'[r] => pc'[r] = "kind" /\ WrittenSoFar(r)'
    BY <1>6, WriteWritten
  <2>5. Fits(r)'
    BY <2>3, <2>4 DEF Fits
  <2> QED
    BY <1>5, <1>6, <2>5 DEF CreationsWrite, Fits
<1>7. CASE Fields(r)
  <2>1. pc[r] \in {"kind", "parent"} /\ UNCHANGED <<call, rows>>
    BY <1>1, <1>7, FieldStep
  <2>2. ItemsApart(r)
    BY <1>2, <2>1 DEF Fits, CreateSteps
  <2>3. ItemsApart(r)'
    BY <2>1, <2>2 DEF ItemsApart, Pending, Handled
  <2>4. ~failed'[r] => WrittenSoFar(r)' /\ pc'[r] # "saving"
    BY <1>7, FieldWritten
  <2>5. Fits(r)'
    BY <2>3, <2>4 DEF Fits
  <2> QED
    BY <1>5, <1>7, <2>5 DEF CreationsWrite, Fits
<1>8. CASE Advances(r)
  <2>1. /\ UNCHANGED <<github, call, rows, failed>>
        /\ \A q \in Requests \ {r} : pc'[q] = pc[q]
        /\ \/ pc'[r] \in {"checking", "resolving", "writing"} /\ rows[r] = << >>
           \/ pc[r] = "writing" /\ pc'[r] = "saving" /\ Pending(r) = {}
    BY <1>1, <1>8 DEF Advances, Goto, TypeInv, RowsFit
  <2>2. CASE pc'[r] \in {"checking", "resolving", "writing"} /\ rows[r] = << >>
    <3>1. ItemsApart(r)' /\ WrittenSoFar(r)' /\ pc'[r] # "saving"
      BY <2>1, <2>2 DEF ItemsApart, WrittenSoFar
    <3>2. Fits(r)'
      BY <3>1 DEF Fits
    <3> QED
      BY <1>2, <1>3, <2>1, <3>2 DEF CreationsWrite, Fits
  <2>3. CASE pc[r] = "writing" /\ pc'[r] = "saving" /\ Pending(r) = {}
    <3>1. ItemsApart(r) /\ (~failed[r] => WrittenSoFar(r))
      BY <1>2, <2>3 DEF Fits, CreateSteps
    <3>2. ItemsApart(r)' /\ Pending(r)' = {}
      BY <2>1, <2>3, <3>1 DEF ItemsApart, Pending, Handled
    <3>3. ~failed'[r] => WrittenSoFar(r)'
      BY <2>1, <2>3, <3>1 DEF WrittenSoFar, RowWritten, Carries
    <3>4. Fits(r)'
      BY <3>2, <3>3 DEF Fits
    <3> QED
      BY <1>2, <1>3, <2>1, <3>4 DEF CreationsWrite, Fits
  <2> QED
    BY <2>1, <2>2, <2>3
<1>9. CASE StopsWriting(r)
  <2>1. /\ UNCHANGED <<github, call, rows>> /\ failed'[r] = TRUE
        /\ pc[r] = "writing"
        /\ \A q \in Requests \ {r} : pc'[q] = pc[q] /\ failed'[q] = failed[q]
    BY <1>1, <1>9 DEF StopsWriting, Goto
  <2>2. ItemsApart(r)
    BY <1>2, <2>1 DEF Fits, CreateSteps
  <2>3. ItemsApart(r)'
    BY <2>1, <2>2 DEF ItemsApart, Pending, Handled
  <2>4. Fits(r)'
    BY <2>1, <2>3 DEF Fits
  <2> QED
    BY <1>2, <1>3, <2>1, <2>4 DEF CreationsWrite, Fits
<1>10. CASE Idle(r) \/ Delete(r) \/ SaveRun(r) \/ SaveRunFails(r)
  <2>1. /\ UNCHANGED <<github, call, rows>>
        /\ pc'[r] \notin CreateSteps
        /\ \A q \in Requests \ {r} : pc'[q] = pc[q] /\ failed'[q] = failed[q]
    BY <1>1, <1>10 DEF Idle, Delete, SaveRun, SaveRunFails, Goto, flight, CreateSteps
  <2>2. Fits(r)'
    BY <1>4, <2>1
  <2> QED
    BY <1>2, <1>3, <2>1, <2>2 DEF CreationsWrite, Fits
<1> QED
  BY <1>1, <1>6, <1>7, <1>8, <1>9, <1>10, StepHistory

LEMMA NextWrites ==
    ASSUME WriteInv, [Next]_vars
    PROVE  WriteInv'
<1>1. BelongInv' /\ TypeInv /\ CreationsInOrder'
  BY NextBelong, StepInOrder DEF WriteInv, BelongInv, LockInv
<1>2. CASE Outside
  <2>1. UNCHANGED <<github, call, rows, failed>>
    BY <1>2 DEF Outside
  <2>2. ASSUME NEW q \in Requests, pc'[q] \in CreateSteps
        PROVE  /\ pc[q] = pc'[q]
               /\ ItemsApart(q) => ItemsApart(q)'
               /\ WrittenSoFar(q) => WrittenSoFar(q)'
               /\ Pending(q)' = Pending(q)
    <3>1. pc[q] = pc'[q]
      BY <1>2, <2>2 DEF Outside, CreateSteps
    <3>2. Pending(q)' = Pending(q)
      BY <2>1 DEF Pending, Handled
    <3>3. ItemsApart(q) => ItemsApart(q)'
      BY <2>1, <3>2 DEF ItemsApart
    <3>4. WrittenSoFar(q) => WrittenSoFar(q)'
      BY <2>1, <3>1 DEF WrittenSoFar, RowWritten, Carries
    <3> QED
      BY <3>1, <3>2, <3>3, <3>4
  <2>3. CreationsWrite'
    BY <2>1, <2>2 DEF WriteInv, CreationsWrite
  <2> QED
    BY <1>1, <2>3 DEF WriteInv
<1> QED
  BY <1>1, <1>2, StepWrites, OutsideSteps DEF WriteInv

(* Only a creation of the same annotation writes to an item. *)
LEMMA OnlyItsAnnotation ==
    ASSUME WriteInv, NEW r \in Requests, Step(r), NEW x \in Items,
           github[x].by # Nobody, github'[x] # github[x]
    PROVE  /\ lock = r
           /\ call[r].op = "create"
           /\ call[r].annotation = call[github[x].by[1]].annotation
<1>1. /\ TypeInv /\ OneInSection /\ github \in [Items -> GithubItem]
  BY DEF WriteInv, BelongInv, LockInv, TypeInv, TypeOK
<1>2. WriteDraftIssue(r) \/ Fields(r)
  BY <1>1, StepHistory DEF Idle, Advances, StopsWriting, Delete, SaveRun, SaveRunFails
<1>3. pc[r] \in {"writing", "kind", "parent"}
  BY <1>1, <1>2, WriteStep, FieldStep
<1>4. lock = r /\ call[r].op = "create"
  BY <1>1, <1>3 DEF OneInSection, InSection, CreateSteps, TypeInv, StepFitsCall
<1>5. RowsBelong(rows[r], call[r].annotation) /\ PreviousBelong(r)
  BY <1>3 DEF WriteInv, BelongInv, CreationsBelong, CreateSteps
<1>6. CASE WriteDraftIssue(r)
  <2>1. PICK i \in DOMAIN call[r].plan, y \in Items \cup {NoItem}, answered \in BOOLEAN :
            Writes(r, i, y, answered)
    BY <1>1, <1>6, WriteStep
  <2>2. CASE call[r].plan[i].prev = NoItem
    BY <1>1, <2>1, <2>2 DEF Writes, MadeOnGithub, Fresh, Absent
  <2>3. CASE call[r].plan[i].prev # NoItem
    <3>1. x = call[r].plan[i].prev
      BY <1>1, <2>1, <2>3 DEF Writes
    <3> QED
      BY <1>4, <1>5, <2>3, <3>1 DEF PreviousBelong, Belongs
  <2> QED
    BY <2>2, <2>3
<1>7. CASE Fields(r)
  <2>1. x = Current(r).item
    BY <1>1, <1>7, FieldOnGithub
  <2>2. rows[r] # << >> /\ rows[r] \in Seq(Row)
    BY <1>1, <1>7, FieldStep DEF TypeInv, TypeOK, RowsFit
  <2>3. Len(rows[r]) \in DOMAIN rows[r]
    BY <2>2
  <2>4. x # NoItem
    BY ConstantsAssumption
  <2> QED
    BY <1>4, <1>5, <2>1, <2>3, <2>4 DEF RowsBelong, Belongs, Current
<1> QED
  BY <1>2, <1>6, <1>7

LEMMA CompleteIsWritten ==
    ASSUME WriteInv, NEW q \in Requests, Step(q), NEW r \in Requests, pc[r] = "saving",
           Len(runs') > Len(runs), runs'[Len(runs')].complete,
           NEW i \in DOMAIN call[r].plan
    PROVE  \E k \in DOMAIN rows[r] :
                /\ rows[r][k].localId = i
                /\ rows[r][k].confirmed
                /\ Carries(rows[r][k].item, call[r].plan, i)
<1>1. TypeInv /\ OneInSection /\ runs \in Seq(Run)
  BY DEF WriteInv, BelongInv, LockInv, TypeInv, TypeOK
<1>2. Len(runs) \in Nat /\ Len(<< >>) = 0
  BY <1>1
<1>3. SaveRun(q) /\ runs'[Len(runs) + 1].complete = ~failed[q] /\ Len(runs') = Len(runs) + 1
  BY <1>1, <1>2, HistoryGrows
<1>4. q = r
  <2>1. pc[q] = "saving"
    BY <1>3 DEF SaveRun
  <2> QED
    BY <1>1, <2>1 DEF OneInSection, InSection, CreateSteps
<1>5. ~failed[r]
  BY <1>3, <1>4
<1>6. WrittenSoFar(r) /\ Pending(r) = {}
  BY <1>5 DEF WriteInv, CreationsWrite, CreateSteps
<1>7. i \in Handled(r)
  BY <1>6 DEF Pending
<1>8. PICK k \in DOMAIN rows[r] : rows[r][k].localId = i
  BY <1>7 DEF Handled
<1>9. RowWritten(r, k)
  BY <1>6 DEF WrittenSoFar
<1> QED
  BY <1>8, <1>9 DEF RowWritten

LEMMA StepWritesTheInterpretation ==
    ASSUME WriteInv, [Next]_vars
    PROVE  /\ \A x \in Items : github[x].by # Nobody /\ github'[x] # github[x] =>
                \E r \in Requests :
                    /\ lock = r
                    /\ call[r].op = "create"
                    /\ call[r].annotation = call[github[x].by[1]].annotation
           /\ \A r \in Requests :
                pc[r] = "saving" /\ Len(runs') > Len(runs) /\ runs'[Len(runs')].complete =>
                    \A i \in DOMAIN call[r].plan :
                        \E k \in DOMAIN rows[r] :
                            /\ rows[r][k].localId = i
                            /\ rows[r][k].confirmed
                            /\ Carries(rows[r][k].item, call[r].plan, i)
<1>1. TypeInv /\ runs \in Seq(Run)
  BY DEF WriteInv, BelongInv, LockInv, TypeInv, TypeOK
<1>2. CASE \E q \in Requests : Step(q)
  BY <1>2, OnlyItsAnnotation, CompleteIsWritten
<1>3. CASE UNCHANGED <<github, runs>>
  <2>1. ~(Len(runs) > Len(runs))
    BY <1>1
  <2> QED
    BY <1>3, <2>1
<1> QED
  BY <1>1, <1>2, <1>3, OutsideSteps DEF Outside

-----------------------------------------------------------------------------
(* No draft issue that was made on GitHub is without a trace in the        *)
(* history, whatever fails or crashes between the write and its record.    *)
THEOREM ItemsAreTraced == Spec => []EveryItemTraced
<1>1. TraceInv => EveryItemTraced
  BY TraceFound
<1>2. Init => TraceInv
  BY InitHistory
<1>3. TraceInv /\ [Next]_vars => TraceInv'
  BY NextTrace
<1> QED
  BY <1>1, <1>2, <1>3, PTL DEF Spec

(* The title the panel folds out of the history is that of GitHub, or the  *)
(* item is unsettled: listed as unconfirmed, being written, or lost.       *)
THEOREM FoldIsGitHub == Spec => []FoldShowsGitHub
<1>1. FoldInv => FoldShowsGitHub
  BY DEF FoldInv
<1>2. Init => FoldInv
  BY InitHistory
<1>3. FoldInv /\ [Next]_vars => FoldInv'
  BY NextFold
<1> QED
  BY <1>1, <1>2, <1>3, PTL DEF Spec

(* An annotation decideState calls created holds now what the creation of  *)
(* its latest run was asked to write.                                      *)
THEOREM CreatedIsCurrent == Spec => []CreatedIsWhatWasInterpreted
<1>1. TraceInv => CreatedIsWhatWasInterpreted
  BY CreatedFromHash DEF TraceInv
<1>2. Init => TraceInv
  BY InitHistory
<1>3. TraceInv /\ [Next]_vars => TraceInv'
  BY NextTrace
<1> QED
  BY <1>1, <1>2, <1>3, PTL DEF Spec

(* The branch of applyOne that misses the parent of an issue is never      *)
(* taken, for any plan that was validated.                                 *)
THEOREM ParentsAreWritten == Spec => []ParentAlwaysWritten
<1>1. OrderInv => ParentAlwaysWritten
  BY ParentIsThere DEF OrderInv, LockInv
<1>2. Init => OrderInv
  BY InitHistory
<1>3. OrderInv /\ [Next]_vars => OrderInv'
  BY StepInOrder, NextLockInv DEF OrderInv, LockInv
<1> QED
  BY <1>1, <1>2, <1>3, PTL DEF Spec

(* A creation writes its interpretation: no item of another annotation,    *)
(* and every item of its plan before it is recorded as complete.           *)
THEOREM InterpretationIsWritten == Spec => WritesTheInterpretation
<1>1. Init => WriteInv
  BY InitHistory
<1>2. WriteInv /\ [Next]_vars => WriteInv'
  BY NextWrites
<1>3. WriteInv /\ [Next]_vars =>
        [\A x \in Items :
            github[x].by # Nobody /\ github'[x] # github[x] =>
                \E r \in Requests :
                    /\ lock = r
                    /\ call[r].op = "create"
                    /\ call[r].annotation = call[github[x].by[1]].annotation]_vars
  BY StepWritesTheInterpretation
<1>4. WriteInv /\ [Next]_vars =>
        [\A r \in Requests :
            pc[r] = "saving" /\ Len(runs') > Len(runs) /\ runs'[Len(runs')].complete =>
                \A i \in DOMAIN call[r].plan :
                    \E k \in DOMAIN rows[r] :
                        /\ rows[r][k].localId = i
                        /\ rows[r][k].confirmed
                        /\ Carries(rows[r][k].item, call[r].plan, i)]_vars
  BY StepWritesTheInterpretation
<1> QED
  BY <1>1, <1>2, <1>3, <1>4, PTL
  DEF Spec, WritesTheInterpretation, ItemsStayWithTheirAnnotation, CompleteMeansWritten
=============================================================================
