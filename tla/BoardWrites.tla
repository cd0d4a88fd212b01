----------------------------- MODULE BoardWrites -----------------------------
(***************************************************************************)
(* The operations that BoardLocks serialises on one board: creating draft  *)
(* issues on GitHub (CreationService.Create), choosing the project they go *)
(* to (BoardService.SetTarget), refreshing the names shown for it          *)
(* (RefreshTargetDisplay), deleting the board (BoardService.Delete) and    *)
(* changing or removing a member (BoardMemberService.SetRole, Remove),     *)
(* together with the two that do not take the lock and run in between:     *)
(* saving the scene and inviting a member.                                 *)
(*                                                                         *)
(* A request is one HTTP call.  It performs one operation, step by step:   *)
(* every database statement and every call to GitHub is a step of its own, *)
(* so other requests, a disconnecting client and a crash of the process    *)
(* come in between.  GitHub is external: a call to it succeeds, fails, or  *)
(* takes effect without the answer arriving.                               *)
(*                                                                         *)
(* Locks are per board and every row read or written here belongs to one   *)
(* board, so one board is modelled.                                        *)
(***************************************************************************)
EXTENDS SyncHistory, FiniteSets

CONSTANTS
    Requests,       \* HTTP requests; each is served at most once
    Calls,          \* the operations the requests may ask for
    Users,          \* people
    Founder,        \* who created the board
    Annotations,    \* frames marked as annotations
    Edited,         \* the annotations somebody edits while the requests run
    Hashes,         \* contents an annotation may have
    Projects,       \* GitHub projects
    Titles,         \* titles of items
    Items,          \* ids GitHub hands out (bounds the items it can hold)
    MaxCrashes,     \* bound on crashes of the process
    NoReq, NoProject, NoHash, NoTitle

(* port.BoardRole, ordered as BoardRole.AtLeast compares it. *)
None   == 0
Viewer == 1
Editor == 2
Owner  == 3
Roles  == None .. Owner

Kinds == {"epic", "issue"}

(* One item of an interpretation.  Its localId is its position in the plan; *)
(* parent is the localId of its parent, 0 for none; prev is previousItemId. *)
PlanItem == [kind : Kinds, title : Titles, parent : Nat, prev : Items \cup {NoItem}]

CreateCall == [op : {"create"}, user : Users, annotation : Annotations,
               hash : Hashes, plan : Seq(PlanItem)]
TargetCall == [op : {"target"}, user : Users, project : Projects]
RefreshCall == [op : {"refresh"}, user : Users, project : Projects]
DeleteCall == [op : {"delete"}, user : Users]
RoleCall   == [op : {"setRole"}, user : Users, member : Users, role : Viewer .. Owner]
RemoveCall == [op : {"remove"}, user : Users, member : Users]
InviteCall == [op : {"invite"}, user : Users, member : Users, role : Viewer .. Owner]

ASSUME ConstantsAssumption ==
    /\ Calls \subseteq CreateCall \cup TargetCall \cup RefreshCall \cup DeleteCall
                        \cup RoleCall \cup RemoveCall \cup InviteCall
    /\ Founder \in Users
    /\ Edited \subseteq Annotations
    /\ Items \subseteq Nat
    /\ MaxCrashes \in Nat
    /\ NoReq \notin Requests
    /\ NoItem \notin Items
    /\ NoProject \notin Projects
    /\ NoHash \notin Hashes
    /\ NoTitle \notin Titles

VARIABLES
    lock,       \* the semaphore of the board: the request inside, or NoReq
    exists,     \* the row of the board is there
    role,       \* board_members
    target,     \* boards.project_id
    display,    \* the project whose names the board shows
    content,    \* AnnotationHash of every annotation of the saved scene
    runs,       \* sync_runs and sync_items of the board
    github,     \* what the projects on GitHub really hold
    call,       \* what every request asks for
    pc,         \* how far every request has got
    cancelled,  \* requests whose context has ended
    view,       \* what a creation read of the board when it was authorized
    rows,       \* the sync_items a creation has collected
    failed,     \* creations that met an error while applying items
    lost,       \* creations whose rows never reached the database
    crashes     \* how often the process crashed

board  == <<exists, role, target, display, content>>
flight == <<view, rows, failed>>
vars   == <<lock, board, runs, github, call, pc, cancelled, flight, lost, crashes>>

-----------------------------------------------------------------------------
(* Values *)

Nobody == <<NoReq, 0>>

Absent == [project |-> NoProject, title |-> NoTitle, kind |-> "none",
           parent |-> NoTitle, by |-> Nobody]

NoView == [project |-> NoProject, hash |-> NoHash]

GithubItem == [project : Projects \cup {NoProject}, title : Titles \cup {NoTitle},
               kind : Kinds \cup {"none"}, parent : Titles \cup {NoTitle},
               by : (Requests \cup {NoReq}) \X Nat]

Row == [localId : Nat, item : Items \cup {NoItem}, title : Titles, confirmed : BOOLEAN]

Run == [req : Requests, annotation : Annotations, hash : Hashes,
        complete : BOOLEAN, rows : Seq(Row)]

CreateSteps == {"checking", "resolving", "writing", "kind", "parent", "saving"}

(* Between Acquire and the deferred release. *)
InSection == {"locked", "commit", "release"} \cup CreateSteps

TypeOK ==
    /\ lock \in Requests \cup {NoReq}
    /\ exists \in BOOLEAN
    /\ role \in [Users -> Roles]
    /\ target \in Projects \cup {NoProject}
    /\ display \in Projects \cup {NoProject}
    /\ content \in [Annotations -> Hashes \cup {NoHash}]
    /\ runs \in Seq(Run)
    /\ github \in [Items -> GithubItem]
    /\ call \in [Requests -> Calls]
    /\ pc \in [Requests -> {"waiting", "inviting", "done"} \cup InSection]
    /\ cancelled \in SUBSET Requests
    /\ view \in [Requests -> [project : Projects \cup {NoProject},
                              hash : Hashes \cup {NoHash}]]
    /\ rows \in [Requests -> Seq(Row)]
    /\ failed \in [Requests -> BOOLEAN]
    /\ lost \in SUBSET Requests
    /\ crashes \in 0 .. MaxCrashes

-----------------------------------------------------------------------------
(* The database and the lock, as every operation uses them *)

Access(u, min) == exists /\ role[u] >= min

MemberExists(u) == exists /\ role[u] # None

(* Fault: counting the member who goes. *)
EnsureAnOwner(m) == \E u \in Users : role[u] = Owner

EnsureAnotherOwner(m) == \E u \in Users \ {m} : role[u] = Owner

Goto(r, step) == pc' = [pc EXCEPT ![r] = step]

At(r, step, op) == pc[r] = step /\ call[r].op = op

Init ==
    /\ lock = NoReq
    /\ exists = TRUE
    /\ role = [u \in Users |-> IF u = Founder THEN Owner ELSE None]
    /\ target \in Projects \cup {NoProject}
    /\ display = target
    /\ content \in [Annotations -> Hashes]
    /\ runs = << >>
    /\ github = [x \in Items |-> Absent]
    /\ call \in [Requests -> Calls]
    /\ pc = [r \in Requests |-> "waiting"]
    /\ cancelled = {}
    /\ view = [r \in Requests |-> NoView]
    /\ rows = [r \in Requests |-> << >>]
    /\ failed = [r \in Requests |-> FALSE]
    /\ lost = {}
    /\ crashes = 0

(* Faults: operations that read and write without waiting for the lock. *)
LockFreeOrMember(r) == lock = NoReq \/ call[r].op \in {"setRole", "remove"}

LockFreeOrDelete(r) == lock = NoReq \/ call[r].op = "delete"

LockFreeOrTarget(r) == lock = NoReq \/ call[r].op = "target"

LockFreeOrRefresh(r) == lock = NoReq \/ call[r].op = "refresh"

(* The channel of capacity 1 takes one request. *)
LockFree(r) == lock = NoReq

(* Everything but the invitation queues for the lock of the board. *)
Acquire(r) ==
    /\ pc[r] = "waiting"
    /\ call[r].op # "invite"
    /\ LockFree(r)
    /\ lock' = r
    /\ Goto(r, "locked")
    /\ UNCHANGED <<board, runs, github, call, cancelled, flight, lost, crashes>>

(* Acquire's select also listens to ctx.Done. *)
GiveUp(r) ==
    /\ pc[r] = "waiting"
    /\ r \in cancelled
    /\ Goto(r, "done")
    /\ UNCHANGED <<lock, board, runs, github, call, cancelled, flight, lost, crashes>>

(* Fault: a return that does not release. *)
ReleaseForgotten(r) ==
    /\ pc[r] = "release"
    /\ Goto(r, "done")
    /\ UNCHANGED <<lock, board, runs, github, call, cancelled, flight, lost, crashes>>

(* The deferred release. *)
Release(r) ==
    /\ pc[r] = "release"
    /\ lock' = NoReq
    /\ Goto(r, "done")
    /\ UNCHANGED <<board, runs, github, call, cancelled, flight, lost, crashes>>

(* The client disconnects, or the server cancels what is in flight to stop. *)
Disconnect(r) ==
    /\ pc[r] # "done"
    /\ cancelled' = cancelled \cup {r}
    /\ UNCHANGED <<lock, board, runs, github, call, pc, flight, lost, crashes>>

(* A member saves the scene.  UpdateScene asks for membership only; that   *)
(* the role was editor is read before, and the lock is not taken.          *)
SaveScene ==
    \E u \in Users, a \in Edited, h \in Hashes \cup {NoHash} :
        /\ MemberExists(u)
        /\ h # content[a]
        /\ content' = [content EXCEPT ![a] = h]
        /\ UNCHANGED <<lock, exists, role, target, display, runs, github, call, pc,
                       cancelled, flight, lost, crashes>>

-----------------------------------------------------------------------------
(* SetTarget, Delete, SetRole, Remove: read under the lock, then write     *)

(* Fault: the project may be changed after a run. *)
MaySetTargetAnyTime(c) == Access(c.user, Owner)

MaySetTarget(c) == Access(c.user, Owner) /\ ~TargetLocked(runs)

MayRefresh(c) == Access(c.user, Owner) /\ target # NoProject /\ target = c.project

MayDelete(c) == Access(c.user, Owner)

MaySetRole(c) ==
    /\ Access(c.user, Owner)
    /\ c.role # Owner => EnsureAnotherOwner(c.member)

MayRemove(c) == Access(c.user, Owner) /\ EnsureAnotherOwner(c.member)

(* domain.Validate, as far as creating items depends on it.                *)
ParentsFit(plan) ==
    \A i \in DOMAIN plan :
        plan[i].parent # 0 =>
            /\ plan[i].kind = "issue"
            /\ plan[i].parent \in DOMAIN plan
            /\ plan[plan[i].parent].kind = "epic"

(* No two items rewrite the same one, and no two epics share a title.      *)
ItemsFit(plan) ==
    \A i, j \in DOMAIN plan : i # j =>
        /\ plan[i].prev # NoItem => plan[i].prev # plan[j].prev
        /\ plan[i].kind = "epic" /\ plan[j].kind = "epic" => plan[i].title # plan[j].title

Validate(plan) == plan # << >> /\ ItemsFit(plan) /\ ParentsFit(plan)

MayCreate(c) ==
    /\ Access(c.user, Editor)
    /\ target # NoProject
    /\ content[c.annotation] # NoHash
    /\ c.hash = content[c.annotation]
    /\ Validate(c.plan)

Permitted(c) ==
    CASE c.op = "target"  -> MaySetTarget(c)
      [] c.op = "refresh" -> MayRefresh(c)
      [] c.op = "delete"  -> MayDelete(c)
      [] c.op = "setRole" -> MaySetRole(c)
      [] c.op = "remove"  -> MayRemove(c)
      [] c.op = "create"  -> MayCreate(c)

Refuse(r) ==
    /\ pc[r] = "locked"
    /\ ~Permitted(call[r])
    /\ Goto(r, "release")
    /\ UNCHANGED <<lock, board, runs, github, call, cancelled, flight, lost, crashes>>

(* A statement fails, GitHub does not list the fields or lacks one, or the *)
(* context ended: the operation returns before it has changed anything.    *)
Abort(r) ==
    /\ pc[r] \in {"locked", "commit", "checking", "resolving"}
    /\ Goto(r, "release")
    /\ UNCHANGED <<lock, board, runs, github, call, cancelled, flight, lost, crashes>>

Check(r) ==
    /\ pc[r] = "locked"
    /\ call[r].op # "create"
    /\ Permitted(call[r])
    /\ Goto(r, "commit")
    /\ UNCHANGED <<lock, board, runs, github, call, cancelled, flight, lost, crashes>>

(* UPDATE boards ... WHERE id = ? AND memberExists; the names come along.  *)
SetTarget(r) ==
    /\ At(r, "commit", "target")
    /\ IF MemberExists(call[r].user)
       THEN target' = call[r].project /\ display' = call[r].project
       ELSE UNCHANGED <<target, display>>
    /\ Goto(r, "release")
    /\ UNCHANGED <<lock, exists, role, content, runs, github, call, cancelled,
                   flight, lost, crashes>>

RefreshTargetDisplay(r) ==
    /\ At(r, "commit", "refresh")
    /\ display' = IF MemberExists(call[r].user) THEN call[r].project ELSE display
    /\ Goto(r, "release")
    /\ UNCHANGED <<lock, exists, role, target, content, runs, github, call, cancelled,
                   flight, lost, crashes>>

(* DELETE FROM boards; members, runs and items go with it by cascade. *)
Delete(r) ==
    /\ At(r, "commit", "delete")
    /\ IF MemberExists(call[r].user)
       THEN /\ exists' = FALSE
            /\ role' = [u \in Users |-> None]
            /\ target' = NoProject
            /\ display' = NoProject
            /\ content' = [a \in Annotations |-> NoHash]
            /\ runs' = << >>
       ELSE UNCHANGED <<board, runs>>
    /\ Goto(r, "release")
    /\ UNCHANGED <<lock, github, call, cancelled, flight, lost, crashes>>

(* UPDATE board_members ... WHERE board_id = ? AND user_id = ? *)
SetRole(r) ==
    /\ At(r, "commit", "setRole")
    /\ role' = IF role[call[r].member] = None THEN role
               ELSE [role EXCEPT ![call[r].member] = call[r].role]
    /\ Goto(r, "release")
    /\ UNCHANGED <<lock, exists, target, display, content, runs, github, call, cancelled,
                   flight, lost, crashes>>

Remove(r) ==
    /\ At(r, "commit", "remove")
    /\ role' = [role EXCEPT ![call[r].member] = None]
    /\ Goto(r, "release")
    /\ UNCHANGED <<lock, exists, target, display, content, runs, github, call, cancelled,
                   flight, lost, crashes>>

(* Invite takes no lock: the owner is checked, then the row is inserted    *)
(* unless the member or the missing board stops it.                        *)
CheckInvite(r) ==
    /\ At(r, "waiting", "invite")
    /\ Goto(r, IF Access(call[r].user, Owner) THEN "inviting" ELSE "done")
    /\ UNCHANGED <<lock, board, runs, github, call, cancelled, flight, lost, crashes>>

AddMember(r) ==
    /\ pc[r] = "inviting"
    /\ role' = IF exists /\ role[call[r].member] = None
               THEN [role EXCEPT ![call[r].member] = call[r].role]
               ELSE role
    /\ Goto(r, "done")
    /\ UNCHANGED <<lock, exists, target, display, content, runs, github, call, cancelled,
                   flight, lost, crashes>>

-----------------------------------------------------------------------------
(* CreationService.Create *)

(* access, the annotation of the saved scene, its hash and the plan. *)
Authorize(r) ==
    /\ At(r, "locked", "create")
    /\ MayCreate(call[r])
    /\ view' = [view EXCEPT ![r] = [project |-> target,
                                    hash |-> content[call[r].annotation]]]
    /\ Goto(r, "checking")
    /\ UNCHANGED <<lock, board, runs, github, call, cancelled, rows, failed, lost, crashes>>

(* Fault: an item of any annotation of the board will do. *)
PreviousItemsOnBoard(r) ==
    \A i \in DOMAIN call[r].plan :
        call[r].plan[i].prev # NoItem =>
            \E a \in Annotations : call[r].plan[i].prev \in ListItemsByAnnotation(runs, a)

PreviousItemsKnown(r) ==
    \A i \in DOMAIN call[r].plan :
        call[r].plan[i].prev # NoItem =>
            call[r].plan[i].prev \in ListItemsByAnnotation(runs, call[r].annotation)

CheckPreviousItems(r) ==
    /\ pc[r] = "checking"
    /\ Goto(r, IF PreviousItemsKnown(r) THEN "resolving" ELSE "release")
    /\ UNCHANGED <<lock, board, runs, github, call, cancelled, flight, lost, crashes>>

ResolveFields(r) ==
    /\ pc[r] = "resolving"
    /\ Goto(r, "writing")
    /\ UNCHANGED <<lock, board, runs, github, call, cancelled, flight, lost, crashes>>

Handled(r) == {rows[r][k].localId : k \in DOMAIN rows[r]}

Pending(r) == DOMAIN call[r].plan \ Handled(r)

(* Fault: the order of the plan alone. *)
PrecedesInPlan(plan, i, j) == i < j

(* Epics first, then issues, each in the order of the plan. *)
Precedes(plan, i, j) ==
    \/ plan[i].kind = "epic" /\ plan[j].kind = "issue"
    \/ plan[i].kind = plan[j].kind /\ i < j

NextItem(r, i) ==
    /\ i \in Pending(r)
    /\ \A j \in Pending(r) \ {i} : Precedes(call[r].plan, i, j)

(* ctx.Err() before an item: what is done is kept, nothing new is begun. *)
Stop(r) ==
    /\ pc[r] = "writing"
    /\ Pending(r) # {}
    /\ r \in cancelled
    /\ failed' = [failed EXCEPT ![r] = TRUE]
    /\ Goto(r, IF rows[r] = << >> THEN "release" ELSE "saving")
    /\ UNCHANGED <<lock, board, runs, github, call, cancelled, view, rows, lost, crashes>>

Finish(r) ==
    /\ pc[r] = "writing"
    /\ Pending(r) = {}
    /\ Goto(r, "saving")
    /\ UNCHANGED <<lock, board, runs, github, call, cancelled, flight, lost, crashes>>

Fail(r) == failed' = [failed EXCEPT ![r] = TRUE] /\ Goto(r, "saving")

Collect(r, i, x, answered) ==
    rows' = [rows EXCEPT ![r] =
                Append(@, [localId |-> i, item |-> x,
                           title |-> call[r].plan[i].title, confirmed |-> answered])]

Answered(r, i, x) ==
    /\ Collect(r, i, x, TRUE)
    /\ Goto(r, "kind")
    /\ UNCHANGED failed

(* Fault: the failing item is not collected. *)
UnansweredDropped(r, i, x) == UNCHANGED rows /\ Fail(r)

(* An error after which the item may or may not be on GitHub. *)
Unanswered(r, i, x) == Collect(r, i, x, FALSE) /\ Fail(r)

(* GitHub hands out ids in the order it creates items. *)
Fresh(x) ==
    /\ github[x] = Absent
    /\ \A y \in Items : github[y] = Absent => x <= y

CreateDraftIssue(r, i) ==
    /\ call[r].plan[i].prev = NoItem
    /\ \/ \E x \in Items :
            /\ Fresh(x)
            /\ github' = [github EXCEPT ![x] =
                            [Absent EXCEPT !.project = view[r].project,
                                           !.title = call[r].plan[i].title,
                                           !.by = <<r, i>>]]
            /\ Answered(r, i, x) \/ Unanswered(r, i, NoItem)
       \/ UNCHANGED github /\ Unanswered(r, i, NoItem)

UpdateDraftIssue(r, i) ==
    LET x == call[r].plan[i].prev IN
    /\ x # NoItem
    /\ \/ /\ github' = [github EXCEPT ![x].title = call[r].plan[i].title]
          /\ Answered(r, i, x) \/ Unanswered(r, i, x)
       \/ UNCHANGED github /\ Unanswered(r, i, x)

(* The write runs under a context of its own, so only the check before it  *)
(* sees that the client has gone.                                          *)
WriteDraftIssue(r) ==
    /\ pc[r] = "writing"
    /\ r \notin cancelled
    /\ \E i \in DOMAIN call[r].plan :
        /\ NextItem(r, i)
        /\ CreateDraftIssue(r, i) \/ UpdateDraftIssue(r, i)
    /\ UNCHANGED <<lock, board, runs, call, cancelled, view, lost, crashes>>

Current(r) == rows[r][Len(rows[r])]

CurrentItem(r) == call[r].plan[Current(r).localId]

(* Fault: an updated item keeps the parent it had. *)
ParentStepWithoutClearing(r) == IF CurrentItem(r).parent = 0 THEN "writing" ELSE "parent"

(* A new item has no parent to clear. *)
ParentStep(r) ==
    IF CurrentItem(r).parent = 0 /\ CurrentItem(r).prev = NoItem THEN "writing" ELSE "parent"

SetKind(r) ==
    LET written == [github EXCEPT ![Current(r).item].kind = CurrentItem(r).kind] IN
    /\ pc[r] = "kind"
    /\ \/ github' = written /\ Goto(r, ParentStep(r)) /\ UNCHANGED failed
       \/ github' \in {github, written} /\ Fail(r)
    /\ UNCHANGED <<lock, board, runs, call, cancelled, view, rows, lost, crashes>>

(* epicTitles has an entry for every epic already written. *)
ParentWritten(r) ==
    /\ CurrentItem(r).parent \in Handled(r)
    /\ call[r].plan[CurrentItem(r).parent].kind = "epic"

ParentText(r) ==
    IF CurrentItem(r).parent = 0 THEN NoTitle
    ELSE call[r].plan[CurrentItem(r).parent].title

(* "parent %q of %q was not created": the item stays without one. *)
ParentMissing(r) == CurrentItem(r).parent # 0 /\ ~ParentWritten(r)

SetParent(r) ==
    LET written == [github EXCEPT ![Current(r).item].parent = ParentText(r)] IN
    /\ pc[r] = "parent"
    /\ IF ParentMissing(r) THEN UNCHANGED github /\ Fail(r)
       ELSE \/ github' = written /\ Goto(r, "writing") /\ UNCHANGED failed
            \/ github' \in {github, written} /\ Fail(r)
    /\ UNCHANGED <<lock, board, runs, call, cancelled, view, rows, lost, crashes>>

(* Fault: the hash of the scene at the time of saving. *)
RecordedHashOfNow(r) == content[call[r].annotation]

RecordedHash(r) == view[r].hash

(* SaveRun inserts the run and its items in one transaction. *)
SaveRun(r) ==
    /\ pc[r] = "saving"
    /\ exists
    /\ runs' = Append(runs, [req |-> r, annotation |-> call[r].annotation,
                             hash |-> RecordedHash(r), complete |-> ~failed[r],
                             rows |-> rows[r]])
    /\ Goto(r, "release")
    /\ UNCHANGED <<lock, board, github, call, cancelled, flight, lost, crashes>>

(* The transaction fails or takes too long: the ids go to the log only. *)
SaveRunFails(r) ==
    /\ pc[r] = "saving"
    /\ lost' = lost \cup {r}
    /\ Goto(r, "release")
    /\ UNCHANGED <<lock, board, runs, github, call, cancelled, flight, crashes>>

-----------------------------------------------------------------------------
(* The process dies: lock and requests in flight are gone, the database    *)
(* and GitHub stay.  Requests still waiting reach the restarted process.   *)
Crash ==
    /\ crashes < MaxCrashes
    /\ crashes' = crashes + 1
    /\ lock' = NoReq
    /\ pc' = [r \in Requests |-> IF pc[r] = "waiting" THEN "waiting" ELSE "done"]
    /\ lost' = lost \cup {r \in Requests : pc[r] \in CreateSteps /\ rows[r] # << >>}
    /\ UNCHANGED <<board, runs, github, call, cancelled, flight>>

(* Every request has its answer and nobody sends another one. *)
AllServed == (\A r \in Requests : pc[r] = "done") /\ UNCHANGED vars

(* The steps of a request that the server takes by itself. *)
Step(r) ==
    \/ Acquire(r) \/ GiveUp(r) \/ Release(r)
    \/ Refuse(r) \/ Abort(r) \/ Check(r)
    \/ SetTarget(r) \/ RefreshTargetDisplay(r) \/ Delete(r) \/ SetRole(r) \/ Remove(r)
    \/ CheckInvite(r) \/ AddMember(r)
    \/ Authorize(r) \/ CheckPreviousItems(r) \/ ResolveFields(r)
    \/ Stop(r) \/ Finish(r) \/ WriteDraftIssue(r)
    \/ SetKind(r) \/ SetParent(r)
    \/ SaveRun(r) \/ SaveRunFails(r)

Next ==
    \/ \E r \in Requests : Step(r) \/ Disconnect(r)
    \/ SaveScene
    \/ Crash
    \/ AllServed

Spec == Init /\ [][Next]_vars

(* Every call to GitHub and every statement runs under a deadline          *)
(* (itemWriteTimeout, saveRunTimeout), so a request that can move moves.   *)
(* A waiting request needs no more: the lock is asked for finitely often.  *)
FairSpec == Spec /\ \A r \in Requests : WF_vars(Step(r))

-----------------------------------------------------------------------------
(* Properties *)

(* The operations that read before they write never overlap on a board:    *)
(* whoever is between Acquire and the release is the one inside the lock.  *)
OneInSection == \A r \in Requests : pc[r] \in InSection <=> lock = r

(* From its authorization until its run is saved, nothing takes the ground *)
(* from under a creation: its board still exists, its user may still edit  *)
(* it, and the project it writes to is still the one of the board.         *)
CreationKeepsItsGround ==
    \A r \in Requests : pc[r] \in CreateSteps =>
        /\ Access(call[r].user, Editor)
        /\ view[r].project = target
        /\ target # NoProject

(* Every item a run claims to have written is in the project the board     *)
(* points to: the project is never changed under a run (ADR 0014).         *)
RecordedInTarget ==
    \A p \in ConfirmedRows(runs) : github[RowAt(runs, p).item].project = target

(* No draft issue is left on GitHub without a trace.  Whatever a creation  *)
(* made there is in the folded history of its annotation or in the list of *)
(* unconfirmed writes, where the panel shows it even after the frame was   *)
(* deleted; or its creation is still running.  The one exception is a      *)
(* creation whose run could not be saved.                                  *)
InScene == {a \in Annotations : content[a] # NoHash}

Listed(a) == a \in InScene \cup DetachedAnnotations(runs, InScene)

Traced(x) ==
    LET r == github[x].by[1]
        i == github[x].by[2]
    IN  \/ r \in lost
        \/ pc[r] \in CreateSteps /\ i \in Handled(r)
        \/ /\ Listed(call[r].annotation)
           /\ \/ x \in ListItemsByAnnotation(runs, call[r].annotation)
              \/ \E p \in ListUnconfirmed(runs) :
                    runs[p[1]].req = r /\ RowAt(runs, p).localId = i

EveryItemTraced ==
    exists => \A x \in Items : github[x].by # Nobody => Traced(x)

(* What the panel shows of an item is what GitHub has: the newest          *)
(* confirmed row carries its title, unless a later write to the item is    *)
(* listed as unconfirmed, still running, or was lost with its run.         *)
Unsettled(x) ==
    \/ \E p \in ListUnconfirmed(runs) : RowAt(runs, p).item = x
    \/ \E r \in Requests :
        /\ pc[r] \in CreateSteps \/ r \in lost
        /\ \E k \in DOMAIN rows[r] : rows[r][k].item = x

FoldShowsGitHub ==
    \A p \in FoldedRows(runs) :
        \/ github[RowAt(runs, p).item].title = RowAt(runs, p).title
        \/ Unsettled(RowAt(runs, p).item)

(* An annotation is shown as created only if its frame now holds what the  *)
(* interpretation was made from, even if the scene was saved while the     *)
(* creation was running.                                                   *)
CreatedIsWhatWasInterpreted ==
    \A a \in Annotations :
        DecideState(runs, a, content[a]) = Created =>
            \E n \in DOMAIN runs :
                /\ runs[n].annotation = a
                /\ IsLatestRun(runs, n)
                /\ call[runs[n].req].hash = content[a]

(* The comment on applyOne says it: epics go first and the interpretation  *)
(* was validated, so the parent of an issue is always there.               *)
ParentAlwaysWritten ==
    \A r \in Requests :
        pc[r] = "parent" => ~ParentMissing(r)

(* The names a board shows are those of the project it points to, even if  *)
(* the project is chosen anew while somebody refreshes the names.          *)
DisplayBelongsToTarget == display = target

(* A board that exists has an owner, whatever its owners do to each other. *)
KeepsAnOwner == exists => \E u \in Users : role[u] = Owner

(* An item on GitHub changes only on behalf of the annotation that made    *)
(* it, whatever previousItemId a request carries.                          *)
ItemsStayWithTheirAnnotation ==
    [][\A x \in Items :
        github[x].by # Nobody /\ github'[x] # github[x] =>
            \E r \in Requests :
                /\ lock = r
                /\ call[r].op = "create"
                /\ call[r].annotation = call[github[x].by[1]].annotation]_vars

(* A run recorded as complete has every item of its plan on GitHub, with   *)
(* title, kind and the title of its parent.                                *)
Carries(x, plan, i) ==
    /\ github[x].title = plan[i].title
    /\ github[x].kind = plan[i].kind
    /\ github[x].parent = IF plan[i].parent = 0 THEN NoTitle
                          ELSE plan[plan[i].parent].title

CompleteMeansWritten ==
    [][\A r \in Requests :
        pc[r] = "saving" /\ Len(runs') > Len(runs) /\ runs'[Len(runs')].complete =>
            \A i \in DOMAIN call[r].plan :
                \E k \in DOMAIN rows[r] :
                    /\ rows[r][k].localId = i
                    /\ rows[r][k].confirmed
                    /\ Carries(rows[r][k].item, call[r].plan, i)]_vars

(* What a creation writes is its interpretation: all of it before it is    *)
(* recorded as complete, and no item of another annotation.                *)
WritesTheInterpretation == ItemsStayWithTheirAnnotation /\ CompleteMeansWritten

(* Nobody queues for ever: every request is answered, whoever disconnects, *)
(* fails or crashes in front of it.                                        *)
EveryRequestServed ==
    \A r \in Requests : pc[r] = "waiting" ~> pc[r] = "done"

(* The board, step by step, keeps the promise TargetBinding states: a run  *)
(* fixes the project, and what it records lies in it.                      *)
RecordedItems == {RowAt(runs, p).item : p \in ConfirmedRows(runs)}

Binding ==
    INSTANCE TargetBinding WITH
        fixed    <- TargetLocked(runs),
        recorded <- RecordedItems,
        home     <- [x \in Items |-> github[x].project]

BindingKept == Binding!Spec

=============================================================================
