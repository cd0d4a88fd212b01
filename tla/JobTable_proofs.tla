--------------------------- MODULE JobTable_proofs ---------------------------
(***************************************************************************)
(* What the job table and the limiter keep, for every set of starts, users *)
(* and inputs and every limit: one run per input, an answer that is about  *)
(* the current scene, slots that follow the runs, and an exact rate limit. *)
(***************************************************************************)
EXTENDS JobTable, WindowLemmas

InSection(r) == pc[r] \in {"prepare", "lookup", "enter"}

(* Whoever is inside start holds the mutex of its table. *)
SectionHeld == \A r \in Starts : InSection(r) => mutex[KindOf(r)] = r

(* The goroutine of a job and the entry of the job agree. *)
JobsFit ==
    \A j \in Starts :
        /\ status[j] = "none" <=> run[j] = "none"
        /\ status[j] = "running" <=> run[j] \in {"calling", "returned", "released"}
        /\ run[j] \in {"returned", "released", "over"} => result[j] # "none"
        /\ run[j] # "none" => pc[j] = "done"
        /\ j \in table => run[j] # "none"
        /\ startedAt[j] <= clock

(* Whoever found no twin and holds the mutex still has none. *)
NoTwinYet == \A r \in Starts : pc[r] = "enter" => Twins(r) = {}

(* What a start works on was there after its arrival. *)
SeenIsCurrent ==
    \A r \in Starts : KindOf(r) = "interpretation" =>
        /\ pc[r] \in {"waiting", "prepare"} => content[TopicOf(r)] \in since[r]
        /\ pc[r] \in {"lookup", "enter"} => seen[r] \in since[r]

(* Whoever has an answer is done, and so is the start of the job in it. *)
AnswersSettled ==
    \A r \in Starts : answer[r] # Nobody => pc[r] = "done" /\ pc[answer[r]] = "done"

Begun == {j \in Starts : run[j] # "none"}

(* The runs the limiter has counted are in the order they began, and those *)
(* that are still young are among them.                                    *)
WindowInOrder ==
    \A a \in Actors : \A m, n \in DOMAIN recent[a] :
        m <= n => startedAt[recent[a][m]] <= startedAt[recent[a][n]]

WindowIsFull ==
    RateLimit > 0 => \A a \in Actors :
        /\ Len(recent[a]) <= RateLimit
        /\ \A j \in Launched(a) : clock < startedAt[j] + RateWindow =>
                \E n \in DOMAIN recent[a] : recent[a][n] = j

SlotInv == IsFiniteSet(Begun) /\ SlotsMatchRuns

WindowInv == OnlyRunsCount /\ WindowInOrder /\ WindowIsFull

JobInv ==
    /\ TypeOK /\ SectionHeld /\ JobsFit
    /\ SlotInv
    /\ NoTwinYet /\ OneRunPerInput
    /\ AnswersSettled /\ SeenIsCurrent /\ AnswerIsCurrent
    /\ WindowInv

-----------------------------------------------------------------------------
(* The window *)

(* Dropping from the front leaves the end of the sequence, from the first  *)
(* that is younger than the age.                                           *)
LEMMA DropOlderFacts ==
    ASSUME NEW runs \in Seq(Starts), NEW age \in Nat, TypeOK
    PROVE  \E k \in 0 .. Len(runs) :
            /\ DropOlder(runs, age) = SubSeq(runs, k + 1, Len(runs))
            /\ \A i \in 1 .. k : startedAt[runs[i]] + age <= clock
<1> DEFINE n == Len(runs)
           Old(i) == startedAt[runs[i]] + age <= clock
           OldOnes == {i \in 1 .. n : Old(i)}
           First(k) == (\A i \in 1 .. k : Old(i)) /\ (k < n => ~Old(k + 1))
<1>1. n \in Nat
  BY LenProperties
<1>2. PICK k \in 0 .. n : 1 .. k \subseteq OldOnes /\ (k < n => k + 1 \notin OldOnes)
  <2> HIDE DEF n, Old
  <2> QED
    BY <1>1, FirstKept
<1>3. First(k)
  <2> HIDE DEF Old, n
  <2> QED
    BY <1>1, <1>2
<1> DEFINE c == CHOOSE m \in 0 .. n : First(m)
<1>4. c \in 0 .. n /\ First(c)
  <2> HIDE DEF First, n
  <2> QED
    BY <1>2, <1>3
<1>5. DropOlder(runs, age) = SubSeq(runs, c + 1, n)
  BY DEF DropOlder
<1> QED
  BY <1>4, <1>5

(* What is within the window: a sequence of runs, the young ones among     *)
(* them, each at some place of what it was taken from.                     *)
LEMMA WindowFacts ==
    ASSUME NEW runs \in Seq(Starts), TypeOK
    PROVE  \E k \in 0 .. Len(runs) :
            /\ WithinWindow(runs) \in Seq(Starts)
            /\ Len(WithinWindow(runs)) = Len(runs) - k
            /\ \A i \in 1 .. Len(runs) - k : WithinWindow(runs)[i] = runs[k + i]
            /\ \A i \in 1 .. k : startedAt[runs[i]] + RateWindow <= clock
<1>1. PICK k \in 0 .. Len(runs) :
        /\ DropOlder(runs, RateWindow) = SubSeq(runs, k + 1, Len(runs))
        /\ \A i \in 1 .. k : startedAt[runs[i]] + RateWindow <= clock
  BY DropOlderFacts, JobAssumption
<1>2. Len(runs) \in Nat /\ \A i \in 1 .. Len(runs) : runs[i] \in Starts
  BY LenProperties, ElementOfSeq
<1> DEFINE w == SubSeq(runs, k + 1, Len(runs))
<1>3. /\ w \in Seq(Starts)
      /\ Len(w) = IF k + 1 <= Len(runs) THEN Len(runs) - (k + 1) + 1 ELSE 0
      /\ \A i \in 1 .. Len(runs) - (k + 1) + 1 : w[i] = runs[k + 1 + i - 1]
  BY <1>2, SubSeqProperties
<1>4. Len(w) = Len(runs) - k /\ \A i \in 1 .. Len(runs) - k : w[i] = runs[k + i]
  BY <1>2, <1>3
<1> QED
  BY <1>1, <1>3, <1>4 DEF WithinWindow

-----------------------------------------------------------------------------
(* Types, the mutex and the life of a job *)

LEMMA CountAtMost ==
    ASSUME TypeOK, SlotInv, NEW j \in Starts, HoldsSlot(j)
    PROVE  running[ActorOf(j)] \in 1 .. MaxConcurrent
<1> DEFINE H == {i \in Starts : HoldsSlot(i) /\ ActorOf(i) = ActorOf(j)}
<1>1. ActorOf(j) \in Actors
  BY DEF TypeOK, ActorOf, Ask
<1>2. H \subseteq Begun /\ IsFiniteSet(H) /\ j \in H
  BY FS_Subset DEF SlotInv, Begun, HoldsSlot
<1>3. running[ActorOf(j)] = Cardinality(H)
  BY <1>1 DEF SlotInv, SlotsMatchRuns
<1>4. Cardinality(H) # 0 /\ Cardinality(H) \in Nat
  BY <1>2, FS_EmptySet, FS_CardinalityType
<1> QED
  BY <1>1, <1>3, <1>4 DEF TypeOK

LEMMA TypesKept ==
    ASSUME TypeOK, SlotInv, [Next]_vars
    PROVE  TypeOK'
<1>0. clock \in Nat /\ MaxTime \in Nat /\ MaxConcurrent \in Nat /\ MaxAttempts \in Nat /\ RateLimit \in Nat
  BY JobAssumption DEF TypeOK, Times
<1>w. \A r \in Starts : WithinWindow(recent[ActorOf(r)]) \in Seq(Starts)
  BY WindowFacts DEF TypeOK, ActorOf, Ask
<1> USE DEF starts, jobs, llm, limits
<1>1. CASE Tick
  BY <1>0, <1>1 DEF TypeOK, Tick, Times
<1>2. ASSUME NEW t \in Topics, Save(t) PROVE TypeOK'
  BY <1>2 DEF TypeOK, Save
<1>3. ASSUME NEW r \in Starts, Arrive(r) PROVE TypeOK'
  BY <1>3 DEF TypeOK, Arrive, TopicOf, Ask
<1>4. ASSUME NEW r \in Starts, Lock(r) PROVE TypeOK'
  BY <1>4 DEF TypeOK, Lock, Swept, KindOf, Ask
<1>5. ASSUME NEW r \in Starts, Prepare(r) PROVE TypeOK'
  BY <1>5 DEF TypeOK, Prepare, KindOf, TopicOf, Ask
<1>6. ASSUME NEW r \in Starts, PrepareFails(r) PROVE TypeOK'
  BY <1>6 DEF TypeOK, PrepareFails, Answer, KindOf, Ask
<1>7. ASSUME NEW r \in Starts, Join(r) \/ NoTwin(r) PROVE TypeOK'
  <2>1. CASE Join(r)
    <3>1. PICK j \in Starts : Answer(r, j)
      BY <2>1 DEF TypeOK, Join, Twins
    <3> QED
      BY <2>1, <3>1 DEF TypeOK, Join, Answer, KindOf, Ask
  <2>2. CASE NoTwin(r)
    BY <2>2 DEF TypeOK, NoTwin
  <2> QED
    BY <1>7, <2>1, <2>2
<1>8. ASSUME NEW r \in Starts, RefuseFull(r) \/ RefuseOften(r) PROVE TypeOK'
  <2>1. recent' \in [Actors -> Seq(Starts)]
    BY <1>w, <1>8 DEF TypeOK, RefuseFull, RefuseOften, CountedWhenFull
  <2>2. Answer(r, Nobody) /\ UNCHANGED <<seen, jobs, llm, running>>
    BY <1>8 DEF RefuseFull, RefuseOften
  <2> QED
    BY <2>1, <2>2 DEF TypeOK, Answer, KindOf, Ask
<1>9. ASSUME NEW r \in Starts, Launch(r) PROVE TypeOK'
  <2>1. ActorOf(r) \in Actors
    BY DEF TypeOK, ActorOf, Ask
  <2>2. Append(WithinWindow(recent[ActorOf(r)]), r) \in Seq(Starts)
    BY <1>w, AppendProperties
  <2>3. recent' \in [Actors -> Seq(Starts)]
    BY <1>9, <2>1, <2>2 DEF TypeOK, Launch
  <2>4. running' \in [Actors -> 0 .. MaxConcurrent]
    BY <1>0, <1>9, <2>1 DEF TypeOK, Launch, Full
  <2>5. 1 \in 0 .. MaxAttempts
    BY JobAssumption
  <2> QED
    BY <1>9, <2>3, <2>4, <2>5 DEF TypeOK, Launch, Answer, KindOf, Ask
<1>10. ASSUME NEW k \in Kinds, Look(k) PROVE TypeOK'
  BY <1>10 DEF TypeOK, Look, Swept
<1>11. ASSUME NEW j \in Starts, Discard(j) \/ TimeOut(j) PROVE TypeOK'
  BY <1>11 DEF TypeOK, Discard, TimeOut
<1>12. ASSUME NEW j \in Starts, CallReturns(j) \/ CallFails(j) PROVE TypeOK'
  BY <1>12 DEF TypeOK, CallReturns, CallFails, Returns
<1>13. ASSUME NEW j \in Starts, CallAgain(j) PROVE TypeOK'
  <2>1. attempts[j] + 1 \in 0 .. MaxAttempts
    BY <1>0, <1>13 DEF TypeOK, CallAgain, AttemptsLeft
  <2> QED
    BY <1>13, <2>1 DEF TypeOK, CallAgain
<1>14. ASSUME NEW j \in Starts, Release(j) PROVE TypeOK'
  <2>1. running[ActorOf(j)] - 1 \in 0 .. MaxConcurrent
    BY <1>0, <1>14, CountAtMost DEF Release, HoldsSlot
  <2> QED
    BY <1>14, <2>1 DEF TypeOK, Release
<1>15. ASSUME NEW j \in Starts, Finish(j) PROVE TypeOK'
  <2>1. result[j] \in {"none", "running", "succeeded", "failed"}
    BY DEF TypeOK
  <2> QED
    BY <1>15, <2>1 DEF TypeOK, Finish, ReleasedOnce
<1>16. CASE UNCHANGED vars
  BY <1>16 DEF TypeOK, vars
<1> QED
  BY <1>1, <1>2, <1>3, <1>4, <1>5, <1>6, <1>7, <1>8, <1>9, <1>10, <1>11, <1>12, <1>13, <1>14,
     <1>15, <1>16 DEF Next, Serve

(* What a step does to the places of starts and to the mutex. *)
LEMMA SectionKept ==
    ASSUME TypeOK, SectionHeld, [Next]_vars
    PROVE  SectionHeld'
<1> USE DEF SectionHeld, InSection, KindOf, starts
<1>1. ASSUME NEW r \in Starts, NEW j, Answer(r, j), InSection(r) PROVE SectionHeld'
  BY <1>1 DEF Answer, TypeOK, Ask
<1>2. ASSUME NEW r \in Starts, Arrive(r) PROVE SectionHeld'
  BY <1>2 DEF Arrive, TypeOK, Ask
<1>3. ASSUME NEW r \in Starts, Lock(r) PROVE SectionHeld'
  BY <1>3, JobAssumption DEF Lock, MutexFree, TypeOK, Ask
<1>4. ASSUME NEW r \in Starts, Prepare(r) PROVE SectionHeld'
  BY <1>4 DEF Prepare, TypeOK, Ask
<1>5. ASSUME NEW r \in Starts, NoTwin(r) PROVE SectionHeld'
  BY <1>5 DEF NoTwin, TypeOK, Ask
<1>6. ASSUME NEW r \in Starts,
             PrepareFails(r) \/ Join(r) \/ RefuseFull(r) \/ RefuseOften(r) \/ Launch(r)
      PROVE SectionHeld'
  <2>1. InSection(r) /\ \E j : Answer(r, j)
    BY <1>6 DEF PrepareFails, Join, RefuseFull, RefuseOften, Launch
  <2> QED
    BY <1>1, <2>1
<1>7. CASE UNCHANGED <<pc, asked, mutex>>
  BY <1>7
<1> QED
  BY <1>2, <1>3, <1>4, <1>5, <1>6, <1>7
  DEF Next, Serve, Tick, Save, Look, Discard, TimeOut, CallReturns, CallFails, Returns, CallAgain,
      Release, Finish, vars

(* A job is entered by its own start, which was no job before. *)
LEMMA LifeKept ==
    ASSUME TypeOK, JobsFit, [Next]_vars
    PROVE  JobsFit'
<1> USE DEF JobsFit, starts, jobs, llm
<1>0. clock \in Nat /\ clock' \in Nat /\ clock <= clock'
  BY JobAssumption
  DEF TypeOK, Times, Next, Serve, Tick, Save, Arrive, Lock, Prepare, PrepareFails, Join, NoTwin,
      RefuseFull, RefuseOften, Launch, Answer, Look, Discard, TimeOut, CallReturns, CallFails, Returns,
      CallAgain, Release, Finish, vars
<1>k. \A j \in Starts : startedAt[j] \in Nat
  BY JobAssumption DEF TypeOK, Times
<1>1. CASE Tick
  BY <1>0, <1>1, <1>k DEF Tick
<1>2. ASSUME NEW t \in Topics, Save(t) PROVE JobsFit'
  BY <1>2 DEF Save
<1>3. ASSUME NEW r \in Starts, Arrive(r) \/ Lock(r) \/ Prepare(r) \/ NoTwin(r) PROVE JobsFit'
  BY <1>3 DEF Arrive, Lock, Swept, Prepare, NoTwin, TypeOK
<1>4. ASSUME NEW r \in Starts, PrepareFails(r) \/ Join(r) \/ RefuseFull(r) \/ RefuseOften(r) PROVE JobsFit'
  BY <1>4 DEF PrepareFails, Join, RefuseFull, RefuseOften, Answer, TypeOK
<1>5. ASSUME NEW r \in Starts, Launch(r) PROVE JobsFit'
  BY <1>0, <1>5 DEF Launch, Answer, TypeOK
<1>6. ASSUME NEW k \in Kinds, Look(k) PROVE JobsFit'
  BY <1>6 DEF Look, Swept
<1>7. ASSUME NEW j \in Starts, Discard(j) \/ TimeOut(j) \/ CallAgain(j) PROVE JobsFit'
  BY <1>7 DEF Discard, TimeOut, CallAgain
<1>8. ASSUME NEW j \in Starts, CallReturns(j) \/ CallFails(j) \/ Release(j) PROVE JobsFit'
  BY <1>8 DEF CallReturns, CallFails, Returns, Release, TypeOK
<1>9. ASSUME NEW j \in Starts, Finish(j) PROVE JobsFit'
  BY <1>9 DEF Finish, Finishable, TypeOK
<1>10. CASE UNCHANGED vars
  BY <1>10 DEF vars
<1> QED
  BY <1>1, <1>2, <1>3, <1>4, <1>5, <1>6, <1>7, <1>8, <1>9, <1>10 DEF Next, Serve

-----------------------------------------------------------------------------
(* Slots *)

HoldersOf(a) == {j \in Starts : HoldsSlot(j) /\ ActorOf(j) = a}

LEMMA SlotsKept ==
    ASSUME TypeOK, JobsFit, SlotInv, [Next]_vars
    PROVE  SlotInv'
<1> USE DEF starts, jobs, llm, limits
<1>0. /\ IsFiniteSet(Begun) /\ run \in [Starts -> {"none", "calling", "returned", "released", "over"}]
      /\ running \in [Actors -> Nat]
      /\ \A a \in Actors : running[a] = Cardinality(HoldersOf(a))
  BY JobAssumption DEF SlotInv, SlotsMatchRuns, HoldersOf, TypeOK
<1>f. \A a : IsFiniteSet(HoldersOf(a)) /\ Cardinality(HoldersOf(a)) \in Nat
  <2>1. \A a : HoldersOf(a) \in SUBSET Begun
    BY DEF HoldersOf, HoldsSlot, Begun
  <2> QED
    BY <1>0, <2>1, FS_Subset, FS_CardinalityType
<1>1. ASSUME UNCHANGED asked, running' = running, Begun' = Begun,
             \A j \in Starts : HoldsSlot(j)' <=> HoldsSlot(j)
      PROVE  SlotInv'
  <2>1. \A a \in Actors : HoldersOf(a)' = HoldersOf(a)
    BY <1>1 DEF HoldersOf, ActorOf
  <2> QED
    BY <1>0, <1>1, <2>1 DEF SlotInv, SlotsMatchRuns, HoldersOf
<1>2. ASSUME NEW r \in Starts, Launch(r) PROVE SlotInv'
  <2>1. r \notin Begun /\ pc[r] # "done" /\ ActorOf(r) \in Actors
    BY <1>2 DEF Launch, JobsFit, Begun, TypeOK, ActorOf, Ask
  <2>2. Begun' = Begun \cup {r} /\ UNCHANGED asked
    BY <1>0, <1>2 DEF Launch, Answer, Begun
  <2>3. HoldersOf(ActorOf(r))' = HoldersOf(ActorOf(r)) \cup {r} /\ r \notin HoldersOf(ActorOf(r))
    BY <1>0, <1>2, <2>1, <2>2 DEF Launch, HoldersOf, HoldsSlot, ActorOf, Begun
  <2>4. \A a \in Actors : a # ActorOf(r) => HoldersOf(a)' = HoldersOf(a)
    BY <1>0, <1>2, <2>2 DEF Launch, HoldersOf, HoldsSlot, ActorOf
  <2>5. Cardinality(HoldersOf(ActorOf(r)) \cup {r}) = Cardinality(HoldersOf(ActorOf(r))) + 1
    BY <1>f, <2>3, FS_AddElement
  <2>6. running' = [running EXCEPT ![ActorOf(r)] = @ + 1] /\ ActorOf(r)' = ActorOf(r)
    BY <1>2, <2>2 DEF Launch, ActorOf
  <2>7. \A a \in Actors : running'[a] = Cardinality(HoldersOf(a)')
    BY <1>0, <2>1, <2>3, <2>4, <2>5, <2>6
  <2>8. IsFiniteSet(Begun')
    BY <1>0, <2>2, FS_AddElement
  <2> QED
    BY <2>7, <2>8 DEF SlotInv, SlotsMatchRuns, HoldersOf
<1>3. ASSUME NEW r \in Starts, Release(r) PROVE SlotInv'
  <2>1. r \in HoldersOf(ActorOf(r)) /\ ActorOf(r) \in Actors
    BY <1>3 DEF Release, HoldersOf, HoldsSlot, TypeOK, ActorOf, Ask
  <2>2. Begun' = Begun /\ UNCHANGED asked
    BY <1>0, <1>3 DEF Release, Begun
  <2>3. HoldersOf(ActorOf(r))' = HoldersOf(ActorOf(r)) \ {r}
    BY <1>0, <1>3, <2>2 DEF Release, HoldersOf, HoldsSlot, ActorOf
  <2>4. \A a \in Actors : a # ActorOf(r) => HoldersOf(a)' = HoldersOf(a)
    BY <1>0, <1>3, <2>2 DEF Release, HoldersOf, HoldsSlot, ActorOf
  <2>5. Cardinality(HoldersOf(ActorOf(r)) \ {r}) = Cardinality(HoldersOf(ActorOf(r))) - 1
    BY <1>f, <2>1, FS_RemoveElement
  <2>6. running' = [running EXCEPT ![ActorOf(r)] = @ - 1] /\ ActorOf(r)' = ActorOf(r)
    BY <1>3, <2>2 DEF Release, ActorOf
  <2>7. \A a \in Actors : running'[a] = Cardinality(HoldersOf(a)')
    BY <1>0, <2>1, <2>3, <2>4, <2>5, <2>6
  <2> QED
    BY <1>0, <2>2, <2>7 DEF SlotInv, SlotsMatchRuns, HoldersOf
<1>4. ASSUME NEW r \in Starts, CallReturns(r) \/ CallFails(r) PROVE SlotInv'
  BY <1>0, <1>1, <1>4 DEF CallReturns, CallFails, Returns, Begun, HoldsSlot
<1>5. ASSUME NEW r \in Starts, Finish(r) PROVE SlotInv'
  BY <1>0, <1>1, <1>5 DEF Finish, Finishable, ReleasedOnce, Begun, HoldsSlot
<1>6. CASE UNCHANGED <<asked, running, run>>
  BY <1>1, <1>6 DEF Begun, HoldsSlot
<1> QED
  BY <1>2, <1>3, <1>4, <1>5, <1>6
  DEF Next, Serve, Tick, Save, Arrive, Lock, Prepare, PrepareFails, Join, NoTwin, RefuseFull, RefuseOften,
      Answer, Look, Discard, TimeOut, CallAgain, vars

-----------------------------------------------------------------------------
(* One run per input, and a current answer *)

(* What is under way or over keeps what it works on, and only Launch makes *)
(* something run. *)
LEMMA WorkStays ==
    ASSUME TypeOK, [Next]_vars
    PROVE  /\ asked' = asked
           /\ \A r \in Starts : pc[r] # "prepare" => seen'[r] = seen[r]
           /\ \A j \in Starts : pc[j] = "done" => pc'[j] = "done"
           /\ \A j \in Starts : ~Launch(j) =>
                /\ j \in table' => j \in table
                /\ status'[j] = "running" => status[j] = "running"
<1> USE DEF starts, jobs, llm
<1>1. ASSUME NEW r \in Starts, Arrive(r) \/ Lock(r) \/ Prepare(r) \/ PrepareFails(r) PROVE
        /\ asked' = asked
        /\ \A q \in Starts : pc[q] # "prepare" => seen'[q] = seen[q]
        /\ \A q \in Starts : pc[q] = "done" => pc'[q] = "done"
        /\ table' \subseteq table /\ status' = status
  BY <1>1 DEF Arrive, Lock, Swept, Prepare, PrepareFails, Answer, TypeOK
<1>2. ASSUME NEW r \in Starts, Join(r) \/ NoTwin(r) \/ RefuseFull(r) \/ RefuseOften(r) PROVE
        /\ asked' = asked /\ seen' = seen
        /\ \A q \in Starts : pc[q] = "done" => pc'[q] = "done"
        /\ table' \subseteq table /\ status' = status
  BY <1>2 DEF Join, NoTwin, RefuseFull, RefuseOften, Answer, TypeOK
<1>3. ASSUME NEW r \in Starts, Launch(r) PROVE
        /\ asked' = asked /\ seen' = seen
        /\ \A q \in Starts : pc[q] = "done" => pc'[q] = "done"
        /\ \A q \in Starts : q # r => (q \in table' => q \in table) /\ status'[q] = status[q]
  BY <1>3 DEF Launch, Answer, TypeOK
<1>4. ASSUME NEW r \in Starts, Finish(r) PROVE
        /\ asked' = asked /\ seen' = seen /\ pc' = pc /\ table' = table
        /\ \A q \in Starts : status'[q] = "running" => status[q] = "running"
  <2>1. result[r] # "running"
    BY DEF TypeOK
  <2> QED
    BY <1>4, <2>1 DEF Finish, TypeOK
<1>5. ASSUME NEW k \in Kinds, Look(k) PROVE
        asked' = asked /\ seen' = seen /\ pc' = pc /\ table' \subseteq table /\ status' = status
  BY <1>5 DEF Look, Swept
<1>6. ASSUME NEW r \in Starts,
             Discard(r) \/ TimeOut(r) \/ CallReturns(r) \/ CallFails(r) \/ CallAgain(r) \/ Release(r) PROVE
        asked' = asked /\ seen' = seen /\ pc' = pc /\ table' \subseteq table /\ status' = status
  BY <1>6 DEF Discard, TimeOut, CallReturns, CallFails, Returns, CallAgain, Release
<1>7. CASE Tick \/ UNCHANGED vars
  BY <1>7 DEF Tick, vars
<1>8. ASSUME NEW t \in Topics, Save(t) PROVE
        asked' = asked /\ seen' = seen /\ pc' = pc /\ table' \subseteq table /\ status' = status
  BY <1>8 DEF Save
<1> QED
  BY <1>1, <1>2, <1>3, <1>4, <1>5, <1>6, <1>7, <1>8 DEF Next, Serve

LEMMA TwinsKept ==
    ASSUME TypeOK, SlotInv, SectionHeld, JobsFit, NoTwinYet, OneRunPerInput, [Next]_vars
    PROVE  NoTwinYet' /\ OneRunPerInput'
<1> USE DEF SameInput
<1>0. /\ table \subseteq Starts /\ asked' = asked
      /\ \A j \in table : pc[j] = "done"
      /\ \A q \in Starts : pc[q] # "prepare" => seen'[q] = seen[q]
  BY WorkStays DEF TypeOK, JobsFit
<1>1. ASSUME NEW r \in Starts, Launch(r) PROVE NoTwinYet' /\ OneRunPerInput'
  <2>1. /\ pc[r] = "enter" /\ Twins(r) = {} /\ seen' = seen /\ table' = table \cup {r}
        /\ status' = [status EXCEPT ![r] = "running"] /\ pc' = [pc EXCEPT ![r] = "done"]
    BY <1>1 DEF Launch, Answer, NoTwinYet
  <2>2. \A j \in table : SameInput(j, r) => status[j] # "running"
    BY <2>1 DEF Twins
  <2>3. r \notin table /\ \A j \in table : status'[j] = status[j]
    BY <1>0, <2>1 DEF TypeOK
  <2>4. OneRunPerInput'
    BY <1>0, <2>1, <2>2, <2>3 DEF OneRunPerInput
  <2>5. ASSUME NEW q \in Starts, pc'[q] = "enter" PROVE Twins(q)' = {}
    <3>1. q # r /\ pc[q] = "enter"
      BY <2>1, <2>5 DEF TypeOK
    <3>2. KindOf(q) # KindOf(r)
      BY <2>1, <3>1 DEF SectionHeld, InSection
    <3>3. ~SameInput(r, q)
      BY <3>2 DEF KindOf
    <3>4. Twins(q) = {}
      BY <3>1 DEF NoTwinYet
    <3> QED
      BY <1>0, <2>1, <2>3, <3>3, <3>4 DEF Twins
  <2> QED
    BY <2>4, <2>5 DEF NoTwinYet
<1>2. ASSUME \A r \in Starts : ~Launch(r) PROVE NoTwinYet' /\ OneRunPerInput'
  <2>1. \A j \in table' : j \in table /\ seen'[j] = seen[j]
                          /\ (status'[j] = "running" => status[j] = "running")
    <3>1. table' \subseteq Starts
      BY WorkStays, <1>0, <1>2, TypesKept DEF TypeOK
    <3> QED
      BY <1>0, <1>2, <3>1, WorkStays
  <2>2. OneRunPerInput'
    BY <1>0, <2>1 DEF OneRunPerInput
  <2>3. ASSUME NEW q \in Starts, pc'[q] = "enter", pc[q] = "enter" PROVE Twins(q)' = {}
    <3>1. Twins(q)' \subseteq Twins(q)
      BY <1>0, <2>1, <2>3 DEF Twins
    <3> QED
      BY <2>3, <3>1 DEF NoTwinYet
  <2>4. ASSUME NEW q \in Starts, pc'[q] = "enter", pc[q] # "enter" PROVE Twins(q)' = {}
    <3>1. NoTwin(q)
      BY <2>4
      DEF TypeOK, Next, Serve, Tick, Save, Arrive, Lock, Prepare, PrepareFails, Join, NoTwin, RefuseFull,
          RefuseOften, Launch, Answer, Look, Discard, TimeOut, CallReturns, CallFails, Returns, CallAgain,
          Release, Finish, vars, starts
    <3> QED
      BY <3>1 DEF NoTwin, Twins, jobs
  <2> QED
    BY <2>2, <2>3, <2>4 DEF NoTwinYet
<1> QED
  BY <1>1, <1>2

AnswerInv == AnswersSettled /\ SeenIsCurrent /\ AnswerIsCurrent

LEMMA AnswersKept ==
    ASSUME TypeOK, JobsFit, AnswerInv, [Next]_vars
    PROVE  AnswerInv'
<1> USE DEF starts, KindOf, TopicOf
<1>0. /\ asked' = asked /\ Nobody \notin Starts
      /\ \A q \in Starts : pc[q] # "prepare" => seen'[q] = seen[q]
      /\ \A q \in Starts : pc[q] = "done" => pc'[q] = "done"
  BY WorkStays, JobAssumption
<1>t. /\ pc \in [Starts -> {"idle", "waiting", "prepare", "lookup", "enter", "done"}]
      /\ answer \in [Starts -> Starts \cup {Nobody}]
      /\ since \in [Starts -> SUBSET Contents] /\ seen \in [Starts -> Contents \cup {AsSent}]
      /\ \A r \in Starts : asked[r].topic \in Topics
      /\ content \in [Topics -> Contents]
  BY DEF TypeOK, Ask
<1>1. ASSUME answer' = answer, \A q \in Starts : since[q] \subseteq since'[q]
      PROVE  AnswersSettled' /\ AnswerIsCurrent'
  <2>1. ASSUME NEW q \in Starts, answer[q] # Nobody
        PROVE  answer[q] \in Starts /\ pc[answer[q]] = "done" /\ seen'[answer[q]] = seen[answer[q]]
    BY <1>0, <1>t, <2>1 DEF AnswerInv, AnswersSettled
  <2> QED
    BY <1>0, <1>1, <2>1 DEF AnswerInv, AnswersSettled, AnswerIsCurrent
<1>2. ASSUME NEW r \in Starts, NEW j \in Starts \cup {Nobody}, Answer(r, j), seen' = seen,
             j # Nobody => pc'[j] = "done" /\ (asked[r].kind = "interpretation" => seen[j] \in since[r])
      PROVE  AnswerInv'
  <2>1. /\ answer' = [answer EXCEPT ![r] = j] /\ pc' = [pc EXCEPT ![r] = "done"]
        /\ UNCHANGED <<content, asked, since>>
    BY <1>2 DEF Answer
  <2>2. AnswersSettled'
    BY <1>0, <1>t, <1>2, <2>1 DEF AnswerInv, AnswersSettled
  <2>3. SeenIsCurrent'
    BY <1>t, <1>2, <2>1 DEF AnswerInv, SeenIsCurrent
  <2>4. AnswerIsCurrent'
    BY <1>t, <1>2, <2>1 DEF AnswerInv, AnswerIsCurrent
  <2> QED
    BY <2>2, <2>3, <2>4 DEF AnswerInv
<1>3. ASSUME NEW t \in Topics, Save(t) PROVE AnswerInv'
  <2>1. PICK c \in Contents :
            /\ content' = [content EXCEPT ![t] = c]
            /\ since' = [r \in Starts |->
                            IF TopicOf(r) = t /\ pc[r] \in {"waiting", "prepare"}
                            THEN since[r] \cup {c} ELSE since[r]]
    BY <1>3 DEF Save
  <2>2. answer' = answer /\ pc' = pc /\ seen' = seen
    BY <1>3 DEF Save
  <2>3. SeenIsCurrent'
    BY <1>0, <1>t, <2>1, <2>2 DEF AnswerInv, SeenIsCurrent
  <2> QED
    BY <1>1, <2>1, <2>2, <2>3 DEF AnswerInv
<1>4. ASSUME NEW r \in Starts, Arrive(r) PROVE AnswerInv'
  <2>1. /\ pc' = [pc EXCEPT ![r] = "waiting"] /\ since' = [since EXCEPT ![r] = {content[TopicOf(r)]}]
        /\ UNCHANGED <<content, asked, seen, answer>> /\ pc[r] = "idle"
    BY <1>4 DEF Arrive
  <2>2. SeenIsCurrent'
    BY <1>t, <2>1 DEF AnswerInv, SeenIsCurrent
  <2>3. AnswersSettled'
    BY <1>0, <1>t, <2>1 DEF AnswerInv, AnswersSettled
  <2>4. AnswerIsCurrent'
    <3>1. ASSUME NEW q \in Starts, answer[q] # Nobody
          PROVE  q # r /\ answer[q] \in Starts
      BY <1>t, <2>1, <3>1 DEF AnswerInv, AnswersSettled
    <3> QED
      BY <1>t, <2>1, <3>1 DEF AnswerInv, AnswerIsCurrent
  <2> QED
    BY <2>2, <2>3, <2>4 DEF AnswerInv
<1>5. ASSUME NEW r \in Starts, Lock(r) \/ NoTwin(r) PROVE AnswerInv'
  <2>1. /\ UNCHANGED <<content, asked, since, seen, answer>>
        /\ \/ pc[r] = "waiting" /\ pc' = [pc EXCEPT ![r] = "prepare"]
           \/ pc[r] = "lookup" /\ pc' = [pc EXCEPT ![r] = "enter"]
    BY <1>5 DEF Lock, NoTwin
  <2>2. SeenIsCurrent'
    BY <1>t, <2>1 DEF AnswerInv, SeenIsCurrent
  <2> QED
    BY <1>1, <2>1, <2>2 DEF AnswerInv
<1>6. ASSUME NEW r \in Starts, Prepare(r) PROVE AnswerInv'
  <2>1. /\ pc[r] = "prepare" /\ pc' = [pc EXCEPT ![r] = "lookup"]
        /\ UNCHANGED <<content, asked, since, answer>>
        /\ seen' = [seen EXCEPT ![r] = IF asked[r].kind = "diagram" THEN AsSent
                                       ELSE content[asked[r].topic]]
    BY <1>6 DEF Prepare
  <2>2. SeenIsCurrent'
    BY <1>t, <2>1 DEF AnswerInv, SeenIsCurrent
  <2> QED
    BY <1>1, <2>1, <2>2 DEF AnswerInv
<1>7. ASSUME NEW r \in Starts, PrepareFails(r) \/ RefuseFull(r) \/ RefuseOften(r) PROVE AnswerInv'
  BY <1>2, <1>7 DEF PrepareFails, RefuseFull, RefuseOften
<1>8. ASSUME NEW r \in Starts, Join(r) PROVE AnswerInv'
  <2>1. PICK j \in Twins(r) : Answer(r, j)
    BY <1>8 DEF Join
  <2>2. /\ j \in Starts /\ pc[j] = "done" /\ seen[j] = seen[r] /\ seen' = seen
        /\ pc[r] = "lookup"
    BY <1>8, <2>1 DEF Join, Twins, SameInput, TypeOK, JobsFit
  <2>3. asked[r].kind = "interpretation" => seen[j] \in since[r]
    BY <2>2 DEF AnswerInv, SeenIsCurrent
  <2> QED
    BY <1>0, <1>2, <2>1, <2>2, <2>3
<1>9. ASSUME NEW r \in Starts, Launch(r) PROVE AnswerInv'
  <2>1. Answer(r, r) /\ seen' = seen /\ pc[r] = "enter" /\ pc'[r] = "done"
    BY <1>t, <1>9 DEF Launch, Answer
  <2>2. asked[r].kind = "interpretation" => seen[r] \in since[r]
    BY <2>1 DEF AnswerInv, SeenIsCurrent
  <2> QED
    BY <1>2, <2>1, <2>2
<1>10. CASE UNCHANGED <<content, pc, asked, since, seen, answer>>
  <2>1. SeenIsCurrent'
    BY <1>10 DEF AnswerInv, SeenIsCurrent
  <2> QED
    BY <1>1, <1>10, <2>1 DEF AnswerInv
<1> QED
  BY <1>3, <1>4, <1>5, <1>6, <1>7, <1>8, <1>9, <1>10
  DEF Next, Serve, Tick, Look, Discard, TimeOut, CallReturns, CallFails, Returns, CallAgain,
      Release, Finish, vars

-----------------------------------------------------------------------------
(* The rate limit *)

(* What the limiter keeps of a window is in order, without repetition, of  *)
(* runs that were begun, and has all those that are young.                 *)
LEMMA KeptWindow ==
    ASSUME TypeOK, JobsFit, WindowInv, NEW a \in Actors
    PROVE  LET w == WithinWindow(recent[a]) IN
           /\ w \in Seq(Starts) /\ Len(w) \in Nat /\ Len(w) <= Len(recent[a])
           /\ \A n \in 1 .. Len(w) : w[n] \in Launched(a)
           /\ \A m, n \in 1 .. Len(w) :
                /\ w[m] = w[n] => m = n
                /\ m <= n => startedAt[w[m]] <= startedAt[w[n]]
           /\ RateLimit > 0 =>
                \A j \in Launched(a) : clock < startedAt[j] + RateWindow =>
                    \E n \in 1 .. Len(w) : w[n] = j
<1> DEFINE s == recent[a]
           w == WithinWindow(recent[a])
<1>1. s \in Seq(Starts)
  BY DEF TypeOK
<1>2. Len(s) \in Nat /\ DOMAIN s = 1 .. Len(s)
  BY <1>1, LenProperties
<1>3. PICK k \in 0 .. Len(s) :
        /\ w \in Seq(Starts)
        /\ Len(w) = Len(s) - k
        /\ \A i \in 1 .. Len(s) - k : w[i] = s[k + i]
        /\ \A i \in 1 .. k : startedAt[s[i]] + RateWindow <= clock
  BY <1>1, WindowFacts
<1>4. /\ \A n \in 1 .. Len(s) : s[n] \in Launched(a)
      /\ \A m, n \in 1 .. Len(s) : /\ s[m] = s[n] => m = n
                                   /\ m <= n => startedAt[s[m]] <= startedAt[s[n]]
  BY <1>2 DEF WindowInv, OnlyRunsCount, WindowInOrder
<1>5. /\ RateWindow \in Nat /\ clock \in Nat
      /\ \A j \in Starts : startedAt[j] \in Nat
  BY JobAssumption DEF TypeOK, Times
<1>6. ASSUME RateLimit > 0, NEW j \in Launched(a), clock < startedAt[j] + RateWindow
      PROVE  \E n \in 1 .. Len(w) : w[n] = j
  <2>1. PICK n \in 1 .. Len(s) : s[n] = j
    BY <1>2, <1>6 DEF WindowInv, WindowIsFull
  <2>2. j \in Starts
    BY DEF Launched
  <2>3. ~(n <= k)
    BY <1>3, <1>5, <1>6, <2>1, <2>2
  <2>4. n - k \in 1 .. Len(w) /\ w[n - k] = s[n]
    BY <1>2, <1>3, <2>1, <2>3
  <2> QED
    BY <2>1, <2>4
<1>7. /\ \A n \in 1 .. Len(w) : w[n] \in Launched(a)
      /\ \A m, n \in 1 .. Len(w) : /\ w[m] = w[n] => m = n
                                   /\ m <= n => startedAt[w[m]] <= startedAt[w[n]]
  <2>1. ASSUME NEW n \in 1 .. Len(w) PROVE k + n \in 1 .. Len(s) /\ w[n] = s[k + n]
    BY <1>2, <1>3, SMTT(30)
  <2> HIDE DEF w, s
  <2>2. ASSUME NEW m \in 1 .. Len(w), NEW n \in 1 .. Len(w)
        PROVE  /\ w[m] = w[n] => m = n
               /\ m <= n => startedAt[w[m]] <= startedAt[w[n]]
    <3>1. /\ k + m \in 1 .. Len(s) /\ k + n \in 1 .. Len(s) /\ w[m] = s[k + m] /\ w[n] = s[k + n]
          /\ k + m = k + n => m = n
          /\ m <= n => k + m <= k + n
      BY <1>2, <1>3, <2>1
    <3> QED
      BY <1>4, <3>1
  <2> QED
    BY <1>4, <2>1, <2>2
<1>8. Len(w) \in Nat /\ Len(w) <= Len(s)
  BY <1>2, <1>3
<1> QED
  BY <1>3, <1>6, <1>7, <1>8

(* The same, of one sequence: it is an exact window of the runs of a. *)
ExactWindow(s, a) ==
    /\ \A n \in 1 .. Len(s) : s[n] \in Launched(a)
    /\ \A m, n \in 1 .. Len(s) :
        /\ s[m] = s[n] => m = n
        /\ m <= n => startedAt[s[m]] <= startedAt[s[n]]
    /\ RateLimit > 0 =>
        /\ Len(s) <= RateLimit
        /\ \A j \in Launched(a) : clock < startedAt[j] + RateWindow => \E n \in 1 .. Len(s) : s[n] = j

LEMMA WindowsAreExact ==
    ASSUME TypeOK
    PROVE  WindowInv <=> \A a \in Actors : ExactWindow(recent[a], a)
<1>1. \A a \in Actors : DOMAIN recent[a] = 1 .. Len(recent[a])
  BY LenProperties DEF TypeOK
<1> QED
  BY <1>1 DEF WindowInv, OnlyRunsCount, WindowInOrder, WindowIsFull, ExactWindow

LEMMA WindowsKept ==
    ASSUME TypeOK, SlotInv, JobsFit, WindowInv, [Next]_vars
    PROVE  WindowInv'
<1> USE DEF starts, jobs, llm, limits
<1>0. TypeOK' /\ \A a \in Actors : ExactWindow(recent[a], a)
  BY TypesKept, WindowsAreExact
<1>s. TypeOK' /\ (\A a \in Actors : ExactWindow(recent[a], a)') => WindowInv'
  <2>1. ASSUME TypeOK' PROVE \A a \in Actors : recent'[a] \in Seq(Starts)
    BY <2>1 DEF TypeOK
  <2>2. ASSUME TypeOK' PROVE \A a \in Actors : DOMAIN recent'[a] = 1 .. Len(recent'[a])
    BY <2>1, <2>2, LenProperties
  <2> QED
    BY <2>2 DEF WindowInv, OnlyRunsCount, WindowInOrder, WindowIsFull, ExactWindow
<1>t. /\ clock \in Nat /\ clock' \in Nat /\ MaxTime \in Nat /\ RateLimit \in Nat
      /\ run \in [Starts -> {"none", "calling", "returned", "released", "over"}]
      /\ startedAt \in [Starts -> Times] /\ pc \in [Starts -> {"idle", "waiting", "prepare", "lookup", "enter", "done"}]
      /\ recent \in [Actors -> Seq(Starts)]
      /\ \A r \in Starts : ActorOf(r) \in Actors
      /\ asked' = asked
  <2>1. clock' \in Nat
    BY <1>0, JobAssumption DEF TypeOK, Times
  <2>2. \A r \in Starts : ActorOf(r) \in Actors
    BY DEF TypeOK, ActorOf, Ask
  <2>3. asked' = asked
    BY WorkStays
  <2> QED
    BY <2>1, <2>2, <2>3, JobAssumption DEF TypeOK, Times
<1>1. ASSUME NEW r \in Starts, NEW b \in Actors, b = ActorOf(r), Launch(r) PROVE WindowInv'
  <2> DEFINE w == WithinWindow(recent[b])
  <2>1. /\ run[r] = "none" /\ clock' = clock /\ b \in Actors /\ ~Often(b)
        /\ run' = [run EXCEPT ![r] = "calling"] /\ startedAt' = [startedAt EXCEPT ![r] = clock]
        /\ recent' = IF RateLimit = 0 THEN recent ELSE [recent EXCEPT ![b] = Append(w, r)]
    BY <1>1, <1>t DEF Launch, Answer, JobsFit
  <2>2. /\ \A a \in Actors : /\ a # b => Launched(a)' = Launched(a)
                             /\ \A j \in Launched(a) : j # r /\ startedAt'[j] = startedAt[j]
        /\ Launched(b)' = Launched(b) \cup {r}
    <3>1. \A j \in Starts : /\ ActorOf(j)' = ActorOf(j)
                            /\ run'[j] # "none" <=> run[j] # "none" \/ j = r
      BY <1>t, <2>1 DEF ActorOf
    <3>2. \A a \in Actors : a # b => Launched(a)' = Launched(a)
      BY <1>1, <3>1 DEF Launched
    <3>3. Launched(b)' = Launched(b) \cup {r}
      BY <1>1, <3>1 DEF Launched
    <3>4. \A a \in Actors : \A j \in Launched(a) : j # r /\ startedAt'[j] = startedAt[j]
      BY <1>t, <2>1 DEF Launched
    <3> QED
      BY <3>2, <3>3, <3>4
  <2>3. ASSUME NEW a \in Actors, a # b PROVE ExactWindow(recent[a], a)'
    <3>1. recent'[a] = recent[a]
      BY <1>t, <2>1, <2>3
    <3>2. ExactWindow(recent[a], a)
      BY <1>0
    <3>3. /\ Launched(a)' = Launched(a) /\ clock' = clock
          /\ \A j \in Launched(a) : startedAt'[j] = startedAt[j]
      BY <2>1, <2>2, <2>3
    <3> QED
      BY <3>1, <3>2, <3>3 DEF ExactWindow
  <2>4. CASE RateLimit = 0
    <3>1. recent'[b] = recent[b] /\ ExactWindow(recent[b], b)
      BY <1>0, <2>1, <2>4
    <3>2. ExactWindow(recent[b], b)'
      BY <2>1, <2>2, <2>4, <3>1 DEF ExactWindow
    <3> QED
      BY <1>0, <1>s, <2>3, <3>2
  <2>5. CASE RateLimit > 0
    <3> DEFINE v == Append(w, r)
    <3>1. /\ w \in Seq(Starts) /\ Len(w) \in Nat
          /\ \A n \in 1 .. Len(w) : w[n] \in Launched(b)
          /\ \A m, n \in 1 .. Len(w) :
                /\ w[m] = w[n] => m = n
                /\ m <= n => startedAt[w[m]] <= startedAt[w[n]]
          /\ \A j \in Launched(b) : clock < startedAt[j] + RateWindow =>
                \E n \in 1 .. Len(w) : w[n] = j
      BY <2>1, <2>5, KeptWindow
    <3>2. /\ v \in Seq(Starts) /\ Len(v) = Len(w) + 1 /\ v[Len(w) + 1] = r
          /\ \A n \in 1 .. Len(w) : v[n] = w[n]
      BY <3>1, AppendProperties
    <3>3. Len(w) < RateLimit
      BY <1>t, <2>1, <2>5, <3>1 DEF Often
    <3>4. recent'[b] = v
      BY <1>t, <2>1, <2>5
    <3>5. \A j \in Launched(b) : startedAt[j] \in Nat /\ startedAt[j] <= clock
      BY <1>t, JobAssumption DEF Launched, JobsFit, Times
    <3>6. startedAt'[r] = clock
      BY <1>t, <2>1
    <3> HIDE DEF v, w
    <3>7. \A n \in 1 .. Len(v) : v[n] \in Launched(b)'
      BY <2>1, <2>2, <3>1, <3>2
    <3>8. ASSUME NEW m \in 1 .. Len(v), NEW n \in 1 .. Len(v)
          PROVE  /\ v[m] = v[n] => m = n
                 /\ m <= n => startedAt'[v[m]] <= startedAt'[v[n]]
      <4>1. CASE m \in 1 .. Len(w) /\ n \in 1 .. Len(w)
        BY <2>1, <2>2, <3>1, <3>2, <4>1
      <4>2. CASE m \in 1 .. Len(w) /\ n = Len(w) + 1
        BY <2>1, <2>2, <3>1, <3>2, <3>5, <3>6, <4>2
      <4>3. CASE m = Len(w) + 1 /\ n \in 1 .. Len(w)
        BY <2>1, <2>2, <3>1, <3>2, <4>3
      <4>4. CASE m = Len(w) + 1 /\ n = Len(w) + 1
        BY <1>t, <3>2, <3>6, <4>4
      <4> QED
        BY <3>1, <3>2, <4>1, <4>2, <4>3, <4>4
    <3>9. ASSUME NEW j \in Launched(b)', clock' < startedAt'[j] + RateWindow
          PROVE  \E n \in 1 .. Len(v) : v[n] = j
      <4>1. CASE j = r
        BY <3>1, <3>2, <4>1
      <4>2. CASE j # r
        <5>1. j \in Launched(b) /\ clock < startedAt[j] + RateWindow
          BY <2>1, <2>2, <3>9, <4>2
        <5>2. PICK n \in 1 .. Len(w) : w[n] = j
          BY <3>1, <5>1
        <5> QED
          BY <3>1, <3>2, <5>2
      <4> QED
        BY <4>1, <4>2
    <3>10. Len(v) <= RateLimit
      BY <1>t, <3>1, <3>2, <3>3
    <3>11. ExactWindow(recent[b], b)'
      BY <3>4, <3>7, <3>8, <3>9, <3>10 DEF ExactWindow
    <3> QED
      BY <1>0, <1>s, <2>3, <3>11
  <2> QED
    BY <1>t, <2>4, <2>5
<1>2. ASSUME ~ \E r \in Starts : Launch(r), NEW a \in Actors
      PROVE  /\ Launched(a)' = Launched(a) /\ startedAt' = startedAt /\ clock <= clock'
  <2>1. startedAt' = startedAt /\ clock <= clock' /\ \A j \in Starts : run'[j] = "none" <=> run[j] = "none"
    BY <1>2, <1>t
    DEF Next, Serve, Tick, Save, Arrive, Lock, Prepare, PrepareFails, Join, NoTwin, RefuseFull,
        RefuseOften, Answer, Look, Discard, TimeOut, CallReturns, CallFails, Returns, CallAgain,
        Release, Finish, Finishable, vars
  <2> QED
    BY <1>t, <2>1 DEF Launched, ActorOf
<1>3. ASSUME NEW r \in Starts, NEW b \in Actors, b = ActorOf(r), RefuseOften(r) PROVE WindowInv'
  <2> DEFINE w == WithinWindow(recent[b])
  <2>1. recent' = [recent EXCEPT ![b] = w] /\ b \in Actors /\ clock' = clock
    BY <1>3, <1>t DEF RefuseOften, Answer
  <2>2. ~ \E q \in Starts : Launch(q)
    BY <1>3, <1>t, ZenonT(40) DEF RefuseOften, Launch, Answer
  <2>3. ASSUME NEW a \in Actors PROVE ExactWindow(recent'[a], a)
    <3>1. CASE a = b
      <4>1. recent'[a] = w
        BY <1>t, <2>1, <3>1
      <4>2. ExactWindow(recent[b], b) /\ recent[b] \in Seq(Starts)
        BY <1>0, <1>t
      <4>3. RateLimit > 0 => Len(recent[b]) <= RateLimit
        BY <4>2 DEF ExactWindow
      <4>4. /\ Len(w) \in Nat /\ Len(w) <= Len(recent[b]) /\ Len(recent[b]) \in Nat
            /\ \A n \in 1 .. Len(w) : w[n] \in Launched(b)
            /\ \A m, n \in 1 .. Len(w) :
                 /\ w[m] = w[n] => m = n
                 /\ m <= n => startedAt[w[m]] <= startedAt[w[n]]
            /\ RateLimit > 0 =>
                 \A j \in Launched(b) : clock < startedAt[j] + RateWindow =>
                     \E n \in 1 .. Len(w) : w[n] = j
        BY <4>2, KeptWindow, LenProperties
      <4> HIDE DEF w
      <4>5. ExactWindow(w, b)
        BY <1>t, <4>3, <4>4 DEF ExactWindow
      <4> QED
        BY <3>1, <4>1, <4>5
    <3>2. CASE a # b
      BY <1>0, <1>t, <2>1, <3>2
    <3> QED
      BY <3>1, <3>2
  <2>4. \A a \in Actors : ExactWindow(recent[a], a)'
    BY <1>2, <2>1, <2>2, <2>3 DEF ExactWindow
  <2> QED
    BY <1>0, <1>s, <2>4
<1>4. ASSUME recent' = recent, ~ \E r \in Starts : Launch(r) PROVE WindowInv'
  <2>1. \A a \in Actors : ExactWindow(recent[a], a)'
    <3>1. ASSUME NEW a \in Actors PROVE ExactWindow(recent[a], a)'
      <4>1. /\ RateWindow \in Nat /\ \A j \in Launched(a) : startedAt[j] \in Nat
        BY <1>t, JobAssumption DEF Times, Launched
      <4>2. \A j \in Launched(a) : clock' < startedAt[j] + RateWindow => clock < startedAt[j] + RateWindow
        BY <1>2, <1>4, <1>t, <4>1
      <4>3. ExactWindow(recent[a], a)
        BY <1>0
      <4> QED
        BY <1>2, <1>4, <4>2, <4>3 DEF ExactWindow
    <3> QED
      BY <3>1
  <2> QED
    BY <1>0, <1>s, <2>1
<1>5. \/ \E r \in Starts : Launch(r)
      \/ \E r \in Starts : RefuseOften(r)
      \/ recent' = recent
  BY <1>t
  DEF Next, Serve, Tick, Save, Arrive, Lock, Prepare, PrepareFails, Join, NoTwin, RefuseFull,
      CountedWhenFull, Answer, Look, Discard, TimeOut, CallReturns, CallFails, Returns, CallAgain,
      Release, Finish, vars
<1> QED
  BY <1>1, <1>3, <1>4, <1>5, <1>t

-----------------------------------------------------------------------------
(* The invariant as a whole *)

LEMMA JobInvInit == Init => JobInv
<1> SUFFICES ASSUME Init PROVE JobInv
  OBVIOUS
<1>1. /\ MaxTime \in Nat /\ MaxConcurrent \in Nat /\ MaxAttempts \in Nat
      /\ << >> \in Seq(Starts) /\ DOMAIN << >> = 1 .. 0
  BY JobAssumption
<1>2. TypeOK
  BY <1>1 DEF Init, TypeOK, Times
<1>3. SectionHeld /\ JobsFit /\ NoTwinYet /\ OneRunPerInput
  BY <1>1 DEF Init, SectionHeld, InSection, JobsFit, NoTwinYet, OneRunPerInput
<1>4. AnswersSettled /\ SeenIsCurrent /\ AnswerIsCurrent
  BY JobAssumption DEF Init, AnswersSettled, SeenIsCurrent, AnswerIsCurrent
<1>5. SlotInv
  <2>1. Begun = {} /\ \A a : HoldersOf(a) = {}
    BY DEF Init, Begun, HoldersOf, HoldsSlot
  <2> QED
    BY <2>1, FS_EmptySet DEF Init, SlotInv, SlotsMatchRuns, HoldersOf
<1>6. WindowInv
  <2>1. \A a \in Actors : Len(recent[a]) = 0 /\ Launched(a) = {}
    BY DEF Init, Launched
  <2>2. \A a \in Actors : ExactWindow(recent[a], a)
    BY <2>1, JobAssumption DEF ExactWindow
  <2> QED
    BY <1>2, <2>2, WindowsAreExact
<1> QED
  BY <1>2, <1>3, <1>4, <1>5, <1>6 DEF JobInv

LEMMA JobInvStep == JobInv /\ [Next]_vars => JobInv'
<1> SUFFICES ASSUME JobInv, [Next]_vars PROVE JobInv'
  OBVIOUS
<1>1. /\ TypeOK /\ SectionHeld /\ JobsFit /\ SlotInv /\ NoTwinYet /\ OneRunPerInput
      /\ AnswerInv /\ WindowInv
  BY DEF JobInv, AnswerInv
<1>2. TypeOK'
  BY <1>1, TypesKept
<1>3. SectionHeld'
  BY <1>1, SectionKept
<1>4. JobsFit'
  BY <1>1, LifeKept
<1>5. SlotInv'
  BY <1>1, SlotsKept
<1>6. NoTwinYet' /\ OneRunPerInput'
  BY <1>1, TwinsKept
<1>7. AnswerInv'
  BY <1>1, AnswersKept
<1>8. WindowInv'
  BY <1>1, WindowsKept
<1> QED
  BY <1>2, <1>3, <1>4, <1>5, <1>6, <1>7, <1>8 DEF JobInv, AnswerInv

(* The inductive invariant holds in every state the jobs can reach. *)
THEOREM JobInvariant == Spec => []JobInv
<1> QED
  BY JobInvInit, JobInvStep, PTL DEF Spec

(* Every variable of the job tables and of the limiter has its type; for   *)
(* the limiter this says that it never counts below zero nor beyond the    *)
(* limit of concurrent runs (llmlimit.go, Acquire and its release).        *)
THEOREM TypeCorrect == Spec => []TypeOK
<1>1. JobInv => TypeOK
  BY DEF JobInv
<1> QED
  BY <1>1, JobInvariant, PTL

LEMMA SlotsCover == TypeOK /\ JobsFit /\ SlotInv => SlotsFollowRuns
<1> SUFFICES ASSUME TypeOK, JobsFit, SlotInv PROVE SlotsFollowRuns
  OBVIOUS
<1>1. ASSUME NEW a \in Actors
      PROVE  running[a] <= Cardinality({j \in Starts : status[j] = "running" /\ ActorOf(j) = a})
  <2> DEFINE R == {j \in Starts : status[j] = "running" /\ ActorOf(j) = a}
  <2>1. HoldersOf(a) \subseteq R /\ R \subseteq Begun
    BY DEF HoldersOf, HoldsSlot, Begun, JobsFit
  <2>2. IsFiniteSet(R)
    BY <2>1, FS_Subset DEF SlotInv
  <2>3. Cardinality(HoldersOf(a)) <= Cardinality(R)
    BY <2>1, <2>2, FS_Subset
  <2> QED
    BY <2>3 DEF SlotInv, SlotsMatchRuns, HoldersOf
<1> QED
  BY <1>1 DEF SlotsFollowRuns, OverMeansFree, SlotInv

(* A slot of the limiter is neither lost nor given back twice, however a   *)
(* run ends, and whoever reads that a run is over can start the next one   *)
(* (jobs.go frees the slot before it writes the end; llmlimit.go).         *)
THEOREM SlotsAreExact == Spec => []SlotsFollowRuns
<1>1. JobInv => SlotsFollowRuns
  BY SlotsCover DEF JobInv
<1> QED
  BY <1>1, JobInvariant, PTL

(* Two running jobs in a table never work on the same input of the same    *)
(* user: start looks for a twin and enters its job under one mutex         *)
(* (jobs.go, start).                                                       *)
THEOREM InputsRunOnce == Spec => []OneRunPerInput
<1>1. JobInv => OneRunPerInput
  BY DEF JobInv
<1> QED
  BY <1>1, JobInvariant, PTL

(* Whoever starts an interpretation is answered with a job that works on   *)
(* something the annotation held after the request arrived, although the   *)
(* scene is saved concurrently and the job may be somebody else's          *)
(* (jobs.go, start: prepare runs inside the mutex, the key holds the       *)
(* content).                                                               *)
THEOREM AnswersAreCurrent == Spec => []AnswerIsCurrent
<1>1. JobInv => AnswerIsCurrent
  BY DEF JobInv
<1> QED
  BY <1>1, JobInvariant, PTL

LEMMA WindowBounds == TypeOK /\ WindowInv => RateIsExact
<1> SUFFICES ASSUME TypeOK, WindowInv PROVE RateIsExact
  OBVIOUS
<1>1. ASSUME RateLimit > 0, NEW a \in Actors
      PROVE  Cardinality({j \in Launched(a) : clock < startedAt[j] + RateWindow}) <= RateLimit
  <2> DEFINE Y == {j \in Launched(a) : clock < startedAt[j] + RateWindow}
             s == recent[a]
  <2>1. s \in Seq(Starts) /\ Len(s) \in Nat /\ DOMAIN s = 1 .. Len(s)
    BY LenProperties DEF TypeOK
  <2>2. Len(s) <= RateLimit /\ \A j \in Y : \E n \in 1 .. Len(s) : s[n] = j
    BY <1>1, <2>1 DEF WindowInv, WindowIsFull
  <2>3. Cardinality(Y) <= Len(s) /\ Cardinality(Y) \in Nat
    <3>1. Y \in SUBSET Starts
      BY DEF Launched
    <3> HIDE DEF Y, s
    <3>2. IsFiniteSet(Y) /\ Cardinality(Y) <= Len(s)
      BY <2>1, <2>2, <3>1, RangeIsSmall
    <3> QED
      BY <3>2, FS_CardinalityType
  <2> QED
    BY <2>1, <2>2, <2>3, JobAssumption
<1> QED
  BY <1>1 DEF RateIsExact, RateKept, WindowInv

(* No window of the rate limit holds more runs than the limit, and a       *)
(* refused start does not count (llmlimit.go, Acquire and withinWindow).   *)
THEOREM RateLimitIsExact == Spec => []RateIsExact
<1>1. JobInv => RateIsExact
  BY WindowBounds DEF JobInv
<1> QED
  BY <1>1, JobInvariant, PTL

(* A job leaves its table only when its owner discards it or when its end  *)
(* is older than the retention (jobs.go, sweep and discard).               *)
THEOREM ResultsAreKept == Spec => KeptForRetention
<1>1. JobInv /\ [Next]_vars =>
        [\A j \in table \ table' :
            \/ Discard(j)
            \/ status[j] # "running" /\ finishedAt[j] + Retention < clock]_vars
  <2> SUFFICES ASSUME JobInv, Next, NEW j \in table \ table'
               PROVE  Discard(j) \/ (status[j] # "running" /\ finishedAt[j] + Retention < clock)
    OBVIOUS
  <2>1. ASSUME NEW k \in Kinds, table' = Swept(k)
        PROVE  status[j] # "running" /\ finishedAt[j] + Retention < clock
    BY <2>1 DEF Swept, Outdated
  <2>2. ASSUME NEW r \in Starts, Lock(r) PROVE \E k \in Kinds : table' = Swept(k)
    BY <2>2 DEF Lock, KindOf, JobInv, TypeOK, Ask
  <2>3. \/ \E r \in Starts : Lock(r)
        \/ \E k \in Kinds : Look(k)
        \/ Discard(j)
    BY DEF Next, Serve, Tick, Save, Arrive, Prepare, PrepareFails, Join, NoTwin, RefuseFull,
           RefuseOften, Launch, Answer, Discard, TimeOut, CallReturns, CallFails, Returns,
           CallAgain, Release, Finish, jobs
  <2> QED
    BY <2>1, <2>2, <2>3 DEF Look
<1> QED
  BY <1>1, JobInvariant, PTL DEF Spec, KeptForRetention
=============================================================================
