------------------------------ MODULE JobTable ------------------------------
(***************************************************************************)
(* The runs of the language model: jobs that outlive the request that      *)
(* started them (internal/usecase/jobs.go), of two kinds with a table and  *)
(* a mutex each, under one limit of concurrent and of recent runs per user *)
(* (internal/usecase/llmlimit.go).                                         *)
(*                                                                         *)
(* A start holds the mutex of its table from the reading of the board to   *)
(* the entry of the job; the goroutine of a job calls the model, gives its *)
(* slot back and takes the mutex to write the end.  All of this is memory  *)
(* only.  A job has the name of the request that started it.               *)
(***************************************************************************)
EXTENDS Naturals, Sequences, FiniteSets

CONSTANTS
    Starts,         \* requests to start a job; each is served once
    Actors, Topics, \* users; annotations of boards, or inputs of diagrams
    Contents,       \* what a saved annotation may hold
    AsSent,         \* a diagram is drawn from the request alone
    MaxConcurrent, RateLimit, RateWindow,   \* LLMLimits
    JobTimeout, Retention, MaxAttempts,
    MaxTime         \* bound on the clock

Kinds == {"interpretation", "diagram"}

Nobody == "nobody"

ASSUME JobAssumption ==
    /\ {RateLimit, Retention, MaxTime} \subseteq Nat
    /\ {MaxConcurrent, RateWindow, JobTimeout, MaxAttempts} \subseteq Nat \ {0}
    /\ Nobody \notin Starts
    /\ AsSent \notin Contents

VARIABLES
    clock,
    content,    \* the saved scene: what every topic holds
    mutex,      \* of the table of each kind: the start inside, or Nobody
    pc,         \* how far every start has got
    asked,      \* its kind, actor and topic
    since,      \* what the topic has held since the start arrived
    seen,       \* what prepare read
    answer,     \* the job it was answered with
    table,      \* the jobs in the tables
    status,     \* what a reader is told of a job
    startedAt, finishedAt,
    ended,      \* jobs whose context has ended
    run,        \* how far the goroutine of a job has got
    attempts,   \* calls of the model made for it
    result,     \* what its calls came to
    running,    \* LLMLimiter: runs that hold a slot, per user
    recent      \* LLMLimiter: the runs counted within the window, as they began

limits == <<running, recent>>
jobs   == <<table, status, startedAt, finishedAt>>
llm    == <<ended, run, attempts, result>>
starts == <<pc, asked, since, seen, answer>>
vars   == <<clock, content, mutex, starts, jobs, llm, limits>>

Times == 0 .. MaxTime

Ask == [kind : Kinds, actor : Actors, topic : Topics]

TypeOK ==
    /\ clock \in Times
    /\ content \in [Topics -> Contents]
    /\ mutex \in [Kinds -> Starts \cup {Nobody}]
    /\ pc \in [Starts -> {"idle", "waiting", "prepare", "lookup", "enter", "done"}]
    /\ asked \in [Starts -> Ask]
    /\ since \in [Starts -> SUBSET Contents]
    /\ seen \in [Starts -> Contents \cup {AsSent}]
    /\ answer \in [Starts -> Starts \cup {Nobody}]
    /\ table \in SUBSET Starts
    /\ status \in [Starts -> {"none", "running", "succeeded", "failed"}]
    /\ startedAt \in [Starts -> Times] /\ finishedAt \in [Starts -> Times]
    /\ ended \in SUBSET Starts
    /\ run \in [Starts -> {"none", "calling", "returned", "released", "over"}]
    /\ attempts \in [Starts -> 0 .. MaxAttempts]
    /\ result \in [Starts -> {"none", "succeeded", "failed"}]
    /\ running \in [Actors -> 0 .. MaxConcurrent]
    /\ recent \in [Actors -> Seq(Starts)]

KindOf(r) == asked[r].kind
ActorOf(r) == asked[r].actor
TopicOf(r) == asked[r].topic

-----------------------------------------------------------------------------
Init ==
    /\ clock = 0
    /\ content \in [Topics -> Contents]
    /\ mutex = [k \in Kinds |-> Nobody]
    /\ pc = [r \in Starts |-> "idle"]
    /\ asked \in [Starts -> Ask]
    /\ since = [r \in Starts |-> {}]
    /\ seen = [r \in Starts |-> AsSent]
    /\ answer = [r \in Starts |-> Nobody]
    /\ table = {}
    /\ status = [j \in Starts |-> "none"]
    /\ startedAt = [j \in Starts |-> 0]
    /\ finishedAt = [j \in Starts |-> 0]
    /\ ended = {}
    /\ run = [j \in Starts |-> "none"]
    /\ attempts = [j \in Starts |-> 0]
    /\ result = [j \in Starts |-> "none"]
    /\ running = [a \in Actors |-> 0]
    /\ recent = [a \in Actors |-> << >>]

Tick ==
    /\ clock < MaxTime
    /\ clock' = clock + 1
    /\ UNCHANGED <<content, mutex, starts, jobs, llm, limits>>

(* Somebody saves the scene or the premise of the board. *)
Save(t) ==
    /\ \E c \in Contents \ {content[t]} :
        /\ content' = [content EXCEPT ![t] = c]
        /\ since' = [r \in Starts |->
                        IF TopicOf(r) = t /\ pc[r] \in {"waiting", "prepare"}
                        THEN since[r] \cup {c} ELSE since[r]]
    /\ UNCHANGED <<clock, mutex, pc, asked, seen, answer, jobs, llm, limits>>

-----------------------------------------------------------------------------
(* start *)

Arrive(r) ==
    /\ pc[r] = "idle"
    /\ pc' = [pc EXCEPT ![r] = "waiting"]
    /\ since' = [since EXCEPT ![r] = {content[TopicOf(r)]}]
    /\ UNCHANGED <<clock, content, mutex, asked, seen, answer, jobs, llm, limits>>

(* Fault: the time a run has taken counts, too. *)
OutdatedFromStart(j) == status[j] # "running" /\ startedAt[j] + Retention < clock

Outdated(j) == status[j] # "running" /\ finishedAt[j] + Retention < clock

(* sweep, at the beginning of start, get and list. *)
Swept(k) == {j \in table : ~(KindOf(j) = k /\ Outdated(j))}

(* Fault: the mutex guards single accesses to the table only. *)
EntersAnyway(r) == TRUE

MutexFree(r) == mutex[KindOf(r)] = Nobody

Lock(r) ==
    /\ pc[r] = "waiting"
    /\ MutexFree(r)
    /\ mutex' = [mutex EXCEPT ![KindOf(r)] = r]
    /\ table' = Swept(KindOf(r))
    /\ pc' = [pc EXCEPT ![r] = "prepare"]
    /\ UNCHANGED <<clock, content, asked, since, seen, answer, status, startedAt, finishedAt,
                   llm, limits>>

(* start returns. *)
Answer(r, j) ==
    /\ answer' = [answer EXCEPT ![r] = j]
    /\ pc' = [pc EXCEPT ![r] = "done"]
    /\ mutex' = [mutex EXCEPT ![KindOf(r)] = Nobody]
    /\ UNCHANGED <<clock, content, asked, since>>

(* prepare authorizes, validates and reads the board. *)
Prepare(r) ==
    /\ pc[r] = "prepare"
    /\ pc' = [pc EXCEPT ![r] = "lookup"]
    /\ seen' = [seen EXCEPT ![r] = IF KindOf(r) = "diagram" THEN AsSent
                                   ELSE content[TopicOf(r)]]
    /\ UNCHANGED <<clock, content, mutex, asked, since, answer, jobs, llm, limits>>

PrepareFails(r) ==
    /\ pc[r] = "prepare"
    /\ Answer(r, Nobody)
    /\ UNCHANGED <<seen, jobs, llm, limits>>

(* Fault: the key names the annotation, not what it holds. *)
SameInputByTopic(j, r) == asked[j] = asked[r]

(* Same actor, board and key. *)
SameInput(j, r) == asked[j] = asked[r] /\ seen[j] = seen[r]

Twins(r) == {j \in table : SameInput(j, r) /\ status[j] = "running"}

(* The same input is running already. *)
Join(r) ==
    /\ pc[r] = "lookup"
    /\ \E j \in Twins(r) : Answer(r, j)
    /\ UNCHANGED <<seen, jobs, llm, limits>>

NoTwin(r) ==
    /\ pc[r] = "lookup"
    /\ Twins(r) = {}
    /\ pc' = [pc EXCEPT ![r] = "enter"]
    /\ UNCHANGED <<clock, content, mutex, asked, since, seen, answer, jobs, llm, limits>>

(* Of what was counted, the oldest are dropped from the front, up to the   *)
(* first that is younger than the age.                                     *)
DropOlder(runs, age) ==
    LET Old(i) == startedAt[runs[i]] + age <= clock
        k == CHOOSE n \in 0 .. Len(runs) :
                /\ \A i \in 1 .. n : Old(i)
                /\ n < Len(runs) => ~Old(n + 1)
    IN  SubSeq(runs, k + 1, Len(runs))

(* Fault: the window is one too short. *)
WithinWindowShort(runs) == DropOlder(runs, RateWindow - 1)

WithinWindow(runs) == DropOlder(runs, RateWindow)

Full(a) == running[a] >= MaxConcurrent

Often(a) == RateLimit > 0 /\ Len(WithinWindow(recent[a])) >= RateLimit

(* Fault: a run counts before it is known whether there is a slot. *)
CountedAnyway(r) ==
    LET counted == recent[ActorOf(r)] IN
    IF RateLimit = 0 \/ Often(ActorOf(r)) THEN counted ELSE Append(WithinWindow(counted), r)

(* What refusing for want of a slot leaves of the window. *)
CountedWhenFull(r) == recent[ActorOf(r)]

RefuseFull(r) ==
    /\ pc[r] = "enter"
    /\ Full(ActorOf(r))
    /\ Answer(r, Nobody)
    /\ recent' = [recent EXCEPT ![ActorOf(r)] = CountedWhenFull(r)]
    /\ UNCHANGED <<seen, jobs, llm, running>>

RefuseOften(r) ==
    /\ pc[r] = "enter"
    /\ ~Full(ActorOf(r)) /\ Often(ActorOf(r))
    /\ Answer(r, Nobody)
    /\ recent' = [recent EXCEPT ![ActorOf(r)] = WithinWindow(@)]
    /\ UNCHANGED <<seen, jobs, llm, running>>

(* Acquire gives the slot, the entry is made, the goroutine begins. *)
Launch(r) ==
    /\ pc[r] = "enter"
    /\ ~Full(ActorOf(r)) /\ ~Often(ActorOf(r))
    /\ running' = [running EXCEPT ![ActorOf(r)] = @ + 1]
    /\ recent' = IF RateLimit = 0 THEN recent
                 ELSE [recent EXCEPT ![ActorOf(r)] = Append(WithinWindow(@), r)]
    /\ table' = table \cup {r}
    /\ status' = [status EXCEPT ![r] = "running"]
    /\ startedAt' = [startedAt EXCEPT ![r] = clock]
    /\ run' = [run EXCEPT ![r] = "calling"]
    /\ attempts' = [attempts EXCEPT ![r] = 1]
    /\ Answer(r, r)
    /\ UNCHANGED <<seen, finishedAt, ended, result>>

-----------------------------------------------------------------------------
(* get and list sweep and take nothing away otherwise. *)
Look(k) ==
    /\ mutex[k] = Nobody
    /\ table' = Swept(k)
    /\ UNCHANGED <<clock, content, mutex, starts, status, startedAt, finishedAt, llm, limits>>

(* discard: the context ends, the entry is gone; the slot stays taken.     *)
Discard(j) ==
    /\ j \in table
    /\ mutex[KindOf(j)] = Nobody
    /\ table' = table \ {j}
    /\ ended' = ended \cup {j}
    /\ UNCHANGED <<clock, content, mutex, starts, status, startedAt, finishedAt, run, attempts,
                   result, limits>>

(* Fault: only the one who started a job can end it. *)
NeverExpires(j) == FALSE

(* The upper bound of a run; the last time stands for all later ones.      *)
Expires(j) == clock >= startedAt[j] + JobTimeout \/ clock = MaxTime

TimeOut(j) ==
    /\ run[j] = "calling"
    /\ Expires(j)
    /\ ended' = ended \cup {j}
    /\ UNCHANGED <<clock, content, mutex, starts, jobs, run, attempts, result, limits>>

-----------------------------------------------------------------------------
(* The goroutine of a job *)

Returns(j, r) ==
    /\ run[j] = "calling"
    /\ run' = [run EXCEPT ![j] = "returned"]
    /\ result' = [result EXCEPT ![j] = r]
    /\ UNCHANGED <<clock, content, mutex, starts, jobs, ended, attempts, limits>>

(* The answer can be read. *)
CallReturns(j) == Returns(j, "succeeded")

(* The call fails or panics and is not repeated, or the last of the        *)
(* attempts cannot be read.                                                *)
CallFails(j) == Returns(j, "failed")

AttemptsLeft(j) == attempts[j] < MaxAttempts

(* The answer cannot be read: it is sent back with what is wrong with it.  *)
CallAgain(j) ==
    /\ run[j] = "calling"
    /\ AttemptsLeft(j)
    /\ attempts' = [attempts EXCEPT ![j] = @ + 1]
    /\ UNCHANGED <<clock, content, mutex, starts, jobs, ended, run, result, limits>>

(* Fault: the end can be read before the slot is free. *)
FinishableEarly(j) == run[j] \in {"returned", "released"}

Finishable(j) == run[j] = "released"

Release(j) ==
    /\ run[j] = "returned"
    /\ run' = [run EXCEPT ![j] = "released"]
    /\ running' = [running EXCEPT ![ActorOf(j)] = @ - 1]
    /\ UNCHANGED <<clock, content, mutex, starts, jobs, ended, attempts, result, recent>>

(* Fault: the deferred release counts a second time. *)
ReleasedTwice(j) == [running EXCEPT ![ActorOf(j)] = IF @ = 0 THEN 0 ELSE @ - 1]

(* The deferred release is the same OnceFunc. *)
ReleasedOnce(j) == running

Finish(j) ==
    /\ Finishable(j)
    /\ mutex[KindOf(j)] = Nobody
    /\ run' = [run EXCEPT ![j] = "over"]
    /\ status' = [status EXCEPT ![j] = result[j]]
    /\ finishedAt' = [finishedAt EXCEPT ![j] = clock]
    /\ running' = ReleasedOnce(j)
    /\ ended' = ended \cup {j}
    /\ UNCHANGED <<clock, content, mutex, starts, table, startedAt, attempts, result, recent>>

Serve(r) ==
    \/ Lock(r) \/ Prepare(r) \/ PrepareFails(r)
    \/ Join(r) \/ NoTwin(r) \/ RefuseFull(r) \/ RefuseOften(r) \/ Launch(r)

Next ==
    \/ Tick
    \/ \E t \in Topics : Save(t)
    \/ \E r \in Starts :
        \/ Arrive(r) \/ Serve(r) \/ Discard(r) \/ TimeOut(r)
        \/ CallReturns(r) \/ CallFails(r) \/ CallAgain(r) \/ Release(r) \/ Finish(r)
    \/ \E k \in Kinds : Look(k)

Spec == Init /\ [][Next]_vars

(* The model may never answer; its adapter gives up when the context ends. *)
GivesUp(j) == j \in ended /\ CallFails(j)

FairSpec ==
    /\ Spec
    /\ WF_vars(Tick)
    /\ \A r \in Starts :
        /\ WF_vars(Serve(r))
        /\ WF_vars(TimeOut(r))
        /\ WF_vars(GivesUp(r))
        /\ WF_vars(Release(r))
        /\ WF_vars(Finish(r))

-----------------------------------------------------------------------------
(* Properties *)

HoldsSlot(j) == run[j] \in {"calling", "returned"}

(* The limiter counts exactly the runs under way, also the discarded ones, *)
(* however a run ends: no slot is lost and none is given back twice.       *)
SlotsMatchRuns ==
    \A a \in Actors : running[a] = Cardinality({j \in Starts : HoldsSlot(j) /\ ActorOf(j) = a})

(* Whoever reads that a job is over can start the next one: the slots      *)
(* taken are never more than the jobs not yet written as over.             *)
OverMeansFree ==
    \A a \in Actors :
        running[a] <= Cardinality({j \in Starts : status[j] = "running" /\ ActorOf(j) = a})

(* What the limiter counts can be relied on: it neither loses nor makes up *)
(* a slot, and it is free by the time the end of a job can be read.        *)
SlotsFollowRuns == SlotsMatchRuns /\ OverMeansFree

(* The same input of the same user is never being worked on twice, unless  *)
(* the first job was discarded.                                            *)
OneRunPerInput ==
    \A i, j \in table :
        SameInput(i, j) /\ status[i] = "running" /\ status[j] = "running" => i = j

(* A start is never answered with a job that works on something older than *)
(* what was saved when the request arrived.                                *)
AnswerIsCurrent ==
    \A r \in Starts :
        answer[r] # Nobody /\ KindOf(r) = "interpretation" => seen[answer[r]] \in since[r]

Launched(a) == {j \in Starts : run[j] # "none" /\ ActorOf(j) = a}

(* Within any window no more runs begin than the limit, and what was       *)
(* refused does not count.                                                 *)
RateKept ==
    RateLimit > 0 =>
        \A a \in Actors :
            LET young == {j \in Launched(a) : clock < startedAt[j] + RateWindow}
            IN  Cardinality(young) <= RateLimit

OnlyRunsCount ==
    \A a \in Actors : \A n \in DOMAIN recent[a] :
        /\ recent[a][n] \in Launched(a)
        /\ \A m \in DOMAIN recent[a] : recent[a][m] = recent[a][n] => m = n

(* The rate limit counts every run of the window and nothing but runs.     *)
RateIsExact == RateKept /\ OnlyRunsCount

(* A result somebody paid for stays for the whole retention, counted from  *)
(* the end of the run, unless its owner discards it.                       *)
KeptForRetention ==
    [][\A j \in table \ table' :
        \/ Discard(j)
        \/ status[j] # "running" /\ finishedAt[j] + Retention < clock]_vars

(* Every run ends and gives its slot back, even if the model never answers *)
(* and whether or not anybody still waits for it.                          *)
EveryRunEnds == \A j \in Starts : run[j] = "calling" ~> run[j] = "over"

=============================================================================
