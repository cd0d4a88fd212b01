------------------------------ MODULE Ekidoki ------------------------------
(***************************************************************************)
(* One open board (web/src/board): the canvas and its saves, the list of   *)
(* annotations, the "ekidoki" that saves before it reads, interpretations  *)
(* run as jobs of the server, the creation of draft issues, the history of *)
(* those, and the import of a file.                                        *)
(*                                                                         *)
(* JavaScript runs one handler at a time.  An action is what runs between  *)
(* two awaits of one function; a call is sent, served and answered.  When  *)
(* the reading that functions wait for settles they go on before anything  *)
(* else happens (`Due`).                                                   *)
(*                                                                         *)
(* Of a generation only one thing is kept, whether it is the latest: an    *)
(* older one does nothing but end.  Likewise for the epoch of a save.      *)
(***************************************************************************)
EXTENDS Naturals, Sequences, FiniteSets

CONSTANTS
    Texts, Shapes,      \* what is drawn in the frames: texts are hashed, shapes are not
    Annotations,        \* frames marked as annotations
    Pictures, Data,     \* ids of pasted pictures, and what is in the picture
    Jobs, Asks, Flows,  \* jobs of the server, and slots of calls and of presses
    None,
    FirstScene, File,   \* the scene the board opens with, the file that may be imported
    Pasteable,          \* pictures that may be pasted, under the hash of their data
    MaxVersion,         \* bound on saves
    MaxRuns,            \* bound on creations
    Habits              \* what users may be doing together, in one behaviour

Marks  == Texts \cup Shapes
Placed == [id : Pictures, data : Data]
Things == Marks \cup Annotations \cup Placed

ASSUME EkidokiAssumption ==
    /\ FirstScene \subseteq Things /\ File \subseteq Things /\ Pasteable \subseteq Placed
    /\ MaxVersion \in Nat \ {0, 1} /\ MaxRuns \in Nat
    /\ Habits \subseteq SUBSET {"text", "shape", "frame", "paste", "save", "import", "others",
                             "flow", "interpret", "cancel", "reopen", "create",
                             "history", "loss", "again"}

\* Ids are not shared by what is of different kinds, and no scene or file has two
\* pictures under one id.  What is pasted is named by the hash of its data.
OnePictureEach(s) == \A p, o \in s \cap Placed : p.id = o.id => p = o

ASSUME ThingsAreApart ==
    /\ Texts \cap (Shapes \cup Annotations) = {} /\ Shapes \cap Annotations = {}
    /\ (Marks \cup Annotations) \cap Placed = {}
    /\ None \notin Data \cup Jobs \cup Annotations \cup Flows
    /\ OnePictureEach(FirstScene) /\ OnePictureEach(File) /\ OnePictureEach(Pasteable)

VARIABLES
    canvas, loaded,     \* the elements drawn, and the pictures Excalidraw holds
    signed,             \* useDirtyScene: the scene of savedSignature
    running,            \* useExclusion: the one operation that runs
    save,               \* useSceneSave: the save in flight
    base, held,         \* its version and the pictures the server said it holds
    conflicted,
    reading, list,      \* useAnnotationStates: the latest request, and what it set
    flows,              \* useEkidoki: presses that wait for a save or the list
    asks,               \* useInterpretations: interpretations being started
    views,              \* its state per annotation
    jobIds, deletes,    \* the jobs it follows, and the discards on their way
    restoring,          \* its reading of the jobs when the board opened
    creation,           \* useCreation
    histories,          \* useRunHistories
    told,               \* creations the page knows of
    scenes, stored,     \* the server: saved scenes, pictures of the last,
    jobs, made,         \* interpretation jobs, and creations of each annotation
    does

drawing   == <<canvas, loaded, signed>>
saving    == <<running, save, base, held, conflicted>>
lists     == <<reading, list>>
following == <<asks, views, jobIds, deletes, restoring>>
creating  == <<creation, histories, told>>
server    == <<scenes, stored, jobs, made>>
vars      == <<drawing, saving, lists, flows, following, creating, server, does>>

Latest == scenes[Len(scenes)]
Dirty  == canvas # signed

-----------------------------------------------------------------------------
(* What the calls carry *)

\* Pictures a scene refers to.
ReferencedFileIds(s) == {p.id : p \in s \cap Placed}

\* Those the server does not hold and the canvas has.
FilesToSave == [i \in Pictures |->
    IF i \in ReferencedFileIds(canvas) \ held THEN loaded[i] ELSE None]

\* The text of an annotation, which the server reads in the saved scene and hashes,
\* and its image, which the page draws from the canvas.
Text(s)  == s \cap Texts
Image(s) == s \cap Marks

NoSave == [step |-> "idle"]
Save == [step : {"sent", "written", "refused", "failed", "refreshing"},
         content : SUBSET Things, files : [Pictures -> Data \cup {None}],
         by : Flows \cup {None}, version : 1 .. MaxVersion, held : SUBSET Pictures]

Reading == [state : {"none", "sent", "served"}, ok : BOOLEAN, version : 0 .. MaxVersion,
            ids : SUBSET Annotations, made : [Annotations -> 0 .. MaxRuns]]
NoRuns  == [a \in Annotations |-> 0]
Read0   == [version |-> 0, ids |-> {}, made |-> NoRuns]

Flow   == [step : {"idle", "saving", "refreshing"}, at : Annotations \cup {None}]
NoFlow == [step |-> "idle", at |-> None]

NoAsk == [step |-> "idle"]
Ask   == [step : {"drawing", "sent", "served"}, at : Annotations, image : SUBSET Marks,
          latest : BOOLEAN, overtaken : BOOLEAN, job : Jobs \cup {None}]

NoJob == [state |-> "none"]
Job   == [state : {"running", "done", "failed", "gone"}, at : Annotations,
          text : SUBSET Texts, image : SUBSET Marks]

Outcomes == {"none", "done", "failed", "thrown"}

\* `polls`: the loop of the latest generation looks at `job`.  `kept`: what it was
\* told while a cancellation waits for its answer.
View == [running : BOOLEAN, polls : BOOLEAN, tracked : Jobs \cup {None},
         kept : Outcomes, cancels : Jobs \cup {None}, cancel : {"none", "sent", "served"},
         shown : {None} \cup [text : SUBSET Texts, image : SUBSET Marks, restored : BOOLEAN],
         restored : BOOLEAN]
NoView == [running |-> FALSE, polls |-> FALSE, tracked |-> None, kept |-> "none",
           cancels |-> None, cancel |-> "none", shown |-> None, restored |-> FALSE]

NoCreation == [step |-> "idle"]
Creation == [step : {"sent", "served", "failed", "refreshing"}, at : Annotations,
             text : SUBSET Texts]

History == [step : {"none", "sent", "served"}, latest : BOOLEAN, runs : 0 .. MaxRuns,
            read : BOOLEAN, shown : 0 .. MaxRuns]
NoHistory == [step |-> "none", latest |-> FALSE, runs |-> 0, read |-> FALSE, shown |-> 0]

TypeOK ==
    /\ canvas \subseteq Things /\ signed \subseteq Things
    /\ loaded \in [Pictures -> Data \cup {None}]
    /\ running \in {"none", "saving", "importing", "creating"}
    /\ save \in Save \cup {NoSave}
    /\ base \in 1 .. MaxVersion /\ held \subseteq Pictures /\ conflicted \in BOOLEAN
    /\ reading \in Reading
    /\ list \in [version : 0 .. MaxVersion, ids : SUBSET Annotations,
                 made : [Annotations -> 0 .. MaxRuns]]
    /\ flows \in [Flows -> Flow]
    /\ asks \in [Asks -> Ask \cup {NoAsk}]
    /\ views \in [Annotations -> View]
    /\ jobIds \subseteq Jobs /\ deletes \subseteq Jobs
    /\ restoring \in [step : {"none", "sent", "served"}, overtaken : BOOLEAN,
                      jobs : SUBSET Jobs]
    /\ creation \in Creation \cup {NoCreation}
    /\ histories \in [Annotations -> History]
    /\ told \in [Annotations -> 0 .. MaxRuns]
    /\ scenes \in Seq(SUBSET Things) /\ Len(scenes) \in 1 .. MaxVersion
    /\ stored \in [Pictures -> Data \cup {None}]
    /\ jobs \in [Jobs -> Job \cup {NoJob}]
    /\ made \in [Annotations -> 0 .. MaxRuns]
    /\ does \in Habits

\* The pictures of the first scene.
FirstPictures == [i \in Pictures |->
    IF \E p \in FirstScene \cap Placed : p.id = i
      THEN (CHOOSE p \in FirstScene \cap Placed : p.id = i).data ELSE None]

\* Reopening a board finds a job that was left running, maybe of another scene.
LeftJobs == IF "reopen" \in does
              THEN [state : {"running"}, at : FirstScene \cap Annotations,
                    text : SUBSET Texts, image : {Image(FirstScene)}]
              ELSE {NoJob}

Init ==
    /\ does \in Habits
    /\ canvas = FirstScene /\ signed = FirstScene /\ loaded = FirstPictures
    /\ running = "none" /\ save = NoSave /\ base = 1 /\ conflicted = FALSE
    /\ held = ReferencedFileIds(FirstScene)
    /\ reading = [state |-> "sent", ok |-> FALSE, version |-> 0, ids |-> {}, made |-> NoRuns]
    /\ list = Read0
    /\ flows = [f \in Flows |-> NoFlow]
    /\ asks = [q \in Asks |-> NoAsk]
    /\ views = [a \in Annotations |-> NoView]
    /\ jobIds = {} /\ deletes = {}
    /\ restoring = [step |-> IF "reopen" \in does THEN "sent" ELSE "none",
                    overtaken |-> FALSE, jobs |-> {}]
    /\ creation = NoCreation /\ histories = [a \in Annotations |-> NoHistory]
    /\ told = NoRuns
    /\ scenes = <<FirstScene>> /\ stored = FirstPictures /\ made = NoRuns
    /\ \E first \in Jobs, left \in LeftJobs :
         jobs = [j \in Jobs |-> IF j = first THEN left ELSE NoJob]

-----------------------------------------------------------------------------
(* What the functions share *)

\* A function waits for a reading that has settled; nothing else runs before it.
Due == /\ reading.state = "none"
       /\ \/ \E f \in Flows : flows[f].step = "refreshing"
          \/ save.step = "refreshing" \/ creation.step = "refreshing"

\* Only some behaviours save more than once: the others say more with less.
Limit == IF "again" \in does THEN MaxVersion ELSE 2

\* Calls may fail, and answers get lost.
Loss == "loss" \in does
Answered(step) == {step} \cup (IF Loss THEN {"failed"} ELSE {})

(* Fault: a request that is on its way is shared. *)
RefreshShared ==
    IF reading.state = "none"
      THEN reading' = [state |-> "sent", ok |-> FALSE, version |-> 0, ids |-> {},
                       made |-> NoRuns]
      ELSE UNCHANGED reading

RefreshAnnotations ==
    reading' = [state |-> "sent", ok |-> FALSE, version |-> 0, ids |-> {}, made |-> NoRuns]

\* A new generation: what was started for `a` before is no longer the latest.
StartOver(qs, a) == [q \in Asks |->
    IF qs[q].step # "idle" /\ qs[q].at = a THEN [qs[q] EXCEPT !.latest = FALSE] ELSE qs[q]]

(* Fault: what is being started survives a save. *)
InvalidateNone(qs) == qs

InvalidateAll(qs) == [q \in Asks |->
    IF qs[q].step # "idle" THEN [qs[q] EXCEPT !.latest = FALSE, !.overtaken = TRUE] ELSE qs[q]]

Cleared(v) == [NoView EXCEPT !.cancels = v.cancels, !.cancel = v.cancel]

\* discardAfterSave, but for the list.
DiscardAll ==
    /\ asks' = InvalidateAll(asks)
    /\ views' = [a \in Annotations |-> Cleared(views[a])]
    /\ deletes' = deletes \cup jobIds /\ jobIds' = {}
    /\ restoring' = [restoring EXCEPT !.overtaken = TRUE]

\* startInterpretation: the loop of an older generation ends, the tracked job stays.
Begun(v) == [v EXCEPT !.running = TRUE, !.polls = FALSE, !.kept = "none", !.restored = FALSE]

Tracked(v, j, restored) == [v EXCEPT !.tracked = j, !.polls = TRUE, !.restored = restored]

\* addInterpretation and failInterpretation; untrack leaves another job alone.
Settled(v, j, outcome) ==
    [v EXCEPT !.running = FALSE, !.polls = FALSE, !.kept = "none", !.tracked = None,
              !.shown = IF outcome = "done"
                          THEN [text |-> jobs[j].text, image |-> jobs[j].image,
                                restored |-> v.restored]
                          ELSE @]

(* Fault: a request that fails leaves the annotation running. *)
FailedRunning(v) == v

Failed(v) == [v EXCEPT !.running = FALSE]

-----------------------------------------------------------------------------
(* The canvas *)

Toggled(s, x) == IF x \in s THEN s \ {x} ELSE s \cup {x}

\* The user draws, erases, marks a frame as an annotation or takes the mark away.
\* Nothing that runs stops them.
Draw(x) ==
    /\ ~Due
    /\ \/ x \in Texts /\ "text" \in does
       \/ x \in Shapes /\ "shape" \in does
       \/ x \in Annotations /\ "frame" \in does
    /\ canvas' = Toggled(canvas, x)
    /\ UNCHANGED <<loaded, signed, saving, lists, flows, following, creating, server, does>>

\* The data of a pasted picture may come after its element.
Paste(p) ==
    /\ ~Due /\ "paste" \in does /\ p \notin canvas /\ loaded[p.id] \in {None, p.data}
    /\ canvas' = canvas \cup {p}
    /\ \E d \in {loaded[p.id], p.data} : loaded' = [loaded EXCEPT ![p.id] = d]
    /\ UNCHANGED <<signed, saving, lists, flows, following, creating, server, does>>

PictureLoads(p) ==
    /\ ~Due /\ p \in canvas /\ loaded[p.id] = None
    /\ loaded' = [loaded EXCEPT ![p.id] = p.data]
    /\ UNCHANGED <<canvas, signed, saving, lists, flows, following, creating, server, does>>

RemovePicture(p) ==
    /\ ~Due /\ "paste" \in does /\ p \in canvas
    /\ canvas' = canvas \ {p}
    /\ UNCHANGED <<loaded, signed, saving, lists, flows, following, creating, server, does>>

-----------------------------------------------------------------------------
(* useBoardTransfer: a file replaces the canvas *)

Import ==
    /\ ~Due /\ "import" \in does /\ running = "none"
    /\ running' = "importing"
    /\ UNCHANGED <<drawing, save, base, held, conflicted, lists, flows, following, creating,
                   server, does>>

\* The file cannot be read, or the user keeps what is not saved.
ImportRefused ==
    /\ ~Due /\ running = "importing"
    /\ running' = "none"
    /\ UNCHANGED <<drawing, save, base, held, conflicted, lists, flows, following, creating,
                   server, does>>

Used == (UNION {scenes[n] : n \in DOMAIN scenes}) \cup canvas \cup File

\* Every annotation of the file gets an id nobody has.
RemapAnnotationIds(fresh) ==
    (File \ Annotations) \cup {fresh[a] : a \in File \cap Annotations}

FreshAnnotationIds ==
    {fresh \in [File \cap Annotations -> Annotations \ Used] :
        \A a, b \in DOMAIN fresh : fresh[a] = fresh[b] => a = b}

(* Fault: pictures keep the ids of the file. *)
ClashingNever == {}

\* addFiles does not replace what the canvas has under an id: where that is another
\* picture, the one of the file gets an id nobody has.
Clashing == {p \in File \cap Placed : loaded[p.id] \notin {None, p.data}}

LoadedFileIds == {i \in Pictures : loaded[i] # None}

FreshFileIds ==
    {fresh \in [Clashing -> Pictures \ (LoadedFileIds \cup ReferencedFileIds(Used \cup Pasteable))] :
        \A p, o \in DOMAIN fresh : fresh[p] = fresh[o] => p = o}

RemapFileIds(s, fresh) ==
    (s \ Clashing) \cup {[id |-> fresh[p], data |-> p.data] : p \in Clashing}

AddFiles(s) == [i \in Pictures |->
    IF loaded[i] = None /\ \E p \in s \cap Placed : p.id = i
      THEN (CHOOSE p \in s \cap Placed : p.id = i).data ELSE loaded[i]]

\* Asked and answered in one step with the replacement: there is no await between.
ImportReplaces ==
    /\ ~Due /\ running = "importing"
    /\ running' = "none"
    /\ \E frames \in FreshAnnotationIds, files \in FreshFileIds :
         canvas' = RemapFileIds(RemapAnnotationIds(frames), files)
    /\ loaded' = AddFiles(canvas')
    /\ UNCHANGED <<signed, save, base, held, conflicted, lists, flows, following, creating,
                   server, does>>

-----------------------------------------------------------------------------
(* useSceneSave *)

\* What is sent is read now; what is drawn later stays unsaved.
StartSave(by) ==
    /\ running' = "saving"
    /\ save' = [step |-> "sent", content |-> canvas, files |-> FilesToSave, by |-> by,
                version |-> base, held |-> {}]

\* The button, the "ekidoki" of the page and Ctrl+S.
CanSave == running = "none"

PressSave ==
    /\ ~Due /\ "save" \in does /\ CanSave
    /\ StartSave(None)
    /\ UNCHANGED <<drawing, base, held, conflicted, lists, flows, following, creating,
                   server, does>>

\* The server keeps the pictures the scene refers to: those sent, those it had.
KeptPictures(s, files) == [i \in Pictures |->
    IF i \notin ReferencedFileIds(s) THEN None
    ELSE IF files[i] # None THEN files[i] ELSE stored[i]]

\* The compare-and-set on the version.  The answer may be lost after the write.
ServeSave ==
    /\ ~Due /\ save.step = "sent"
    /\ \/ /\ save.version = Len(scenes) /\ Len(scenes) < Limit
          /\ scenes' = Append(scenes, save.content)
          /\ stored' = KeptPictures(save.content, save.files)
          /\ \E step \in Answered("written") :
               save' = [save EXCEPT !.step = step, !.version = Len(scenes'),
                                    !.held = {i \in Pictures : stored'[i] # None}]
       \/ /\ save.version # Len(scenes) \/ Len(scenes) = Limit \/ Loss
          /\ save' = [save EXCEPT !.step = IF save.version = Len(scenes)
                                             THEN "failed" ELSE "refused"]
          /\ UNCHANGED <<scenes, stored>>
    /\ UNCHANGED <<drawing, running, base, held, conflicted, lists, flows, following,
                   creating, jobs, made, does>>

(* Fault: the canvas is compared with itself when the answer comes. *)
SaveArrivesAsDrawn ==
    /\ ~Due /\ save.step = "written"
    /\ base' = save.version /\ held' = save.held /\ conflicted' = FALSE
    /\ signed' = canvas
    /\ DiscardAll
    /\ RefreshAnnotations
    /\ save' = [save EXCEPT !.step = "refreshing"]
    /\ UNCHANGED <<canvas, loaded, running, list, flows, creating, server, does>>

SaveArrives ==
    /\ ~Due /\ save.step = "written"
    /\ base' = save.version /\ held' = save.held /\ conflicted' = FALSE
    /\ signed' = save.content
    /\ DiscardAll
    /\ RefreshAnnotations
    /\ save' = [save EXCEPT !.step = "refreshing"]
    /\ UNCHANGED <<canvas, loaded, running, list, flows, creating, server, does>>

\* Refused or failed: nothing is thrown away, and a press that waits for it ends.
SaveFails ==
    /\ ~Due /\ save.step \in {"refused", "failed"}
    /\ conflicted' = (conflicted \/ save.step = "refused")
    /\ running' = "none" /\ save' = NoSave
    /\ flows' = [f \in Flows |-> IF f = save.by THEN NoFlow ELSE flows[f]]
    /\ UNCHANGED <<drawing, base, held, lists, following, creating, server, does>>

OthersSave(x) ==
    /\ ~Due /\ "others" \in does /\ Len(scenes) < Limit
    /\ scenes' = Append(scenes, Toggled(Latest, x))
    /\ UNCHANGED <<drawing, saving, lists, flows, following, creating, stored, jobs, made,
                   does>>

-----------------------------------------------------------------------------
(* useAnnotationStates *)

ServeReading ==
    /\ ~Due /\ reading.state = "sent"
    /\ reading' = [state |-> "served", ok |-> FALSE, version |-> Len(scenes),
                   ids |-> Latest \cap Annotations, made |-> made]
    /\ UNCHANGED <<drawing, saving, list, flows, following, creating, server, does>>

Unanswered == [state |-> "none", ok |-> FALSE, version |-> 0, ids |-> {}, made |-> NoRuns]

ReadingArrives ==
    /\ ~Due /\ reading.state = "served"
    /\ list' = [version |-> reading.version, ids |-> reading.ids, made |-> reading.made]
    /\ reading' = [Unanswered EXCEPT !.ok = TRUE]
    /\ UNCHANGED <<drawing, saving, flows, following, creating, server, does>>

ReadingFails ==
    /\ ~Due /\ Loss /\ reading.state # "none"
    /\ reading' = Unanswered
    /\ UNCHANGED <<drawing, saving, list, flows, following, creating, server, does>>

-----------------------------------------------------------------------------
(* useInterpretations: starting one *)

Interpret(a) == \E q \in Asks :
    /\ asks[q].step = "idle"
    /\ asks' = [StartOver(asks, a) EXCEPT
                  ![q] = [step |-> "drawing", at |-> a, image |-> Image(canvas),
                          latest |-> TRUE, overtaken |-> FALSE, job |-> None]]
    /\ views' = [views EXCEPT ![a] = Begun(@)]
    /\ UNCHANGED <<jobIds, deletes, restoring>>

Gone(q) == [asks EXCEPT ![q] = NoAsk]

\* The image is ready.  An ask that is no longer the latest is not sent.
SendAsk(q) ==
    /\ ~Due /\ asks[q].step = "drawing"
    /\ asks' = IF asks[q].latest THEN [asks EXCEPT ![q].step = "sent"] ELSE Gone(q)
    /\ UNCHANGED <<drawing, saving, lists, flows, views, jobIds, deletes, restoring,
                   creating, server, does>>

\* The server interprets the text it has saved.  A job that runs on the same text of
\* the annotation is joined, whatever its image.
Joined(a, text) == {j \in Jobs : /\ jobs[j].state = "running"
                                 /\ jobs[j].at = a /\ jobs[j].text = text}

ServeAsk(q) ==
    LET a == asks[q].at IN
    /\ ~Due /\ asks[q].step = "sent" /\ a \in Latest
    /\ \E j \in Jobs :
         /\ IF Joined(a, Text(Latest)) # {}
              THEN j \in Joined(a, Text(Latest)) /\ UNCHANGED jobs
              ELSE /\ jobs[j].state = "none"
                   /\ jobs' = [jobs EXCEPT ![j] = [state |-> "running", at |-> a,
                                 text |-> Text(Latest), image |-> asks[q].image]]
         /\ asks' = [asks EXCEPT ![q].step = "served", ![q].job = j]
    /\ UNCHANGED <<drawing, saving, lists, flows, views, jobIds, deletes, restoring,
                   creating, scenes, stored, made, does>>

\* A save came between: the job is of an older scene.  A newer request came between:
\* it follows the job.
AskArrives(q) ==
    LET a == asks[q].at  j == asks[q].job IN
    /\ ~Due /\ asks[q].step = "served"
    /\ asks' = Gone(q)
    /\ IF asks[q].overtaken
         THEN /\ jobIds' = jobIds \ {j} /\ deletes' = deletes \cup {j}
              /\ UNCHANGED views
         ELSE IF asks[q].latest
         THEN /\ jobIds' = jobIds \cup {j}
              /\ views' = [views EXCEPT ![a] = Tracked(@, j, FALSE)]
              /\ UNCHANGED deletes
         ELSE UNCHANGED <<views, jobIds, deletes>>
    /\ UNCHANGED <<drawing, saving, lists, flows, restoring, creating, server, does>>

\* No image, refused, or no answer.
AskFails(q) ==
    LET a == asks[q].at IN
    /\ ~Due /\ asks[q].step # "idle"
    /\ Loss \/ (asks[q].step = "sent" /\ asks[q].at \notin Latest)
    /\ asks' = Gone(q)
    /\ views' = IF asks[q].latest THEN [views EXCEPT ![a] = Failed(@)] ELSE views
    /\ UNCHANGED <<drawing, saving, lists, flows, jobIds, deletes, restoring, creating,
                   server, does>>

-----------------------------------------------------------------------------
(* Following a job, and cancelling it *)

\* settle: what the loop was told is taken, and a job that has ended is discarded.
\* A loop that gave up leaves the job alone.
Settle(a, outcome) ==
    LET j == views[a].tracked IN
    /\ views' = [views EXCEPT ![a] = [Settled(@, j, outcome) EXCEPT !.cancel = "none",
                                                                    !.cancels = None]]
    /\ IF outcome = "thrown"
         THEN UNCHANGED <<jobIds, deletes>>
         ELSE jobIds' = jobIds \ {j} /\ deletes' = deletes \cup {j}

\* A job that is gone answers 404; five failures in a row are as final.
Outcome(j) ==
    CASE jobs[j].state \in {"done", "failed"} -> {jobs[j].state}
      [] jobs[j].state = "gone"              -> {"thrown"}
      [] OTHER                               -> IF Loss THEN {"thrown"} ELSE {}

\* pollJob.  While a cancellation waits for its answer the outcome is kept.
Poll(a) ==
    /\ ~Due /\ views[a].polls /\ views[a].kept = "none"
    /\ \E outcome \in Outcome(views[a].tracked) :
         IF views[a].cancel = "none"
           THEN Settle(a, outcome)
           ELSE /\ views' = [views EXCEPT ![a].kept = outcome]
                /\ UNCHANGED <<jobIds, deletes>>
    /\ UNCHANGED <<drawing, saving, lists, flows, asks, restoring, creating, server, does>>

Cancel(a) ==
    /\ ~Due /\ "cancel" \in does
    /\ views[a].running /\ views[a].polls /\ views[a].cancel = "none"
    /\ views' = [views EXCEPT ![a].cancels = views[a].tracked, ![a].cancel = "sent"]
    /\ UNCHANGED <<drawing, saving, lists, flows, asks, jobIds, deletes, restoring, creating,
                   server, does>>

ServeCancel(a) ==
    /\ ~Due /\ views[a].cancel = "sent"
    /\ views' = [views EXCEPT ![a].cancel = "served"]
    /\ jobs' = [jobs EXCEPT ![views[a].cancels].state = "gone"]
    /\ UNCHANGED <<drawing, saving, lists, flows, asks, jobIds, deletes, restoring, creating,
                   scenes, stored, made, does>>

\* The cancellation is over and changed nothing: what was kept is taken after all.
TakeKept(a) ==
    IF views[a].polls /\ views[a].kept # "none"
      THEN Settle(a, views[a].kept)
      ELSE /\ views' = [views EXCEPT ![a].cancel = "none", ![a].cancels = None]
           /\ UNCHANGED <<jobIds, deletes>>

\* discardTracked.  If a save threw the job away meanwhile there is nothing to stop.
CancelArrives(a) ==
    /\ ~Due /\ views[a].cancel = "served"
    /\ IF views[a].tracked = views[a].cancels
         THEN /\ asks' = StartOver(asks, a)
              /\ views' = [views EXCEPT ![a] = [NoView EXCEPT !.shown = views[a].shown]]
              /\ jobIds' = jobIds \ {views[a].cancels}
              /\ UNCHANGED deletes
         ELSE TakeKept(a) /\ UNCHANGED asks
    /\ UNCHANGED <<drawing, saving, lists, flows, restoring, creating, server, does>>

CancelFails(a) ==
    /\ ~Due /\ Loss /\ views[a].cancel # "none"
    /\ TakeKept(a)
    /\ UNCHANGED <<drawing, saving, lists, flows, asks, restoring, creating, server, does>>

\* When the board opens: jobs left running or not received.
ServeRestore ==
    /\ ~Due /\ restoring.step = "sent"
    /\ restoring' = [restoring EXCEPT !.step = "served",
                        !.jobs = {j \in Jobs : jobs[j].state \in {"running", "done", "failed"}}]
    /\ UNCHANGED <<drawing, saving, lists, flows, asks, views, jobIds, deletes, creating,
                   server, does>>

Restored == [restoring EXCEPT !.step = "none", !.jobs = {}]

\* Of several jobs of an annotation the last of the list is followed.  A save came
\* between: none is.
RestoreArrives ==
    LET found == restoring.jobs
        at == {jobs[j].at : j \in found}
    IN
    /\ ~Due /\ restoring.step = "served"
    /\ restoring' = Restored
    /\ IF restoring.overtaken
         THEN /\ deletes' = deletes \cup found /\ jobIds' = jobIds \ found
              /\ UNCHANGED <<asks, views>>
         ELSE /\ \E last \in [at -> found] :
                   /\ \A a \in at : jobs[last[a]].at = a
                   /\ views' = [a \in Annotations |->
                        IF a \in at THEN Tracked(Begun(views[a]), last[a], TRUE)
                                    ELSE views[a]]
              /\ asks' = [q \in Asks |->
                   IF asks[q].step # "idle" /\ asks[q].at \in at
                     THEN [asks[q] EXCEPT !.latest = FALSE] ELSE asks[q]]
              /\ jobIds' = jobIds \cup found
              /\ UNCHANGED deletes
    /\ UNCHANGED <<drawing, saving, lists, flows, creating, server, does>>

RestoreFails ==
    /\ ~Due /\ Loss /\ restoring.step # "none"
    /\ restoring' = Restored
    /\ UNCHANGED <<drawing, saving, lists, flows, asks, views, jobIds, deletes, creating,
                   server, does>>

\* The server: a job ends, or is forgotten (its time is up, or the server starts anew).
JobEnds(j) ==
    /\ ~Due
    /\ \/ /\ jobs[j].state = "running"
          /\ \E state \in {"done", "failed"} : jobs' = [jobs EXCEPT ![j].state = state]
       \/ /\ Loss /\ jobs[j].state \in {"running", "done", "failed"}
          /\ jobs' = [jobs EXCEPT ![j].state = "gone"]
    /\ UNCHANGED <<drawing, saving, lists, flows, following, creating, scenes, stored, made,
                   does>>

\* A discard arrives, or is lost: nobody looks at its answer.
Discard(j) ==
    /\ ~Due /\ j \in deletes
    /\ deletes' = deletes \ {j}
    /\ \/ jobs' = [jobs EXCEPT ![j].state = "gone"]
       \/ Loss /\ UNCHANGED jobs
    /\ UNCHANGED <<drawing, saving, lists, flows, asks, views, jobIds, restoring, creating,
                   scenes, stored, made, does>>

-----------------------------------------------------------------------------
(* useEkidoki: save until nothing is unsaved, read the list, look again *)

\* One turn of the loops of saveAndRefresh, when `op` runs and `s` is the save in
\* flight.
Proceed(f, x, op, s) ==
    \/ /\ Dirty /\ op = "none"
       /\ StartSave(f)
       /\ flows' = [flows EXCEPT ![f] = [step |-> "saving", at |-> x]]
       /\ UNCHANGED reading
    \/ /\ Dirty /\ op # "none"
       /\ flows' = [flows EXCEPT ![f] = NoFlow]
       /\ running' = op /\ save' = s /\ UNCHANGED reading
    \/ /\ ~Dirty
       /\ RefreshAnnotations
       /\ flows' = [flows EXCEPT ![f] = [step |-> "refreshing", at |-> x]]
       /\ running' = op /\ save' = s

\* The detail of an annotation is there while the list has it.  One annotation is
\* interpreted at a time.
InterpretControl(x) ==
    /\ x \in list.ids /\ running # "saving"
    /\ \A o \in Annotations : ~views[o].running

\* The button of the page (`x` is None), or of the detail of an annotation.
Press(f, x) ==
    /\ ~Due /\ "flow" \in does /\ flows[f].step = "idle"
    /\ Cardinality({q \in Asks : asks[q].step = "idle"})
         > Cardinality({g \in Flows : flows[g].step # "idle"})
    /\ IF x = None THEN CanSave ELSE "interpret" \in does /\ InterpretControl(x)
    /\ Proceed(f, x, running, save)
    /\ UNCHANGED <<drawing, base, held, conflicted, list, following, creating, server, does>>

\* The list has been read for a press.  What was drawn meanwhile is saved first; an
\* annotation that is not saved any more is not read.
FlowReads(f) ==
    LET x == flows[f].at IN
    /\ flows[f].step = "refreshing" /\ reading.state = "none"
    /\ \/ /\ reading.ok /\ Dirty
          /\ Proceed(f, x, running, save)
          /\ UNCHANGED following
       \/ /\ reading.ok /\ ~Dirty /\ x \in list.ids
          /\ Interpret(x)
          /\ flows' = [flows EXCEPT ![f] = NoFlow]
          /\ UNCHANGED <<reading, running, save>>
       \/ /\ ~reading.ok \/ (~Dirty /\ x \notin list.ids)
          /\ flows' = [flows EXCEPT ![f] = NoFlow]
          /\ UNCHANGED <<reading, running, save, following>>
    /\ UNCHANGED <<drawing, base, held, conflicted, list, creating, server, does>>

\* The list has been read for a save, which is now over.
SaveEnds ==
    /\ save.step = "refreshing" /\ reading.state = "none"
    /\ IF save.by = None
         THEN /\ running' = "none" /\ save' = NoSave
              /\ UNCHANGED <<flows, reading>>
         ELSE Proceed(save.by, flows[save.by].at, "none", NoSave)
    /\ UNCHANGED <<drawing, base, held, conflicted, list, following, creating, server, does>>

-----------------------------------------------------------------------------
(* useCreation and useRunHistories *)

CreateControl(a) == a \in list.ids /\ running = "none" /\ views[a].shown # None

Create(a) ==
    /\ ~Due /\ "create" \in does /\ CreateControl(a) /\ made[a] < MaxRuns
    /\ running' = "creating"
    /\ creation' = [step |-> "sent", at |-> a, text |-> views[a].shown.text]
    /\ UNCHANGED <<drawing, save, base, held, conflicted, lists, flows, following, histories,
                   told, server, does>>

\* The server refuses an interpretation of another text.  The answer may be lost.
ServeCreation ==
    LET a == creation.at IN
    /\ ~Due /\ creation.step = "sent"
    /\ \/ /\ a \in Latest /\ Text(Latest) = creation.text
          /\ made' = [made EXCEPT ![a] = @ + 1]
          /\ \E step \in Answered("served") : creation' = [creation EXCEPT !.step = step]
       \/ /\ Loss \/ a \notin Latest \/ Text(Latest) # creation.text
          /\ creation' = [creation EXCEPT !.step = "failed"]
          /\ UNCHANGED made
    /\ UNCHANGED <<drawing, saving, lists, flows, following, histories, told, scenes, stored,
                   jobs, does>>

(* Fault: what is being read goes on. *)
DiscardShownRuns(h) == [h EXCEPT !.read = FALSE, !.shown = 0]

\* What was read is put away, and what is being read is no longer the latest.
DiscardRuns(h) == [h EXCEPT !.latest = FALSE, !.read = FALSE, !.shown = 0]

CreationArrives ==
    LET a == creation.at IN
    /\ ~Due /\ creation.step = "served"
    /\ told' = [told EXCEPT ![a] = made[a]]
    /\ histories' = [histories EXCEPT ![a] = DiscardRuns(@)]
    /\ RefreshAnnotations
    /\ creation' = [creation EXCEPT !.step = "refreshing"]
    /\ UNCHANGED <<drawing, saving, list, flows, following, server, does>>

CreationEnds ==
    /\ \/ creation.step = "refreshing" /\ reading.state = "none"
       \/ creation.step = "failed" /\ ~Due
    /\ creation' = NoCreation /\ running' = "none"
    /\ UNCHANGED <<drawing, save, base, held, conflicted, lists, flows, following, histories,
                   told, server, does>>

\* Only a press reads the history, and a second press while it is read does nothing.
LoadHistory(a) ==
    /\ ~Due /\ "history" \in does /\ histories[a].step = "none"
    /\ histories' = [histories EXCEPT ![a] = [NoHistory EXCEPT !.step = "sent",
                                                               !.latest = TRUE]]
    /\ UNCHANGED <<drawing, saving, lists, flows, following, creation, told, server, does>>

ServeHistory(a) ==
    /\ ~Due /\ histories[a].step = "sent"
    /\ histories' = [histories EXCEPT ![a].step = "served", ![a].runs = made[a]]
    /\ UNCHANGED <<drawing, saving, lists, flows, following, creation, told, server, does>>

HistoryArrives(a) ==
    /\ ~Due /\ histories[a].step = "served"
    /\ histories' = [histories EXCEPT ![a] =
         IF @.latest THEN [NoHistory EXCEPT !.read = TRUE, !.shown = histories[a].runs]
                     ELSE NoHistory]
    /\ UNCHANGED <<drawing, saving, lists, flows, following, creation, told, server, does>>

HistoryFails(a) ==
    /\ ~Due /\ Loss /\ histories[a].step # "none"
    /\ histories' = [histories EXCEPT ![a] = NoHistory]
    /\ UNCHANGED <<drawing, saving, lists, flows, following, creation, told, server, does>>

-----------------------------------------------------------------------------
Next ==
    \/ \E x \in Marks \cup Annotations : Draw(x)
    \/ \E p \in Pasteable : Paste(p)
    \/ \E p \in Placed : PictureLoads(p)
    \/ \E p \in Placed : RemovePicture(p)
    \/ Import
    \/ ImportRefused
    \/ ImportReplaces
    \/ PressSave
    \/ ServeSave
    \/ SaveArrives
    \/ SaveFails
    \/ SaveEnds
    \/ \E x \in Texts : OthersSave(x)
    \/ ServeReading
    \/ ReadingArrives
    \/ ReadingFails
    \/ \E f \in Flows, x \in Annotations \cup {None} : Press(f, x)
    \/ \E f \in Flows : FlowReads(f)
    \/ \E q \in Asks : SendAsk(q)
    \/ \E q \in Asks : ServeAsk(q)
    \/ \E q \in Asks : AskArrives(q)
    \/ \E q \in Asks : AskFails(q)
    \/ \E a \in Annotations : Poll(a)
    \/ \E a \in Annotations : Cancel(a)
    \/ \E a \in Annotations : ServeCancel(a)
    \/ \E a \in Annotations : CancelArrives(a)
    \/ \E a \in Annotations : CancelFails(a)
    \/ ServeRestore
    \/ RestoreArrives
    \/ RestoreFails
    \/ \E j \in Jobs : JobEnds(j)
    \/ \E j \in Jobs : Discard(j)
    \/ \E a \in Annotations : Create(a)
    \/ ServeCreation
    \/ CreationArrives
    \/ CreationEnds
    \/ \E a \in Annotations : LoadHistory(a)
    \/ \E a \in Annotations : ServeHistory(a)
    \/ \E a \in Annotations : HistoryArrives(a)
    \/ \E a \in Annotations : HistoryFails(a)

Spec == Init /\ [][Next]_vars

-----------------------------------------------------------------------------
(* What must hold *)

\* "Not unsaved" means that the server has it: what the canvas is compared with is
\* the scene saved under the version the next save stands on, whatever was drawn,
\* imported or saved by others while a save was on its way (markSaved, ADR 0021).
CleanMeansSaved == signed = scenes[base]

\* Every picture is shown, and kept by the server, with its own data, although a save
\* sends only what the server is thought not to hold and an imported file may use the
\* same id for another picture (filesToSave, remapImportedFileIds, ADR 0074).
PicturesAreTheirOwn ==
    /\ \A p \in canvas \cap Placed : loaded[p.id] \in {None, p.data}
    /\ \A p \in Latest \cap Placed : stored[p.id] \in {None, p.data}

\* A result on the screen is of a scene that is not older than the last save of this
\* page, unless it was found when the board opened (discardAfterSave, generations and
\* epoch of useInterpretations).
FreshResults == \A a \in Annotations :
    (views[a].shown # None /\ ~views[a].shown.restored) =>
        \E n \in base .. Len(scenes) : views[a].shown.text = Text(scenes[n])

\* When no reading is on its way and the last one came, the list shows the last save
\* and every creation this page was told of, however readings overtook each other
\* (useAnnotationStates).
ListFollowsSaves == (reading.state = "none" /\ reading.ok) =>
    /\ list.version >= base
    /\ \A a \in Annotations : list.made[a] >= told[a]

\* A history on the screen has every creation this page was told of (useRunHistories).
HistoryIsWhole == \A a \in Annotations :
    histories[a].read => histories[a].shown >= told[a]

\* What this page was told of a creation, the list and the history go on showing.
ToldIsShown == ListFollowsSaves /\ HistoryIsWhole

\* An annotation is shown as being interpreted exactly while something is on its way
\* that will end it: the latest request, or the loop on its job.  Otherwise the button
\* stays disabled, or a second request goes out (useInterpretations).
RunningIsSeen == \A a \in Annotations :
    views[a].running <=>
        \/ views[a].polls
        \/ \E q \in Asks : asks[q].step # "idle" /\ asks[q].at = a /\ asks[q].latest
=============================================================================
