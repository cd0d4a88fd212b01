--------------------------- MODULE Ekidoki_proofs ---------------------------
(***************************************************************************)
(* What the page of a board keeps, for every set of things drawn, of jobs, *)
(* of requests and presses on their way, and whatever users do together:   *)
(* what counts as saved is saved, pictures and results are of what they    *)
(* are shown for, what was created stays in sight, and what is shown as    *)
(* running will end.                                                       *)
(***************************************************************************)
EXTENDS Ekidoki, SequenceTheorems, TLAPS

-----------------------------------------------------------------------------
(* The inductive invariant *)

(* The types, by what the steps leave alone together. *)
DrawingTyped ==
    /\ canvas \subseteq Things /\ signed \subseteq Things
    /\ loaded \in [Pictures -> Data \cup {None}]

SavingTyped ==
    /\ running \in {"none", "saving", "importing", "creating"}
    /\ save \in Save \cup {NoSave}
    /\ base \in 1 .. MaxVersion /\ held \subseteq Pictures /\ conflicted \in BOOLEAN

ListsTyped ==
    /\ reading \in Reading
    /\ list \in [version : 0 .. MaxVersion, ids : SUBSET Annotations,
                 made : [Annotations -> 0 .. MaxRuns]]

FlowsTyped == flows \in [Flows -> Flow]

FollowingTyped ==
    /\ asks \in [Asks -> Ask \cup {NoAsk}]
    /\ views \in [Annotations -> View]
    /\ jobIds \subseteq Jobs /\ deletes \subseteq Jobs
    /\ restoring \in [step : {"none", "sent", "served"}, overtaken : BOOLEAN,
                      jobs : SUBSET Jobs]

CreatingTyped ==
    /\ creation \in Creation \cup {NoCreation}
    /\ histories \in [Annotations -> History]
    /\ told \in [Annotations -> 0 .. MaxRuns]

ServerTyped ==
    /\ scenes \in Seq(SUBSET Things) /\ Len(scenes) \in 1 .. MaxVersion
    /\ stored \in [Pictures -> Data \cup {None}]
    /\ jobs \in [Jobs -> Job \cup {NoJob}]
    /\ made \in [Annotations -> 0 .. MaxRuns]

(* The version the page stands on was saved, and so was what an answer on  *)
(* its way says was written.                                               *)
SceneInv ==
    /\ base \in DOMAIN scenes
    /\ save.step # "idle" => save.version \in DOMAIN scenes
    /\ save.step = "written" => scenes[save.version] = save.content
    /\ CleanMeansSaved

(* Excalidraw holds the data of every picture of a scene, but for a pasted *)
(* one that is still loading.                                              *)
Own(scene) ==
    \A p \in scene \cap Placed :
        \/ loaded[p.id] = p.data
        \/ loaded[p.id] = None /\ p \in Pasteable

(* What is sent and what is stored is what Excalidraw holds: it replaces   *)
(* nothing.                                                                *)
PictureInv ==
    /\ Own(canvas)
    /\ save.step # "idle" =>
        /\ Own(save.content)
        /\ \A i \in Pictures : save.files[i] # None => loaded[i] = save.files[i]
    /\ \A i \in Pictures : stored[i] # None => loaded[i] = stored[i]
    /\ \A p \in Latest \cap Placed : stored[p.id] \in {None, p.data}

(* The server has made every job the page has heard of. *)
Known(j) == j \in Jobs /\ jobs[j].state # "none"

(* The latest request for an annotation that is on its way. *)
Awaits(q, a) == asks[q].step # "idle" /\ asks[q].latest /\ asks[q].at = a

(* A text of the scene the page stands on, or of a later one. *)
Fresh(text) == \E n \in base .. Len(scenes) : text = Text(scenes[n])

(* An annotation is running by one thing that will end it, a loop or a     *)
(* request; what is shown, and what the loop will bring, is of such a text. *)
Followed(a) ==
    LET v == views[a]
    IN  /\ v.polls => Known(v.tracked)
        /\ v.tracked # None => Known(v.tracked)
        /\ v.cancel # "none" => Known(v.cancels)
        /\ v.running <=> v.polls \/ \E q \in Asks : Awaits(q, a)
        /\ v.polls => \A q \in Asks : ~Awaits(q, a)
        /\ v.shown # None /\ ~v.shown.restored => Fresh(v.shown.text)
        /\ v.polls /\ ~v.restored => Fresh(jobs[v.tracked].text)

(* So is what the latest request will bring, which no save came before.    *)
Sound(q) ==
    /\ asks[q].step # "idle" /\ asks[q].overtaken => ~asks[q].latest
    /\ asks[q].step = "served" =>
        /\ Known(asks[q].job)
        /\ asks[q].latest => Fresh(jobs[asks[q].job].text)

OneLatest == \A a \in Annotations : \A q, r \in Asks : Awaits(q, a) /\ Awaits(r, a) => q = r

FollowInv ==
    /\ \A j \in jobIds \cup deletes \cup restoring.jobs : Known(j)
    /\ \A a \in Annotations : Followed(a)
    /\ \A q \in Asks : Sound(q)
    /\ OneLatest

(* Whatever was read after the page was told has what it was told. *)
ToldInv ==
    /\ ToldIsShown
    /\ \A a \in Annotations : told[a] <= made[a]
    /\ reading.state = "served" =>
        /\ reading.version >= base
        /\ \A a \in Annotations : reading.made[a] >= told[a]
    /\ \A a \in Annotations :
        histories[a].step = "served" /\ histories[a].latest => histories[a].runs >= told[a]

(* A creation was asked for where one more can be made. *)
CreationFits == creation.step = "sent" => made[creation.at] < MaxRuns

(* One operation runs at a time: a save and a creation exclude each other, *)
(* and whatever else takes the turn.                                       *)
OneRuns ==
    /\ save.step # "idle" => running = "saving"
    /\ creation.step # "idle" => running = "creating"

PageInv ==
    /\ TypeOK /\ CreationFits /\ OneRuns
    /\ SceneInv /\ PictureInv
    /\ FollowInv
    /\ ToldInv

-----------------------------------------------------------------------------
(* The steps, by what they leave alone *)

DrawStep ==
    \/ \E x \in Marks \cup Annotations : Draw(x)
    \/ \E p \in Pasteable : Paste(p)
    \/ \E p \in Placed : PictureLoads(p) \/ RemovePicture(p)

ImportStep == Import \/ ImportRefused

ReadStep == ServeReading \/ ReadingArrives \/ ReadingFails

(* Requests to interpret, and the jobs they lead to. *)
JobStep ==
    \/ \E q \in Asks : SendAsk(q) \/ ServeAsk(q) \/ AskArrives(q) \/ AskFails(q)
    \/ \E a \in Annotations : Poll(a) \/ Cancel(a) \/ ServeCancel(a) \/ CancelArrives(a)
                                \/ CancelFails(a)
    \/ ServeRestore \/ RestoreArrives \/ RestoreFails
    \/ \E j \in Jobs : JobEnds(j) \/ Discard(j)

HistoryStep ==
    \E a \in Annotations :
        LoadHistory(a) \/ ServeHistory(a) \/ HistoryArrives(a) \/ HistoryFails(a)

(* Every step is one of these. *)
LEMMA Steps ==
    ASSUME Next
    PROVE  \/ DrawStep \/ ImportStep \/ ImportReplaces
           \/ PressSave \/ ServeSave \/ SaveArrives \/ SaveFails \/ SaveEnds
           \/ \E x \in Texts : OthersSave(x)
           \/ ReadStep
           \/ \E f \in Flows, x \in Annotations \cup {None} : Press(f, x)
           \/ \E f \in Flows : FlowReads(f)
           \/ JobStep
           \/ \E a \in Annotations : Create(a)
           \/ ServeCreation \/ CreationArrives \/ CreationEnds \/ HistoryStep
  BY DEF Next, DrawStep, ImportStep, ReadStep, JobStep, HistoryStep

(* Drawing changes the canvas, and loads pictures. *)
LEMMA DrawLeaves ==
    ASSUME DrawStep
    PROVE  UNCHANGED <<signed, saving, lists, flows, following, creating, server, does>>
  BY DEF DrawStep, Draw, Paste, PictureLoads, RemovePicture

(* Asking for a file only takes the place of the one operation that runs. *)
LEMMA ImportLeaves ==
    ASSUME ImportStep
    PROVE  UNCHANGED <<drawing, save, base, held, conflicted, lists, flows, following, creating,
                       server, does>>
  BY DEF ImportStep, Import, ImportRefused

(* Reading the list changes the list. *)
LEMMA ReadLeaves ==
    ASSUME ReadStep
    PROVE  UNCHANGED <<drawing, saving, flows, following, creating, server, does>>
  BY DEF ReadStep, ServeReading, ReadingArrives, ReadingFails

(* Interpretations change what is followed, and the jobs. *)
LEMMA JobLeaves ==
    ASSUME JobStep
    PROVE  UNCHANGED <<drawing, saving, lists, flows, creating, scenes, stored, made, does>>
<1>1. ASSUME NEW q \in Asks, SendAsk(q) \/ ServeAsk(q) \/ AskArrives(q) \/ AskFails(q)
      PROVE  UNCHANGED <<drawing, saving, lists, flows, creating, scenes, stored, made, does>>
  BY <1>1 DEF SendAsk, ServeAsk, AskArrives, AskFails, server
<1>2. ASSUME NEW a \in Annotations,
             Poll(a) \/ Cancel(a) \/ ServeCancel(a) \/ CancelArrives(a) \/ CancelFails(a)
      PROVE  UNCHANGED <<drawing, saving, lists, flows, creating, scenes, stored, made, does>>
  BY <1>2 DEF Poll, Cancel, ServeCancel, CancelArrives, CancelFails, server
<1>3. ASSUME ServeRestore \/ RestoreArrives \/ RestoreFails
      PROVE  UNCHANGED <<drawing, saving, lists, flows, creating, scenes, stored, made, does>>
  BY <1>3 DEF ServeRestore, RestoreArrives, RestoreFails, server
<1>4. ASSUME NEW j \in Jobs, JobEnds(j) \/ Discard(j)
      PROVE  UNCHANGED <<drawing, saving, lists, flows, creating, scenes, stored, made, does>>
  BY <1>4 DEF JobEnds, Discard
<1> QED
  BY <1>1, <1>2, <1>3, <1>4 DEF JobStep

(* Reading a history changes that history. *)
LEMMA HistoryLeaves ==
    ASSUME HistoryStep
    PROVE  UNCHANGED <<drawing, saving, lists, flows, following, creation, told, server, does>>
  BY DEF HistoryStep, LoadHistory, ServeHistory, HistoryArrives, HistoryFails

-----------------------------------------------------------------------------
(* Which steps change what *)

(* What is drawn changes by drawing, by a file and by what was saved. *)
LEMMA DrawingMoves ==
    ASSUME Next
    PROVE  DrawStep \/ ImportReplaces \/ SaveArrives \/ UNCHANGED drawing
<1>1. CASE PressSave \/ ServeSave \/ SaveFails \/ SaveEnds \/ \E x \in Texts : OthersSave(x)
  BY <1>1 DEF PressSave, ServeSave, SaveFails, SaveEnds, OthersSave
<1>2. CASE \E f \in Flows : FlowReads(f) \/ \E x \in Annotations \cup {None} : Press(f, x)
  BY <1>2 DEF Press, FlowReads
<1>3. CASE (\E a \in Annotations : Create(a)) \/ ServeCreation \/ CreationArrives \/ CreationEnds
  BY <1>3 DEF Create, ServeCreation, CreationArrives, CreationEnds
<1> QED
  BY Steps, ImportLeaves, ReadLeaves, JobLeaves, HistoryLeaves, <1>1, <1>2, <1>3

(* What is saved changes by saves, and when one operation takes its turn. *)
LEMMA SavingMoves ==
    ASSUME Next
    PROVE  \/ ImportStep \/ ImportReplaces
           \/ PressSave \/ ServeSave \/ SaveArrives \/ SaveFails \/ SaveEnds
           \/ \E f \in Flows, x \in Annotations \cup {None} : Press(f, x)
           \/ \E f \in Flows : FlowReads(f)
           \/ \E a \in Annotations : Create(a)
           \/ CreationEnds
           \/ UNCHANGED saving
<1>1. CASE (\E x \in Texts : OthersSave(x)) \/ ServeCreation \/ CreationArrives
  BY <1>1 DEF OthersSave, ServeCreation, CreationArrives
<1> QED
  BY Steps, DrawLeaves, ReadLeaves, JobLeaves, HistoryLeaves, <1>1

(* The list changes by readings, which presses, saves and creations ask for. *)
LEMMA ListsMoves ==
    ASSUME Next
    PROVE  \/ ReadStep \/ SaveArrives \/ SaveEnds \/ CreationArrives
           \/ \E f \in Flows, x \in Annotations \cup {None} : Press(f, x)
           \/ \E f \in Flows : FlowReads(f)
           \/ UNCHANGED lists
<1>1. CASE ImportReplaces \/ PressSave \/ ServeSave \/ SaveFails \/ \E x \in Texts : OthersSave(x)
  BY <1>1 DEF ImportReplaces, PressSave, ServeSave, SaveFails, OthersSave
<1>2. CASE (\E a \in Annotations : Create(a)) \/ ServeCreation \/ CreationEnds
  BY <1>2 DEF Create, ServeCreation, CreationEnds
<1> QED
  BY Steps, DrawLeaves, ImportLeaves, JobLeaves, HistoryLeaves, <1>1, <1>2

(* Presses wait for saves and for the list. *)
LEMMA FlowsMoves ==
    ASSUME Next
    PROVE  \/ SaveFails \/ SaveEnds
           \/ \E f \in Flows, x \in Annotations \cup {None} : Press(f, x)
           \/ \E f \in Flows : FlowReads(f)
           \/ UNCHANGED flows
<1>1. CASE ImportReplaces \/ PressSave \/ ServeSave \/ SaveArrives \/ \E x \in Texts : OthersSave(x)
  BY <1>1 DEF ImportReplaces, PressSave, ServeSave, SaveArrives, OthersSave
<1>2. CASE (\E a \in Annotations : Create(a)) \/ ServeCreation \/ CreationArrives \/ CreationEnds
  BY <1>2 DEF Create, ServeCreation, CreationArrives, CreationEnds
<1> QED
  BY Steps, DrawLeaves, ImportLeaves, ReadLeaves, JobLeaves, HistoryLeaves, <1>1, <1>2

(* What is followed changes with the jobs, is begun by a press, and is     *)
(* thrown away by a save.                                                  *)
LEMMA FollowingMoves ==
    ASSUME Next
    PROVE  \/ JobStep \/ SaveArrives
           \/ \E f \in Flows : FlowReads(f)
           \/ UNCHANGED following
<1>1. CASE \/ ImportReplaces \/ PressSave \/ ServeSave \/ SaveFails \/ SaveEnds
           \/ \E x \in Texts : OthersSave(x)
  BY <1>1 DEF ImportReplaces, PressSave, ServeSave, SaveFails, SaveEnds, OthersSave
<1>2. CASE \E f \in Flows, x \in Annotations \cup {None} : Press(f, x)
  BY <1>2 DEF Press
<1>3. CASE (\E a \in Annotations : Create(a)) \/ ServeCreation \/ CreationArrives \/ CreationEnds
  BY <1>3 DEF Create, ServeCreation, CreationArrives, CreationEnds
<1> QED
  BY Steps, DrawLeaves, ImportLeaves, ReadLeaves, HistoryLeaves, <1>1, <1>2, <1>3

(* Creations and histories change by themselves. *)
LEMMA CreatingMoves ==
    ASSUME Next
    PROVE  \/ \E a \in Annotations : Create(a)
           \/ ServeCreation \/ CreationArrives \/ CreationEnds \/ HistoryStep
           \/ UNCHANGED creating
<1>1. CASE \/ ImportReplaces \/ PressSave \/ ServeSave \/ SaveArrives \/ SaveFails \/ SaveEnds
           \/ \E x \in Texts : OthersSave(x)
  BY <1>1 DEF ImportReplaces, PressSave, ServeSave, SaveArrives, SaveFails, SaveEnds, OthersSave
<1>2. CASE \E f \in Flows : FlowReads(f) \/ \E x \in Annotations \cup {None} : Press(f, x)
  BY <1>2 DEF Press, FlowReads
<1> QED
  BY Steps, DrawLeaves, ImportLeaves, ReadLeaves, JobLeaves, <1>1, <1>2

(* The server saves, makes and runs jobs. *)
LEMMA ServerMoves ==
    ASSUME Next
    PROVE  \/ ServeSave \/ ServeCreation \/ JobStep
           \/ \E x \in Texts : OthersSave(x)
           \/ UNCHANGED server
<1>1. CASE ImportReplaces \/ PressSave \/ SaveArrives \/ SaveFails \/ SaveEnds
  BY <1>1 DEF ImportReplaces, PressSave, SaveArrives, SaveFails, SaveEnds
<1>2. CASE \E f \in Flows : FlowReads(f) \/ \E x \in Annotations \cup {None} : Press(f, x)
  BY <1>2 DEF Press, FlowReads
<1>3. CASE (\E a \in Annotations : Create(a)) \/ CreationArrives \/ CreationEnds
  BY <1>3 DEF Create, CreationArrives, CreationEnds
<1> QED
  BY Steps, DrawLeaves, ImportLeaves, ReadLeaves, HistoryLeaves, <1>1, <1>2, <1>3

(* What users do together stays. *)
LEMMA HabitsStay ==
    ASSUME Next
    PROVE  does' = does
<1>1. CASE \/ ImportReplaces \/ PressSave \/ ServeSave \/ SaveArrives \/ SaveFails \/ SaveEnds
           \/ \E x \in Texts : OthersSave(x)
  BY <1>1 DEF ImportReplaces, PressSave, ServeSave, SaveArrives, SaveFails, SaveEnds, OthersSave
<1>2. CASE \E f \in Flows : FlowReads(f) \/ \E x \in Annotations \cup {None} : Press(f, x)
  BY <1>2 DEF Press, FlowReads
<1>3. CASE (\E a \in Annotations : Create(a)) \/ ServeCreation \/ CreationArrives \/ CreationEnds
  BY <1>3 DEF Create, ServeCreation, CreationArrives, CreationEnds
<1> QED
  BY Steps, DrawLeaves, ImportLeaves, ReadLeaves, JobLeaves, HistoryLeaves, <1>1, <1>2, <1>3

-----------------------------------------------------------------------------
(* Pictures of a file *)

(* What a file brings: its own pictures where Excalidraw has no other      *)
(* under their id, the others under an id that nothing has.                *)
LEMMA ImportedPictures ==
    ASSUME TypeOK, NEW frames \in FreshAnnotationIds, NEW files \in FreshFileIds,
           NEW scene, scene = RemapFileIds(RemapAnnotationIds(frames), files)
    PROVE  /\ scene \subseteq Things
           /\ OnePictureEach(scene)
           /\ \A p \in scene \cap Placed : loaded[p.id] \in {None, p.data}
<1> DEFINE Renamed == {[id |-> files[p], data |-> p.data] : p \in Clashing}
           Kept == (File \cap Placed) \ Clashing
<1>1. /\ frames \in [File \cap Annotations -> Annotations]
      /\ files \in [Clashing -> Pictures]
      /\ \A p \in Clashing : loaded[files[p]] = None /\ files[p] \notin ReferencedFileIds(Used)
      /\ \A p, o \in Clashing : files[p] = files[o] => p = o
  BY DEF FreshAnnotationIds, FreshFileIds, LoadedFileIds, ReferencedFileIds
<1>2. Clashing \subseteq File \cap Placed
  BY DEF Clashing
<1>3. /\ \A p \in Placed : p.id \in Pictures /\ p.data \in Data /\ p = [id |-> p.id, data |-> p.data]
      /\ \A i \in Pictures, d \in Data : [id |-> i, data |-> d] \in Placed
  BY DEF Placed
<1>4. Renamed \subseteq Placed
  BY <1>1, <1>2, <1>3
<1>5. File \subseteq Things
  BY EkidokiAssumption
<1>6. scene \subseteq Things /\ scene \cap Placed = Kept \cup Renamed
  <2>1. RemapAnnotationIds(frames) \subseteq Things
    BY <1>1, <1>5 DEF RemapAnnotationIds, Things
  <2>2. RemapAnnotationIds(frames) \cap Placed = File \cap Placed
    BY <1>1, <1>5, ThingsAreApart DEF RemapAnnotationIds, Things
  <2>3. scene = (RemapAnnotationIds(frames) \ Clashing) \cup Renamed
    BY DEF RemapFileIds
  <2> QED
    BY <2>1, <2>2, <2>3, <1>4, <1>2 DEF Things
<1>7. \A p \in Kept : loaded[p.id] \in {None, p.data}
  BY <1>2 DEF Clashing
<1>8. \A p \in Renamed : /\ loaded[p.id] = None
                         /\ \A o \in Kept : p.id # o.id
  <2> SUFFICES ASSUME NEW c \in Clashing
               PROVE  loaded[files[c]] = None /\ \A o \in Kept : files[c] # o.id
    OBVIOUS
  <2>1. \A o \in Kept : o.id \in ReferencedFileIds(Used)
    <3>1. File \subseteq Used
      BY Zenon DEF Used
    <3> QED
      BY <3>1 DEF ReferencedFileIds
  <2> QED
    BY <1>1, <2>1
<1>9. \A p, o \in Renamed : p.id = o.id => p = o
  BY <1>1
<1>10. \A p, o \in Kept : p.id = o.id => p = o
  BY ThingsAreApart DEF OnePictureEach
<1> QED
  <2> HIDE DEF Kept, Renamed
  <2>1. \A p \in scene \cap Placed : p \in Kept \/ p \in Renamed
    BY <1>6
  <2>2. OnePictureEach(scene)
    BY <2>1, <1>8, <1>9, <1>10 DEF OnePictureEach
  <2>3. \A p \in scene \cap Placed : loaded[p.id] \in {None, p.data}
    BY <2>1, <1>7, <1>8
  <2> QED
    BY <2>2, <2>3, <1>6

(* Files are added only where there is none.                               *)
LEMMA AddedFiles ==
    ASSUME TypeOK, NEW scene, OnePictureEach(scene)
    PROVE  /\ AddFiles(scene) \in [Pictures -> Data \cup {None}]
           /\ \A i \in Pictures : loaded[i] # None => AddFiles(scene)[i] = loaded[i]
           /\ \A p \in scene \cap Placed : loaded[p.id] = None => AddFiles(scene)[p.id] = p.data
<1>1. loaded \in [Pictures -> Data \cup {None}]
  BY DEF TypeOK
<1>2. \A p \in Placed : p.id \in Pictures /\ p.data \in Data
  BY DEF Placed
<1>3. ASSUME NEW p \in scene \cap Placed
      PROVE  (CHOOSE o \in scene \cap Placed : o.id = p.id) = p
  BY DEF OnePictureEach
<1>4. ASSUME NEW i \in Pictures, \E p \in scene \cap Placed : p.id = i
      PROVE  (CHOOSE o \in scene \cap Placed : o.id = i) \in scene \cap Placed
  BY <1>4
<1>5. ASSUME NEW i \in Pictures
      PROVE  /\ AddFiles(scene)[i] \in Data \cup {None}
             /\ loaded[i] # None => AddFiles(scene)[i] = loaded[i]
  BY <1>1, <1>2, <1>4 DEF AddFiles
<1>6. ASSUME NEW p \in scene \cap Placed, loaded[p.id] = None
      PROVE  AddFiles(scene)[p.id] = p.data
  BY <1>2, <1>3, <1>6 DEF AddFiles
<1>7. AddFiles(scene) = [i \in Pictures |-> AddFiles(scene)[i]]
  BY DEF AddFiles
<1> QED
  BY <1>5, <1>6, <1>7

-----------------------------------------------------------------------------
(* Types *)

(* The type invariant, in the parts above.                                 *)
LEMMA TypeParts ==
    TypeOK <=> /\ DrawingTyped /\ SavingTyped /\ ListsTyped /\ FlowsTyped /\ FollowingTyped
               /\ CreatingTyped /\ ServerTyped /\ does \in Habits
  BY DEF TypeOK, DrawingTyped, SavingTyped, ListsTyped, FlowsTyped, FollowingTyped,
         CreatingTyped, ServerTyped

(* A save that was begun has its content and its files.                    *)
LEMMA SaveTyped ==
    ASSUME SavingTyped, save.step # "idle"
    PROVE  save \in Save
  BY DEF SavingTyped, NoSave

(* What is drawn stays of things, and what is loaded of data.              *)
LEMMA DrawingType ==
    ASSUME TypeOK, Next
    PROVE  DrawingTyped'
<1>1. DrawingTyped /\ SavingTyped
  BY TypeParts
<1>2. CASE DrawStep
  <2>1. ASSUME NEW x \in Marks \cup Annotations, Draw(x)
        PROVE  DrawingTyped'
    BY <1>1, <2>1 DEF Draw, Toggled, DrawingTyped, Things
  <2>2. ASSUME NEW p \in Placed,
               (p \in Pasteable /\ Paste(p)) \/ PictureLoads(p) \/ RemovePicture(p)
        PROVE  DrawingTyped'
    <3>1. p.id \in Pictures /\ p.data \in Data /\ p \in Things
      BY DEF Placed, Things
    <3> QED
      BY <1>1, <2>2, <3>1 DEF Paste, PictureLoads, RemovePicture, DrawingTyped
  <2>3. \A p \in Pasteable : p \in Placed
    BY EkidokiAssumption
  <2> QED
    BY <1>2, <2>1, <2>2, <2>3 DEF DrawStep
<1>3. CASE ImportReplaces
  <2>1. PICK frames \in FreshAnnotationIds, files \in FreshFileIds :
            canvas' = RemapFileIds(RemapAnnotationIds(frames), files)
    BY <1>3 DEF ImportReplaces
  <2>2. canvas' \subseteq Things /\ OnePictureEach(canvas')
    BY <2>1, ImportedPictures
  <2>3. loaded' = AddFiles(canvas') /\ signed' = signed
    BY <1>3 DEF ImportReplaces
  <2> QED
    BY <1>1, <2>2, <2>3, AddedFiles DEF DrawingTyped
<1>4. CASE SaveArrives
  BY <1>1, <1>4, SaveTyped DEF SaveArrives, DrawingTyped, Save
<1>5. CASE UNCHANGED drawing
  BY <1>1, <1>5 DEF drawing, DrawingTyped
<1> QED
  BY <1>2, <1>3, <1>4, <1>5, DrawingMoves

(* What is sent has the types of a save.                                   *)
LEMMA StartedSave ==
    ASSUME TypeOK, NEW by \in Flows \cup {None}, StartSave(by)
    PROVE  save' \in Save /\ running' = "saving"
<1>1. FilesToSave \in [Pictures -> Data \cup {None}]
  BY DEF FilesToSave, TypeOK
<1> QED
  BY <1>1 DEF StartSave, Save, TypeOK

(* A reading that is asked for.                                            *)
LEMMA AskedReading ==
    /\ [state |-> "sent", ok |-> FALSE, version |-> 0, ids |-> {}, made |-> NoRuns] \in Reading
    /\ Unanswered \in Reading /\ [Unanswered EXCEPT !.ok = TRUE] \in Reading
<1>1. NoRuns \in [Annotations -> 0 .. MaxRuns] /\ 0 \in 0 .. MaxVersion
  BY EkidokiAssumption DEF NoRuns
<1> QED
  BY <1>1 DEF Reading, Unanswered

(* A turn of a press keeps the types of what it moves.                     *)
LEMMA ProceedTypes ==
    ASSUME TypeOK, NEW f \in Flows, NEW x \in Annotations \cup {None},
           NEW op \in {"none", "saving", "importing", "creating"}, NEW s \in Save \cup {NoSave},
           Proceed(f, x, op, s)
    PROVE  /\ save' \in Save \cup {NoSave}
           /\ running' \in {"none", "saving", "importing", "creating"}
           /\ flows' \in [Flows -> Flow]
           /\ reading' \in Reading
<1>1. flows \in [Flows -> Flow] /\ reading \in Reading
  BY DEF TypeOK
<1>2. NoFlow \in Flow /\ \A step \in {"saving", "refreshing"} : [step |-> step, at |-> x] \in Flow
  BY DEF NoFlow, Flow
<1>3. CASE Dirty /\ op = "none" /\ StartSave(f)
            /\ flows' = [flows EXCEPT ![f] = [step |-> "saving", at |-> x]] /\ UNCHANGED reading
  BY <1>1, <1>2, <1>3, StartedSave
<1>4. CASE Dirty /\ op # "none" /\ flows' = [flows EXCEPT ![f] = NoFlow]
            /\ running' = op /\ save' = s /\ UNCHANGED reading
  BY <1>1, <1>2, <1>4
<1>5. CASE ~Dirty /\ RefreshAnnotations /\ running' = op /\ save' = s
            /\ flows' = [flows EXCEPT ![f] = [step |-> "refreshing", at |-> x]]
  BY <1>1, <1>2, <1>5, AskedReading DEF RefreshAnnotations
<1> QED
  BY <1>3, <1>4, <1>5 DEF Proceed

(* The same of the three actions that take such a turn.                    *)
LEMMA FlowTypes ==
    ASSUME TypeOK,
           \/ SaveEnds
           \/ \E f \in Flows, x \in Annotations \cup {None} : Press(f, x)
           \/ \E f \in Flows : FlowReads(f)
    PROVE  SavingTyped' /\ ListsTyped' /\ FlowsTyped'
<1> DEFINE Moved == /\ save' \in Save \cup {NoSave}
                    /\ running' \in {"none", "saving", "importing", "creating"}
                    /\ flows' \in [Flows -> Flow]
                    /\ reading' \in Reading
<1>1. SavingTyped /\ ListsTyped /\ FlowsTyped
  BY TypeParts
<1>2. Moved /\ UNCHANGED <<base, held, conflicted, list>> => SavingTyped' /\ ListsTyped' /\ FlowsTyped'
  BY <1>1 DEF SavingTyped, ListsTyped, FlowsTyped
<1>3. \A f \in Flows : flows[f].at \in Annotations \cup {None}
  BY <1>1 DEF FlowsTyped, Flow
<1>4. ASSUME SaveEnds PROVE Moved
  <2>1. CASE save.by = None
    BY <1>1, <1>4, <2>1 DEF SaveEnds, SavingTyped, ListsTyped, FlowsTyped
  <2>2. CASE save.by # None
    <3>1. save.by \in Flows
      BY <1>1, <1>4, <2>2, SaveTyped DEF SaveEnds, Save
    <3>2. Proceed(save.by, flows[save.by].at, "none", NoSave)
      BY <1>4, <2>2 DEF SaveEnds
    <3> QED
      BY <1>3, <3>1, <3>2, ProceedTypes
  <2> QED
    BY <2>1, <2>2
<1>5. ASSUME NEW f \in Flows, NEW x \in Annotations \cup {None}, Press(f, x) PROVE Moved
  BY <1>1, <1>5, ProceedTypes DEF Press, SavingTyped
<1>6. ASSUME NEW f \in Flows, FlowReads(f) PROVE Moved
  <2>1. CASE Proceed(f, flows[f].at, running, save)
    BY <1>1, <1>3, <2>1, ProceedTypes DEF SavingTyped
  <2>2. CASE flows' = [flows EXCEPT ![f] = NoFlow] /\ UNCHANGED <<reading, running, save>>
    <3>1. NoFlow \in Flow
      BY DEF NoFlow, Flow
    <3> QED
      BY <1>1, <2>2, <3>1 DEF SavingTyped, ListsTyped, FlowsTyped
  <2> QED
    BY <1>6, <2>1, <2>2 DEF FlowReads
<1>7. UNCHANGED <<base, held, conflicted, list>>
  BY DEF SaveEnds, Press, FlowReads
<1> QED
  <2> HIDE DEF Moved
  <2> QED
    BY <1>2, <1>4, <1>5, <1>6, <1>7

(* The types of what is saved, and of the one operation that runs.         *)
LEMMA SavingType ==
    ASSUME TypeOK, Next
    PROVE  SavingTyped'
<1>1. SavingTyped /\ ServerTyped
  BY TypeParts
<1>2. CASE \/ ImportStep \/ ImportReplaces \/ CreationEnds
           \/ \E a \in Annotations : Create(a)
  BY <1>1, <1>2 DEF ImportStep, Import, ImportRefused, ImportReplaces, CreationEnds, Create,
                    SavingTyped
<1>3. CASE PressSave
  BY <1>1, <1>3, StartedSave DEF PressSave, SavingTyped
<1>4. CASE ServeSave
  <2>1. save \in Save
    BY <1>1, <1>4, SaveTyped DEF ServeSave
  <2>2. save' \in Save
    <3>1. CASE save' = [save EXCEPT !.step = IF save.version = Len(scenes) THEN "failed" ELSE "refused"]
      BY <2>1, <3>1 DEF Save
    <3>2. CASE /\ Len(scenes) < Limit /\ scenes' = Append(scenes, save.content)
               /\ \E step \in Answered("written") :
                    save' = [save EXCEPT !.step = step, !.version = Len(scenes'),
                                         !.held = {i \in Pictures : stored'[i] # None}]
      <4>1. Len(scenes') \in 1 .. MaxVersion
        <5>1. Limit \in Nat /\ Limit <= MaxVersion
          BY EkidokiAssumption DEF Limit
        <5>2. Len(scenes') = Len(scenes) + 1
          BY <1>1, <2>1, <3>2 DEF ServerTyped, Save
        <5> QED
          BY <1>1, <3>2, <5>1, <5>2, EkidokiAssumption DEF ServerTyped
      <4>2. {i \in Pictures : stored'[i] # None} \in SUBSET Pictures
        OBVIOUS
      <4>3. \A step \in Answered("written") : step \in {"written", "failed"}
        BY DEF Answered
      <4> QED
        BY <2>1, <3>2, <4>1, <4>2, <4>3 DEF Save
    <3> QED
      BY <1>4, <3>1, <3>2 DEF ServeSave
  <2> QED
    BY <1>1, <1>4, <2>2 DEF ServeSave, SavingTyped
<1>5. CASE SaveArrives
  <2>1. save \in Save
    BY <1>1, <1>5, SaveTyped DEF SaveArrives
  <2> QED
    BY <1>1, <1>5, <2>1 DEF SaveArrives, SavingTyped, Save
<1>6. CASE SaveFails
  BY <1>1, <1>6 DEF SaveFails, SavingTyped
<1>7. CASE UNCHANGED saving
  BY <1>1, <1>7 DEF saving, SavingTyped
<1> QED
  BY <1>2, <1>3, <1>4, <1>5, <1>6, <1>7, SavingMoves, FlowTypes

(* The types of the list and of its reading.                               *)
LEMMA ListsType ==
    ASSUME TypeOK, Next
    PROVE  ListsTyped'
<1>1. ListsTyped /\ ServerTyped
  BY TypeParts
<1>2. CASE ReadStep
  <2>1. CASE ServeReading
    <3>1. reading' \in Reading
      <4>1. Len(scenes) \in 0 .. MaxVersion
        BY <1>1, EkidokiAssumption DEF ServerTyped
      <4> QED
        BY <1>1, <2>1, <4>1 DEF ServeReading, ServerTyped, Reading
    <3> QED
      BY <1>1, <2>1, <3>1 DEF ServeReading, ListsTyped
  <2>2. CASE ReadingArrives
    <3>1. reading \in Reading
      BY <1>1 DEF ListsTyped
    <3> QED
      BY <2>2, <3>1, AskedReading DEF ReadingArrives, ListsTyped, Reading
  <2>3. CASE ReadingFails
    BY <1>1, <2>3, AskedReading DEF ReadingFails, ListsTyped
  <2> QED
    BY <1>2, <2>1, <2>2, <2>3 DEF ReadStep
<1>3. CASE SaveArrives \/ CreationArrives
  BY <1>1, <1>3, AskedReading DEF SaveArrives, CreationArrives, RefreshAnnotations, ListsTyped
<1>4. CASE UNCHANGED lists
  BY <1>1, <1>4 DEF lists, ListsTyped
<1> QED
  BY <1>2, <1>3, <1>4, ListsMoves, FlowTypes

(* The types of the presses.                                               *)
LEMMA FlowsType ==
    ASSUME TypeOK, Next
    PROVE  FlowsTyped'
<1>1. FlowsTyped
  BY TypeParts
<1>2. CASE SaveFails
  <2>1. NoFlow \in Flow
    BY DEF NoFlow, Flow
  <2> QED
    BY <1>1, <1>2, <2>1 DEF SaveFails, FlowsTyped
<1>3. CASE UNCHANGED flows
  BY <1>1, <1>3 DEF FlowsTyped
<1> QED
  BY <1>2, <1>3, FlowsMoves, FlowTypes

(* A job that was made stays one, of the same text.                        *)
LEMMA JobsStay ==
    ASSUME TypeOK, FollowInv, JobStep
    PROVE  /\ jobs' \in [Jobs -> Job \cup {NoJob}]
           /\ \A j \in Jobs : Known(j) => jobs'[j].state # "none" /\ jobs'[j].text = jobs[j].text
<1> DEFINE Stays == /\ jobs' \in [Jobs -> Job \cup {NoJob}]
                    /\ \A j \in Jobs : Known(j) => jobs'[j].state # "none" /\ jobs'[j].text = jobs[j].text
<1>1. jobs \in [Jobs -> Job \cup {NoJob}]
  BY DEF TypeOK
<1>2. ASSUME NEW j \in Jobs, Known(j)
      PROVE  jobs[j] \in Job
  BY <1>1, <1>2 DEF Known, NoJob
<1>3. ASSUME NEW j \in Jobs, Known(j), NEW state \in {"done", "failed", "gone"},
             jobs' = [jobs EXCEPT ![j].state = state]
      PROVE  Stays
  <2>1. jobs[j] \in Job
    BY <1>2, <1>3
  <2>2. [jobs[j] EXCEPT !.state = state] \in Job /\ [jobs[j] EXCEPT !.state = state].text = jobs[j].text
        /\ [jobs[j] EXCEPT !.state = state].state = state
    BY <2>1 DEF Job
  <2>3. jobs' = [jobs EXCEPT ![j] = [jobs[j] EXCEPT !.state = state]]
    BY <1>1, <1>3
  <2> QED
    BY <1>1, <2>2, <2>3 DEF Known
<1>4. ASSUME NEW q \in Asks, ServeAsk(q)
      PROVE  Stays
  <2>1. asks[q] \in Ask
    BY <1>4 DEF TypeOK, ServeAsk, NoAsk
  <2>2. PICK j \in Jobs :
            \/ UNCHANGED jobs
            \/ /\ jobs[j].state = "none"
               /\ jobs' = [jobs EXCEPT ![j] = [state |-> "running", at |-> asks[q].at,
                                 text |-> Text(Latest), image |-> asks[q].image]]
    BY <1>4 DEF ServeAsk
  <2>3. [state |-> "running", at |-> asks[q].at, text |-> Text(Latest), image |-> asks[q].image] \in Job
    BY <2>1 DEF Job, Ask, Text
  <2> QED
    BY <1>1, <2>2, <2>3 DEF Known
<1>5. ASSUME NEW a \in Annotations, ServeCancel(a)
      PROVE  Stays
  <2>1. Known(views[a].cancels)
    BY <1>5 DEF ServeCancel, FollowInv, Followed
  <2> QED
    BY <1>3, <1>5, <2>1 DEF ServeCancel, Known
<1>6. ASSUME NEW j \in Jobs, JobEnds(j) \/ Discard(j)
      PROVE  Stays
  <2>1. CASE JobEnds(j)
    <3>1. Known(j)
      BY <2>1 DEF JobEnds, Known
    <3> QED
      BY <1>3, <2>1, <3>1 DEF JobEnds
  <2>2. CASE Discard(j)
    <3>1. Known(j)
      BY <2>2 DEF Discard, FollowInv
    <3> QED
      BY <1>1, <1>3, <2>2, <3>1 DEF Discard, Known
  <2> QED
    BY <1>6, <2>1, <2>2
<1>7. ASSUME UNCHANGED jobs
      PROVE  Stays
  BY <1>1, <1>7 DEF Known
<1>8. ASSUME NEW q \in Asks, SendAsk(q) \/ AskArrives(q) \/ AskFails(q)
      PROVE  UNCHANGED jobs
  BY <1>8 DEF SendAsk, AskArrives, AskFails, server
<1>9. ASSUME NEW a \in Annotations, Poll(a) \/ Cancel(a) \/ CancelArrives(a) \/ CancelFails(a)
      PROVE  UNCHANGED jobs
  BY <1>9 DEF Poll, Cancel, CancelArrives, CancelFails, server
<1>10. ASSUME ServeRestore \/ RestoreArrives \/ RestoreFails
       PROVE  UNCHANGED jobs
  BY <1>10 DEF ServeRestore, RestoreArrives, RestoreFails, server
<1> QED
  <2> HIDE DEF Stays
  <2>1. Stays
    <3>1. CASE \E q \in Asks : SendAsk(q) \/ ServeAsk(q) \/ AskArrives(q) \/ AskFails(q)
      BY <1>4, <1>7, <1>8, <3>1
    <3>2. CASE \E a \in Annotations : \/ Poll(a) \/ Cancel(a) \/ ServeCancel(a)
                                      \/ CancelArrives(a) \/ CancelFails(a)
      BY <1>5, <1>7, <1>9, <3>2
    <3>3. CASE ServeRestore \/ RestoreArrives \/ RestoreFails
      BY <1>7, <1>10, <3>3
    <3>4. CASE \E j \in Jobs : JobEnds(j) \/ Discard(j)
      BY <1>6, <3>4
    <3> QED
      BY <3>1, <3>2, <3>3, <3>4 DEF JobStep
  <2> QED
    BY <2>1 DEF Stays

(* The scenes the server has stay, and there may come one more.            *)
LEMMA ScenesGrow ==
    ASSUME TypeOK, Next
    PROVE  /\ scenes' \in Seq(SUBSET Things) /\ Len(scenes') \in 1 .. MaxVersion
           /\ Len(scenes) <= Len(scenes')
           /\ \A n \in DOMAIN scenes : scenes'[n] = scenes[n]
<1>1. scenes \in Seq(SUBSET Things) /\ Len(scenes) \in 1 .. MaxVersion
  BY DEF TypeOK
<1>2. Limit \in Nat /\ Limit <= MaxVersion
  BY EkidokiAssumption DEF Limit
<1>3. ASSUME NEW s \in SUBSET Things, Len(scenes) < Limit, scenes' = Append(scenes, s)
      PROVE  /\ scenes' \in Seq(SUBSET Things) /\ Len(scenes') \in 1 .. MaxVersion
             /\ Len(scenes) <= Len(scenes')
             /\ \A n \in DOMAIN scenes : scenes'[n] = scenes[n]
  <2>1. Len(scenes') = Len(scenes) + 1 /\ scenes' \in Seq(SUBSET Things)
    BY <1>1, <1>3
  <2>2. \A n \in DOMAIN scenes : scenes'[n] = scenes[n]
    BY <1>1, <1>3
  <2> QED
    BY <1>1, <1>2, <1>3, <2>1, <2>2, EkidokiAssumption
<1>4. CASE ServeSave /\ scenes' # scenes
  <2>1. save.content \in SUBSET Things
    BY <1>4, SaveTyped, TypeParts DEF ServeSave, Save
  <2>2. Len(scenes) < Limit /\ scenes' = Append(scenes, save.content)
    BY <1>4 DEF ServeSave
  <2> QED
    BY <1>3, <2>1, <2>2
<1>5. ASSUME NEW x \in Texts, OthersSave(x)
      PROVE  /\ scenes' \in Seq(SUBSET Things) /\ Len(scenes') \in 1 .. MaxVersion
             /\ Len(scenes) <= Len(scenes')
             /\ \A n \in DOMAIN scenes : scenes'[n] = scenes[n]
  <2>1. Latest \in SUBSET Things
    BY <1>1 DEF Latest
  <2>2. Toggled(Latest, x) \in SUBSET Things
    BY <2>1 DEF Toggled, Things, Marks
  <2> QED
    BY <1>3, <1>5, <2>2 DEF OthersSave
<1>6. CASE UNCHANGED scenes
  BY <1>1, <1>6
<1> QED
  BY <1>4, <1>5, <1>6, ServerMoves, JobLeaves DEF ServeCreation, server

(* The types of what the server has.                                       *)
LEMMA ServerType ==
    ASSUME TypeOK, FollowInv, CreationFits, Next
    PROVE  ServerTyped'
<1>1. ServerTyped /\ SavingTyped
  BY TypeParts
<1>2. scenes' \in Seq(SUBSET Things) /\ Len(scenes') \in 1 .. MaxVersion
  BY ScenesGrow
<1>3. CASE ServeSave
  <2>1. save \in Save
    BY <1>1, <1>3, SaveTyped DEF ServeSave
  <2>2. KeptPictures(save.content, save.files) \in [Pictures -> Data \cup {None}]
    BY <1>1, <2>1 DEF KeptPictures, ServerTyped, Save
  <2>3. UNCHANGED <<jobs, made>> /\ stored' \in {stored, KeptPictures(save.content, save.files)}
    BY <1>3 DEF ServeSave
  <2> QED
    BY <1>1, <1>2, <2>2, <2>3 DEF ServerTyped
<1>4. ASSUME NEW x \in Texts, OthersSave(x)
      PROVE  ServerTyped'
  BY <1>1, <1>2, <1>4 DEF OthersSave, ServerTyped
<1>5. CASE JobStep
  BY <1>1, <1>2, <1>5, JobsStay, JobLeaves DEF ServerTyped
<1>6. CASE ServeCreation
  <2>1. creation.at \in Annotations
    BY <1>6 DEF ServeCreation, TypeOK, Creation, NoCreation
  <2>2. made' \in [Annotations -> 0 .. MaxRuns]
    BY <1>1, <1>6, <2>1, EkidokiAssumption DEF ServeCreation, ServerTyped, CreationFits
  <2> QED
    BY <1>1, <1>2, <1>6, <2>2 DEF ServeCreation, ServerTyped
<1>7. CASE UNCHANGED server
  BY <1>1, <1>7 DEF server, ServerTyped
<1> QED
  BY <1>3, <1>4, <1>5, <1>6, <1>7, ServerMoves

(* The types of creations and histories, and that a creation fits.         *)
LEMMA CreatingType ==
    ASSUME TypeOK, CreationFits, Next
    PROVE  CreatingTyped' /\ CreationFits'
<1>1. CreatingTyped /\ ServerTyped /\ FollowingTyped
  BY TypeParts
<1>2. ASSUME NEW h \in History
      PROVE  DiscardRuns(h) \in History
  <2>1. 0 \in 0 .. MaxRuns
    BY EkidokiAssumption
  <2> QED
    BY <2>1 DEF DiscardRuns, History
<1>3. NoHistory \in History
  BY EkidokiAssumption DEF NoHistory, History
<1>4. ASSUME NEW a \in Annotations, Create(a)
      PROVE  CreatingTyped' /\ CreationFits'
  <2>1. views[a].shown.text \in SUBSET Texts
    BY <1>1, <1>4 DEF Create, CreateControl, FollowingTyped, View
  <2>2. creation' \in Creation /\ creation'.at = a
    BY <1>4, <2>1 DEF Create, Creation
  <2>3. made' = made /\ made[a] < MaxRuns /\ UNCHANGED <<histories, told>>
    BY <1>4 DEF Create, server
  <2> QED
    BY <1>1, <2>2, <2>3 DEF CreatingTyped, CreationFits
<1>5. CASE ServeCreation
  <2>1. creation \in Creation
    BY <1>1, <1>5 DEF ServeCreation, CreatingTyped, NoCreation
  <2>2. PICK step \in {"served", "failed"} : creation' = [creation EXCEPT !.step = step]
    BY <1>5 DEF ServeCreation, Answered
  <2>3. creation' \in Creation /\ creation'.step # "sent"
    BY <2>1, <2>2 DEF Creation
  <2> QED
    BY <1>1, <1>5, <2>3 DEF ServeCreation, CreatingTyped, CreationFits
<1>6. CASE CreationArrives
  <2>1. creation \in Creation
    BY <1>1, <1>6 DEF CreationArrives, CreatingTyped, NoCreation
  <2>2. creation' \in Creation /\ creation'.step # "sent"
    BY <1>6, <2>1 DEF CreationArrives, Creation
  <2>3. creation.at \in Annotations
    BY <2>1 DEF Creation
  <2>4. told' \in [Annotations -> 0 .. MaxRuns] /\ histories' \in [Annotations -> History]
    BY <1>1, <1>2, <1>6, <2>3 DEF CreationArrives, CreatingTyped, ServerTyped
  <2> QED
    BY <2>2, <2>4 DEF CreatingTyped, CreationFits
<1>7. CASE CreationEnds
  BY <1>1, <1>7 DEF CreationEnds, CreatingTyped, CreationFits, NoCreation
<1>8. CASE HistoryStep
  <2>1. ASSUME NEW a \in Annotations,
               LoadHistory(a) \/ ServeHistory(a) \/ HistoryArrives(a) \/ HistoryFails(a)
        PROVE  histories' \in [Annotations -> History]
    <3>1. histories[a] \in History /\ made[a] \in 0 .. MaxRuns
      BY <1>1 DEF CreatingTyped, ServerTyped
    <3>2. CASE LoadHistory(a)
      <4>1. [NoHistory EXCEPT !.step = "sent", !.latest = TRUE] \in History
        BY <1>3 DEF History
      <4> QED
        BY <1>1, <3>2, <4>1 DEF LoadHistory, CreatingTyped
    <3>3. CASE ServeHistory(a)
      <4>1. [[histories[a] EXCEPT !.step = "served"] EXCEPT !.runs = made[a]] \in History
        BY <3>1 DEF History
      <4>2. histories' = [histories EXCEPT ![a] = [[histories[a] EXCEPT !.step = "served"] EXCEPT !.runs = made[a]]]
        BY <1>1, <3>1, <3>3 DEF ServeHistory, CreatingTyped, History
      <4> QED
        BY <1>1, <4>1, <4>2 DEF CreatingTyped
    <3>4. CASE HistoryArrives(a)
      <4>1. [NoHistory EXCEPT !.read = TRUE, !.shown = histories[a].runs] \in History
        BY <1>3, <3>1 DEF History
      <4> QED
        BY <1>1, <1>3, <3>4, <4>1 DEF HistoryArrives, CreatingTyped
    <3>5. CASE HistoryFails(a)
      BY <1>1, <1>3, <3>5 DEF HistoryFails, CreatingTyped
    <3> QED
      BY <2>1, <3>2, <3>3, <3>4, <3>5
  <2>2. made' = made /\ creation' = creation /\ told' = told
    BY <1>8, HistoryLeaves DEF server
  <2> QED
    BY <1>1, <1>8, <2>1, <2>2 DEF HistoryStep, CreatingTyped, CreationFits
<1>9. CASE UNCHANGED creating
  <2>1. made' = made \/ ServeCreation
    BY ServerMoves, JobLeaves DEF ServeSave, OthersSave, server
  <2> QED
    BY <1>1, <1>5, <1>9, <2>1 DEF creating, CreatingTyped, CreationFits
<1> QED
  BY <1>4, <1>5, <1>6, <1>7, <1>8, <1>9, CreatingMoves

-----------------------------------------------------------------------------
(* What is followed *)

(* What may be shown of an annotation.                                     *)
Shown == {None} \cup [text : SUBSET Texts, image : SUBSET Marks, restored : BOOLEAN]

(* The fields of a view, where it does not matter what is shown.           *)
LEMMA ViewFields ==
    View = [running : BOOLEAN, polls : BOOLEAN, tracked : Jobs \cup {None},
            kept : Outcomes, cancels : Jobs \cup {None}, cancel : {"none", "sent", "served"},
            shown : Shown, restored : BOOLEAN]
  BY DEF View, Shown

(* The operators on the view of an annotation.                             *)
LEMMA ViewOperators ==
    ASSUME NEW v \in View
    PROVE  /\ NoView \in View
           /\ Cleared(v) \in View /\ Begun(v) \in View /\ Failed(v) \in View
           /\ \A j \in Jobs, restored \in BOOLEAN : Tracked(v, j, restored) \in View
           /\ [v EXCEPT !.cancel = "none", !.cancels = None] \in View
           /\ \A outcome \in Outcomes : [v EXCEPT !.kept = outcome] \in View
<1>1. None \in Shown /\ "none" \in Outcomes
  BY DEF Outcomes, Shown
<1>2. NoView \in View
  BY ViewFields, <1>1 DEF NoView
<1>3. Cleared(v) \in View
  BY ViewFields, <1>1 DEF NoView, Cleared
<1>4. Begun(v) \in View /\ Failed(v) \in View
  BY ViewFields, <1>1 DEF Begun, Failed
<1>5. \A j \in Jobs, restored \in BOOLEAN : Tracked(v, j, restored) \in View
  BY ViewFields, <1>1 DEF Tracked
<1>6. /\ [v EXCEPT !.cancel = "none", !.cancels = None] \in View
      /\ \A outcome \in Outcomes : [v EXCEPT !.kept = outcome] \in View
  BY ViewFields, <1>1
<1> QED
  BY <1>2, <1>3, <1>4, <1>5, <1>6

(* Base, scenes and jobs are kept, though there may be more of them.       *)
Grown ==
    /\ base' = base
    /\ \A n \in base .. Len(scenes) : n \in base .. Len(scenes') /\ scenes'[n] = scenes[n]
    /\ \A j \in Jobs : Known(j) => jobs'[j].state # "none" /\ jobs'[j].text = jobs[j].text

(* Interpretations and their jobs take nothing back.                       *)
LEMMA JobsGrow ==
    ASSUME TypeOK, FollowInv, JobStep
    PROVE  Grown /\ UNCHANGED <<base, scenes>>
  BY JobLeaves, JobsStay DEF Grown, saving

(* What is known and fresh stays so.                                       *)
LEMMA FreshStays ==
    ASSUME Grown
    PROVE  /\ \A j : Known(j) => Known(j)'
           /\ \A text : Fresh(text) => Fresh(text)'
  BY DEF Grown, Known, Fresh

(* A view nothing has touched, and which waits for the same requests.      *)
LEMMA OthersStay ==
    ASSUME Grown, FollowInv, NEW a \in Annotations, views'[a] = views[a],
           \A q \in Asks : Awaits(q, a)' <=> Awaits(q, a)
    PROVE  Followed(a)'
<1>1. Followed(a)
  BY DEF FollowInv
<1>2. \A j : Known(j) => Known(j)' /\ jobs'[j].text = jobs[j].text
  BY DEF Grown, Known
<1> QED
  BY <1>1, <1>2, FreshStays DEF Followed

(* What a view tells stays true.                                           *)
LEMMA ViewsStay ==
    ASSUME Grown, FollowInv, NEW a \in Annotations, NEW v, v = views[a]
    PROVE  /\ v.tracked # None => Known(v.tracked)'
           /\ v.cancel # "none" => Known(v.cancels)'
           /\ v.shown # None /\ ~v.shown.restored => Fresh(v.shown.text)'
           /\ v.polls => Known(v.tracked)' /\ ~(\E q \in Asks : Awaits(q, a))
           /\ v.polls /\ ~v.restored => Fresh(jobs[v.tracked].text)'
           /\ v.running <=> v.polls \/ \E q \in Asks : Awaits(q, a)
<1>1. Followed(a)
  BY DEF FollowInv
<1>2. \A j : Known(j) => Known(j)' /\ jobs'[j].text = jobs[j].text
  BY DEF Grown, Known
<1>3. v.polls /\ ~v.restored => Fresh(jobs[v.tracked].text)'
  BY <1>1, <1>2 DEF Followed, Fresh, Grown, Text
<1>4. v.shown # None /\ ~v.shown.restored => Fresh(v.shown.text)'
  BY <1>1, FreshStays DEF Followed
<1>5. /\ v.tracked # None => Known(v.tracked)'
      /\ v.cancel # "none" => Known(v.cancels)'
      /\ v.polls => Known(v.tracked)'
  BY <1>1, <1>2 DEF Followed
<1>6. /\ v.polls => ~(\E q \in Asks : Awaits(q, a))
      /\ v.running <=> v.polls \/ \E q \in Asks : Awaits(q, a)
  BY <1>1 DEF Followed
<1> QED
  BY <1>3, <1>4, <1>5, <1>6

(* A request nothing has touched.                                          *)
LEMMA RequestsStay ==
    ASSUME Grown, FollowInv, NEW q \in Asks, asks'[q] = asks[q]
    PROVE  Sound(q)'
<1>1. Sound(q)
  BY DEF FollowInv
<1>2. \A j : Known(j) => Known(j)' /\ jobs'[j].text = jobs[j].text
  BY DEF Grown, Known
<1> QED
  BY <1>1, <1>2, FreshStays DEF Sound

(* Nothing was touched at all.                                             *)
LEMMA NothingTouched ==
    ASSUME Grown, FollowInv, UNCHANGED <<asks, views, jobIds, restoring>>, deletes' \subseteq deletes
    PROVE  FollowInv'
<1>1. \A j \in (jobIds \cup deletes \cup restoring.jobs)' : Known(j)'
  BY FreshStays DEF FollowInv
<1>2. \A q \in Asks, a \in Annotations : Awaits(q, a)' <=> Awaits(q, a)
  BY DEF Awaits
<1>3. OneLatest'
  BY <1>2 DEF FollowInv, OneLatest
<1> QED
  BY <1>1, <1>2, <1>3, OthersStay, RequestsStay DEF FollowInv

(* One view has changed, and is followed again.                            *)
LEMMA OneTouched ==
    ASSUME TypeOK, FollowInv, Grown, NEW a \in Annotations, NEW v \in View,
           views' = [views EXCEPT ![a] = v],
           Followed(a)',
           UNCHANGED <<asks, restoring>>, jobIds' \subseteq Jobs, deletes' \subseteq Jobs,
           \A j \in jobIds' \cup deletes' : Known(j)
    PROVE  FollowingTyped' /\ FollowInv'
<1>1. FollowingTyped'
  BY TypeParts DEF FollowingTyped
<1>2. \A j \in (jobIds \cup deletes \cup restoring.jobs)' : Known(j)'
  BY FreshStays DEF FollowInv
<1>3. \A q \in Asks, b \in Annotations : Awaits(q, b)' <=> Awaits(q, b)
  BY DEF Awaits
<1>4. OneLatest'
  BY <1>3 DEF FollowInv, OneLatest
<1>5. \A b \in Annotations : b # a => views'[b] = views[b]
  BY DEF TypeOK
<1> QED
  BY <1>1, <1>2, <1>3, <1>4, <1>5, OthersStay, RequestsStay DEF FollowInv

(* A request that was begun has its annotation, and its job once served.   *)
LEMMA AskTyped ==
    ASSUME TypeOK, NEW q \in Asks, asks[q].step # "idle"
    PROVE  asks[q] \in Ask
  BY DEF TypeOK, NoAsk

(* The image is sent, unless something newer was asked for.                *)
LEMMA SendAskFollowed ==
    ASSUME TypeOK, FollowInv, NEW q \in Asks, SendAsk(q)
    PROVE  FollowingTyped' /\ FollowInv'
<1>1. Grown
  BY JobsGrow DEF JobStep
<1>2. asks[q] \in Ask /\ asks[q].step = "drawing"
  BY AskTyped DEF SendAsk
<1>3. asks' = [asks EXCEPT ![q] = IF asks[q].latest THEN [asks[q] EXCEPT !.step = "sent"] ELSE NoAsk]
  BY DEF SendAsk, Gone, TypeOK
<1>4. /\ asks' \in [Asks -> Ask \cup {NoAsk}]
      /\ \A r \in Asks : r # q => asks'[r] = asks[r]
      /\ \/ asks'[q] = NoAsk /\ ~asks[q].latest
         \/ asks'[q] = [asks[q] EXCEPT !.step = "sent"] /\ asks[q].latest
  BY <1>2, <1>3 DEF TypeOK, Ask
<1>5. UNCHANGED <<views, jobIds, deletes, restoring>>
  BY DEF SendAsk
<1>6. \A r \in Asks, a \in Annotations : Awaits(r, a)' <=> Awaits(r, a)
  BY <1>2, <1>4 DEF Awaits, Ask, NoAsk
<1>7. Sound(q)'
  <2>1. Sound(q)
    BY DEF FollowInv
  <2> QED
    BY <1>2, <1>4, <2>1 DEF Sound, Ask, NoAsk
<1>8. \A j \in (jobIds \cup deletes \cup restoring.jobs)' : Known(j)'
  BY <1>1, <1>5, FreshStays DEF FollowInv
<1>9. OneLatest'
  BY <1>6 DEF FollowInv, OneLatest
<1>10. FollowingTyped'
  BY <1>4, <1>5, TypeParts DEF FollowingTyped
<1> QED
  BY <1>1, <1>4, <1>5, <1>6, <1>7, <1>8, <1>9, <1>10, OthersStay, RequestsStay DEF FollowInv

(* The server answers with a job of what it has saved last.                *)
LEMMA ServeAskFollowed ==
    ASSUME TypeOK, SceneInv, FollowInv, NEW q \in Asks, ServeAsk(q)
    PROVE  FollowingTyped' /\ FollowInv'
<1>1. Grown /\ UNCHANGED <<base, scenes>>
  BY JobsGrow DEF JobStep
<1>2. asks[q] \in Ask /\ asks[q].step = "sent"
  BY AskTyped DEF ServeAsk
<1>3. PICK j \in Jobs :
        /\ \/ /\ j \in Joined(asks[q].at, Text(Latest))
              /\ UNCHANGED jobs
           \/ jobs' = [jobs EXCEPT ![j] = [state |-> "running", at |-> asks[q].at,
                                 text |-> Text(Latest), image |-> asks[q].image]]
        /\ asks' = [asks EXCEPT ![q].step = "served", ![q].job = j]
  BY DEF ServeAsk
<1>4. jobs'[j].state = "running" /\ jobs'[j].text = Text(Latest)
  <2>1. jobs \in [Jobs -> Job \cup {NoJob}]
    BY DEF TypeOK
  <2> QED
    BY <1>3, <2>1 DEF Joined
<1>5. asks' = [asks EXCEPT ![q] = [asks[q] EXCEPT !.step = "served", !.job = j]]
  BY <1>2, <1>3 DEF TypeOK, Ask
<1>6. /\ asks' \in [Asks -> Ask \cup {NoAsk}]
      /\ \A r \in Asks : r # q => asks'[r] = asks[r]
      /\ asks'[q] = [asks[q] EXCEPT !.step = "served", !.job = j]
  BY <1>2, <1>5 DEF TypeOK, Ask
<1>7. UNCHANGED <<views, jobIds, deletes, restoring>>
  BY DEF ServeAsk
<1>8. \A r \in Asks, a \in Annotations : Awaits(r, a)' <=> Awaits(r, a)
  <2>1. /\ asks'[q].step = "served" /\ asks'[q].latest = asks[q].latest
        /\ asks'[q].at = asks[q].at
    BY <1>2, <1>6 DEF Ask
  <2> QED
    BY <1>2, <1>6, <2>1 DEF Awaits
<1>9. Sound(q)'
  <2>1. Sound(q)
    BY DEF FollowInv
  <2>2. Known(j)'
    BY <1>4 DEF Known
  <2>3. Fresh(jobs[j].text)'
    <3>1. Len(scenes) \in base .. Len(scenes)
      BY DEF SceneInv, TypeOK
    <3> QED
      BY <1>1, <1>4, <3>1 DEF Fresh, Latest
  <2>4. /\ asks'[q].overtaken = asks[q].overtaken /\ asks'[q].latest = asks[q].latest
        /\ asks'[q].job = j
    BY <1>2, <1>6 DEF Ask
  <2> QED
    BY <1>2, <2>1, <2>2, <2>3, <2>4 DEF Sound
<1>10. \A k \in (jobIds \cup deletes \cup restoring.jobs)' : Known(k)'
  BY <1>1, <1>7, FreshStays DEF FollowInv
<1>11. OneLatest'
  BY <1>8 DEF FollowInv, OneLatest
<1>12. FollowingTyped'
  BY <1>6, <1>7, TypeParts DEF FollowingTyped
<1> QED
  BY <1>1, <1>6, <1>7, <1>8, <1>9, <1>10, <1>11, <1>12, OthersStay, RequestsStay DEF FollowInv

(* A request ends: nobody waits for it any more, and nobody else does less. *)
LEMMA RequestEnds ==
    ASSUME TypeOK, FollowInv, NEW q \in Asks, asks' = Gone(q)
    PROVE  /\ asks' \in [Asks -> Ask \cup {NoAsk}]
           /\ \A r \in Asks : r # q => asks'[r] = asks[r]
           /\ Sound(q)'
           /\ \A r \in Asks, a \in Annotations : Awaits(r, a)' <=> Awaits(r, a) /\ r # q
           /\ OneLatest'
<1>1. /\ asks' \in [Asks -> Ask \cup {NoAsk}]
      /\ \A r \in Asks : r # q => asks'[r] = asks[r]
      /\ asks'[q] = NoAsk
  BY DEF Gone, TypeOK
<1>2. Sound(q)'
  BY <1>1 DEF Sound, NoAsk
<1>3. \A r \in Asks, a \in Annotations : Awaits(r, a)' <=> Awaits(r, a) /\ r # q
  BY <1>1 DEF Awaits, NoAsk
<1>4. OneLatest'
  BY <1>3 DEF FollowInv, OneLatest
<1> QED
  BY <1>1, <1>2, <1>3, <1>4

(* The answer brings the job to follow, or to throw away.                  *)
LEMMA AskArrivesFollowed ==
    ASSUME TypeOK, FollowInv, NEW q \in Asks, AskArrives(q)
    PROVE  FollowingTyped' /\ FollowInv'
<1>1. Grown
  BY JobsGrow DEF JobStep
<1>a. asks[q] \in Ask /\ asks[q].step = "served"
  BY AskTyped DEF AskArrives
<1>b. PICK a \in Annotations : a = asks[q].at
  BY <1>a DEF Ask
<1>c. PICK j : j = asks[q].job
  OBVIOUS
<1>d. PICK v \in View : v = views[a]
  BY DEF TypeOK
<1>2. asks[q] \in Ask /\ asks[q].step = "served" /\ a \in Annotations /\ views[a] \in View
  BY <1>a, <1>d
<1>3. Known(j) /\ j \in Jobs /\ (asks[q].latest => Fresh(jobs[j].text)) /\ (asks[q].overtaken => ~asks[q].latest)
  BY <1>2, <1>c DEF FollowInv, Sound, Known
<1>4. /\ asks' \in [Asks -> Ask \cup {NoAsk}]
      /\ \A r \in Asks : r # q => asks'[r] = asks[r]
      /\ Sound(q)'
      /\ \A r \in Asks, b \in Annotations : Awaits(r, b)' <=> Awaits(r, b) /\ r # q
      /\ OneLatest'
  BY RequestEnds DEF AskArrives
<1>5. UNCHANGED restoring
  BY DEF AskArrives
<1>6. jobIds' \subseteq jobIds \cup {j} /\ deletes' \subseteq deletes \cup {j}
  BY <1>c DEF AskArrives
<1>7. \A k \in (jobIds \cup deletes \cup restoring.jobs)' : Known(k)'
  <2>1. \A k \in (jobIds \cup deletes \cup restoring.jobs)' : Known(k)
    BY <1>3, <1>5, <1>6 DEF FollowInv
  <2> QED
    BY <1>1, <2>1, FreshStays
<1>8. CASE asks[q].latest
  <2>1. views' = [views EXCEPT ![a] = Tracked(views[a], j, FALSE)]
    BY <1>3, <1>8, <1>b, <1>c DEF AskArrives
  <2>2. Tracked(views[a], j, FALSE) \in View
    BY <1>2, <1>3, ViewOperators
  <2>3. FollowingTyped'
    BY <1>3, <1>4, <1>5, <1>6, <2>1, <2>2, TypeParts DEF FollowingTyped
  <2>4. Awaits(q, a)
    BY <1>2, <1>8, <1>b DEF Awaits
  <2>5. \A r \in Asks : ~Awaits(r, a)'
    BY <1>2, <1>4, <2>4 DEF FollowInv, OneLatest
  <2>6. \A b \in Annotations : b # a => views'[b] = views[b]
    BY <2>1 DEF TypeOK
  <2>7. \A b \in Annotations : b # a => \A r \in Asks : Awaits(r, b)' <=> Awaits(r, b)
    BY <1>4, <1>b DEF Awaits
  <2>8. Followed(a)'
    <3>1. views'[a] = [v EXCEPT !.tracked = j, !.polls = TRUE, !.restored = FALSE]
      BY <2>1, <1>d DEF TypeOK, Tracked
    <3>2. Known(j)' /\ Fresh(jobs[j].text)'
      BY <1>1, <1>3, <1>8 DEF Grown, Known, Fresh, Text
    <3>3. v.running
      BY <1>1, <1>d, <2>4, ViewsStay
    <3>4. /\ views'[a].polls /\ views'[a].running /\ views'[a].tracked = j
          /\ views'[a].cancel = v.cancel /\ views'[a].cancels = v.cancels
          /\ views'[a].shown = v.shown
      BY <3>1, <3>3 DEF View
    <3> QED
      BY <1>1, <1>d, <2>5, <3>2, <3>4, ViewsStay DEF Followed
  <2> QED
    BY <1>1, <1>4, <1>7, <2>3, <2>6, <2>7, <2>8, OthersStay, RequestsStay DEF FollowInv
<1>9. CASE ~asks[q].latest
  <2>1. UNCHANGED views
    BY <1>9 DEF AskArrives
  <2>2. \A r \in Asks, b \in Annotations : Awaits(r, b)' <=> Awaits(r, b)
    BY <1>4, <1>9 DEF Awaits
  <2>3. FollowingTyped'
    BY <1>3, <1>4, <1>5, <1>6, <2>1, TypeParts DEF FollowingTyped
  <2> QED
    BY <1>1, <1>4, <1>7, <2>1, <2>2, <2>3, OthersStay, RequestsStay DEF FollowInv
<1> QED
  BY <1>8, <1>9

(* A request that fails ends the running it stood for.                     *)
LEMMA AskFailsFollowed ==
    ASSUME TypeOK, FollowInv, NEW q \in Asks, AskFails(q)
    PROVE  FollowingTyped' /\ FollowInv'
<1>1. Grown
  BY JobsGrow DEF JobStep
<1>a. asks[q] \in Ask /\ asks[q].step # "idle"
  BY AskTyped DEF AskFails
<1>b. PICK a \in Annotations : a = asks[q].at
  BY <1>a DEF Ask
<1>c. PICK v \in View : v = views[a]
  BY DEF TypeOK
<1>2. asks[q] \in Ask /\ asks[q].step # "idle" /\ a \in Annotations /\ views[a] \in View
  BY <1>a, <1>c
<1>3. /\ asks' \in [Asks -> Ask \cup {NoAsk}]
      /\ \A r \in Asks : r # q => asks'[r] = asks[r]
      /\ Sound(q)'
      /\ \A r \in Asks, b \in Annotations : Awaits(r, b)' <=> Awaits(r, b) /\ r # q
      /\ OneLatest'
  BY RequestEnds DEF AskFails
<1>4. UNCHANGED <<jobIds, deletes, restoring>>
  BY DEF AskFails
<1>5. \A k \in (jobIds \cup deletes \cup restoring.jobs)' : Known(k)'
  BY <1>1, <1>4, FreshStays DEF FollowInv
<1>6. CASE asks[q].latest
  <2>1. views' = [views EXCEPT ![a] = Failed(views[a])]
    BY <1>6, <1>b DEF AskFails
  <2>2. FollowingTyped'
    BY <1>2, <1>3, <1>4, <2>1, ViewOperators, TypeParts DEF FollowingTyped
  <2>3. Awaits(q, a)
    BY <1>2, <1>6, <1>b DEF Awaits
  <2>4. \A r \in Asks : ~Awaits(r, a)'
    BY <1>2, <1>3, <2>3 DEF FollowInv, OneLatest
  <2>5. \A b \in Annotations : b # a => views'[b] = views[b]
    BY <2>1 DEF TypeOK
  <2>6. \A b \in Annotations : b # a => \A r \in Asks : Awaits(r, b)' <=> Awaits(r, b)
    BY <1>3, <1>b DEF Awaits
  <2>7. Followed(a)'
    <3>1. ~v.polls
      BY <1>1, <1>c, <2>3, ViewsStay
    <3>2. /\ ~views'[a].polls /\ ~views'[a].running /\ views'[a].tracked = v.tracked
          /\ views'[a].cancel = v.cancel /\ views'[a].cancels = v.cancels
          /\ views'[a].shown = v.shown
      BY <1>c, <2>1, <3>1 DEF View, TypeOK, Failed
    <3> QED
      BY <1>1, <1>c, <2>4, <3>2, ViewsStay DEF Followed
  <2> QED
    BY <1>1, <1>3, <1>5, <2>2, <2>5, <2>6, <2>7, OthersStay, RequestsStay DEF FollowInv
<1>7. CASE ~asks[q].latest
  <2>1. UNCHANGED views
    BY <1>7 DEF AskFails
  <2>2. \A r \in Asks, b \in Annotations : Awaits(r, b)' <=> Awaits(r, b)
    BY <1>3, <1>7 DEF Awaits
  <2>3. FollowingTyped'
    BY <1>3, <1>4, <2>1, TypeParts DEF FollowingTyped
  <2> QED
    BY <1>1, <1>3, <1>5, <2>1, <2>2, <2>3, OthersStay, RequestsStay DEF FollowInv
<1> QED
  BY <1>6, <1>7

(* What the loop was told is taken: nothing runs any more.                 *)
LEMMA SettleFollowed ==
    ASSUME TypeOK, FollowInv, Grown, NEW a \in Annotations,
           NEW outcome \in {"done", "failed", "thrown"},
           views[a].polls, Settle(a, outcome), UNCHANGED <<asks, restoring>>
    PROVE  FollowingTyped' /\ FollowInv'
<1>1. PICK v \in View : v = views[a]
  BY DEF TypeOK
<1>2. PICK j : j = v.tracked
  OBVIOUS
<1>3. j \in Jobs /\ Known(j) /\ jobs[j] \in Job
  <2>1. Followed(a)
    BY DEF FollowInv
  <2>2. Known(j)
    BY <1>1, <1>2, <2>1 DEF Followed
  <2> QED
    BY <2>2 DEF Known, TypeOK, NoJob
<1>4. PICK w : w = [Settled(v, j, outcome) EXCEPT !.cancel = "none", !.cancels = None]
  OBVIOUS
<1>5. views' = [views EXCEPT ![a] = w]
  BY <1>1, <1>2, <1>4 DEF Settle, TypeOK
<1>6. PICK result : result = [text |-> jobs[j].text, image |-> jobs[j].image, restored |-> v.restored]
  OBVIOUS
<1>7. result \in [text : SUBSET Texts, image : SUBSET Marks, restored : BOOLEAN]
  BY <1>3, <1>6 DEF Job, View
<1>8. w = [v EXCEPT !.running = FALSE, !.polls = FALSE, !.kept = "none", !.tracked = None,
                    !.shown = IF outcome = "done" THEN result ELSE v.shown,
                    !.cancel = "none", !.cancels = None]
  BY <1>4, <1>6 DEF Settled, View
<1>9. w \in View
  <2>2. result \in Shown /\ "none" \in Outcomes
    BY <1>7 DEF Outcomes, Shown
  <2>3. (IF outcome = "done" THEN result ELSE v.shown) \in Shown
    BY <2>2, ViewFields
  <2> QED
    BY <1>8, <2>2, <2>3, ViewFields
<1>10. /\ ~w.running /\ ~w.polls /\ w.tracked = None /\ w.cancel = "none"
       /\ w.shown = IF outcome = "done" THEN result ELSE v.shown
  BY <1>8 DEF View
<1>11. \A q \in Asks : ~Awaits(q, a)'
  <2>1. \A q \in Asks : ~Awaits(q, a)
    BY <1>1, ViewsStay
  <2> QED
    BY <2>1 DEF Awaits
<1>12. w.shown # None /\ ~w.shown.restored => Fresh(w.shown.text)'
  <2>1. CASE outcome = "done"
    <3>1. ~v.restored => Fresh(jobs[j].text)
      <4>1. Followed(a)
        BY DEF FollowInv
      <4> QED
        BY <1>1, <1>2, <4>1 DEF Followed
    <3>2. w.shown.text = jobs[j].text /\ w.shown.restored = v.restored
      BY <1>6, <1>10, <2>1
    <3> QED
      BY <3>1, <3>2 DEF Grown, Fresh, Text
  <2>2. CASE outcome # "done"
    BY <1>1, <1>10, <2>2, ViewsStay
  <2> QED
    BY <2>1, <2>2
<1>13. Followed(a)'
  <2>1. views'[a] = w
    BY <1>5 DEF TypeOK
  <2> QED
    BY <1>10, <1>11, <1>12, <2>1 DEF Followed
<1>14. /\ jobIds' \subseteq jobIds /\ deletes' \subseteq deletes \cup {j}
  BY <1>1, <1>2 DEF Settle
<1>15. /\ jobIds' \subseteq Jobs /\ deletes' \subseteq Jobs
       /\ \A k \in jobIds' \cup deletes' : Known(k)
  BY <1>3, <1>14 DEF FollowInv, TypeOK
<1> QED
  BY <1>5, <1>9, <1>13, <1>15, OneTouched

(* A view that only keeps or cancels something else.                       *)
LEMMA OnlyCancels ==
    ASSUME TypeOK, FollowInv, Grown, NEW a \in Annotations, NEW v \in View, v = views[a],
           NEW w \in View, views' = [views EXCEPT ![a] = w],
           w.running = v.running, w.polls = v.polls, w.tracked = v.tracked,
           w.shown = v.shown, w.restored = v.restored,
           w.cancel # "none" => Known(w.cancels)',
           UNCHANGED <<asks, jobIds, deletes, restoring>>
    PROVE  FollowingTyped' /\ FollowInv'
<1>1. views'[a] = w
  BY DEF TypeOK
<1>2. \A q \in Asks : Awaits(q, a)' <=> Awaits(q, a)
  BY DEF Awaits
<1>3. Followed(a)'
  BY <1>1, <1>2, ViewsStay DEF Followed
<1>4. /\ jobIds' \subseteq Jobs /\ deletes' \subseteq Jobs
      /\ \A k \in jobIds' \cup deletes' : Known(k)
  BY DEF FollowInv, TypeOK
<1> QED
  BY <1>3, <1>4, OneTouched

(* A cancellation that changed nothing.                                    *)
LEMMA KeptFollowed ==
    ASSUME TypeOK, FollowInv, Grown, NEW a \in Annotations, TakeKept(a),
           UNCHANGED <<asks, restoring>>
    PROVE  FollowingTyped' /\ FollowInv'
<1>1. PICK v \in View : v = views[a]
  BY DEF TypeOK
<1>2. CASE views[a].polls /\ views[a].kept # "none"
  <2>1. PICK outcome \in {"done", "failed", "thrown"} : outcome = views[a].kept
    BY <1>1, <1>2 DEF View, Outcomes
  <2>2. Settle(a, outcome)
    BY <1>2, <2>1 DEF TakeKept
  <2> QED
    BY <1>2, <2>2, SettleFollowed
<1>3. CASE ~(views[a].polls /\ views[a].kept # "none")
  <2>1. PICK w : w = [v EXCEPT !.cancel = "none", !.cancels = None]
    OBVIOUS
  <2>2. w \in View
    BY <2>1, ViewOperators
  <2>3. views' = [views EXCEPT ![a] = w] /\ UNCHANGED <<jobIds, deletes>>
    BY <1>1, <1>3, <2>1 DEF TakeKept, TypeOK, View
  <2>4. /\ w.running = v.running /\ w.polls = v.polls /\ w.tracked = v.tracked
        /\ w.shown = v.shown /\ w.restored = v.restored /\ w.cancel = "none"
    BY <2>1 DEF View
  <2> QED
    BY <1>1, <2>2, <2>3, <2>4, OnlyCancels
<1> QED
  BY <1>2, <1>3

(* The loop looks at its job.                                              *)
LEMMA PollFollowed ==
    ASSUME TypeOK, FollowInv, NEW a \in Annotations, Poll(a)
    PROVE  FollowingTyped' /\ FollowInv'
<1>1. Grown
  BY JobsGrow DEF JobStep
<1>2. UNCHANGED <<asks, restoring>> /\ views[a].polls
  BY DEF Poll
<1>3. \A outcome \in Outcome(views[a].tracked) : outcome \in {"done", "failed", "thrown"}
  BY Zenon DEF Outcome
<1>4. PICK outcome \in {"done", "failed", "thrown"} :
        IF views[a].cancel = "none"
          THEN Settle(a, outcome)
          ELSE /\ views' = [views EXCEPT ![a].kept = outcome]
               /\ UNCHANGED <<jobIds, deletes>>
  BY <1>3 DEF Poll
<1>5. CASE Settle(a, outcome)
  BY <1>1, <1>2, <1>5, SettleFollowed
<1>6. CASE views' = [views EXCEPT ![a].kept = outcome] /\ UNCHANGED <<jobIds, deletes>>
  <2>1. PICK v \in View : v = views[a]
    BY DEF TypeOK
  <2>2. PICK w : w = [v EXCEPT !.kept = outcome]
    OBVIOUS
  <2>3. w \in View
    BY <2>2, ViewOperators DEF Outcomes
  <2>4. views' = [views EXCEPT ![a] = w]
    BY <1>6, <2>1, <2>2 DEF TypeOK
  <2>5. /\ w.running = v.running /\ w.polls = v.polls /\ w.tracked = v.tracked
        /\ w.shown = v.shown /\ w.restored = v.restored
        /\ w.cancel = v.cancel /\ w.cancels = v.cancels
    BY <2>2 DEF View
  <2>6. w.cancel # "none" => Known(w.cancels)'
    BY <1>1, <2>1, <2>5, ViewsStay
  <2>7. UNCHANGED <<asks, jobIds, deletes, restoring>>
    BY <1>2, <1>6
  <2> QED
    BY <1>1, <2>1, <2>3, <2>4, <2>5, <2>6, <2>7, OnlyCancels, ZenonT(40)
<1> QED
  BY <1>4, <1>5, <1>6

(* The user cancels, and the server throws the job away.                   *)
LEMMA CancelFollowed ==
    ASSUME TypeOK, FollowInv, NEW a \in Annotations, Cancel(a) \/ ServeCancel(a)
    PROVE  FollowingTyped' /\ FollowInv'
<1>1. Grown
  BY JobsGrow DEF JobStep
<1>2. UNCHANGED <<asks, jobIds, deletes, restoring>>
  BY DEF Cancel, ServeCancel
<1>3. PICK v \in View : v = views[a]
  BY DEF TypeOK
<1>4. PICK w :
        /\ views' = [views EXCEPT ![a] = w]
        /\ \/ w = [v EXCEPT !.cancels = v.tracked, !.cancel = "sent"] /\ v.polls
           \/ w = [v EXCEPT !.cancel = "served"] /\ v.cancel = "sent"
  <2>1. CASE Cancel(a)
    <3>1. views' = [views EXCEPT ![a] = [v EXCEPT !.cancels = v.tracked, !.cancel = "sent"]]
      BY <1>3, <2>1 DEF Cancel, TypeOK, View
    <3> QED
      BY <1>3, <2>1, <3>1 DEF Cancel
  <2>2. CASE ServeCancel(a)
    <3>1. views' = [views EXCEPT ![a] = [v EXCEPT !.cancel = "served"]]
      BY <1>3, <2>2 DEF ServeCancel, TypeOK
    <3> QED
      BY <1>3, <2>2, <3>1 DEF ServeCancel
  <2> QED
    BY <2>1, <2>2
<1>5. /\ w \in View
      /\ w.running = v.running /\ w.polls = v.polls /\ w.tracked = v.tracked
      /\ w.shown = v.shown /\ w.restored = v.restored
      /\ (w.cancels = v.cancels /\ v.cancel # "none") \/ (w.cancels = v.tracked /\ v.polls)
  <2>2. CASE w = [v EXCEPT !.cancels = v.tracked, !.cancel = "sent"] /\ v.polls
    BY <2>2, ViewFields
  <2>3. CASE w = [v EXCEPT !.cancel = "served"] /\ v.cancel = "sent"
    BY <2>3, ViewFields
  <2> QED
    BY <1>4, <2>2, <2>3
<1>6. Known(w.cancels)'
  BY <1>1, <1>3, <1>5, ViewsStay
<1>7. views' = [views EXCEPT ![a] = w]
  BY <1>4
<1> QED
  BY <1>1, <1>2, <1>3, <1>5, <1>6, <1>7, OnlyCancels, ZenonT(40)

(* A request that something newer was asked for after.                     *)
LEMMA NoLongerLatest ==
    ASSUME TypeOK, FollowInv, Grown, NEW q \in Asks, asks[q].step # "idle",
           asks'[q] = [asks[q] EXCEPT !.latest = FALSE]
    PROVE  asks'[q] \in Ask /\ ~asks'[q].latest /\ Sound(q)'
<1>1. asks[q] \in Ask
  BY AskTyped
<1>2. PICK j : j = asks[q].job
  OBVIOUS
<1>3. /\ asks'[q] \in Ask /\ ~asks'[q].latest
      /\ asks'[q].step = asks[q].step /\ asks'[q].job = j
  BY <1>1, <1>2 DEF Ask
<1>4. asks[q].step = "served" => Known(j)
  BY <1>2 DEF FollowInv, Sound
<1>5. asks[q].step = "served" => Known(j)'
  BY <1>4, FreshStays
<1> QED
  BY <1>3, <1>5 DEF Sound

(* A cancellation that was answered stops the job it was for.              *)
LEMMA CancelArrivesFollowed ==
    ASSUME TypeOK, FollowInv, NEW a \in Annotations, CancelArrives(a)
    PROVE  FollowingTyped' /\ FollowInv'
<1>1. Grown
  BY JobsGrow DEF JobStep
<1>2. UNCHANGED restoring
  BY DEF CancelArrives
<1>3. CASE views[a].tracked # views[a].cancels
  BY <1>1, <1>2, <1>3, KeptFollowed DEF CancelArrives
<1>4. CASE views[a].tracked = views[a].cancels
  <2>1. PICK v \in View : v = views[a]
    BY DEF TypeOK
  <2>2. PICK w : w = [NoView EXCEPT !.shown = v.shown]
    OBVIOUS
  <2>3. /\ asks' = StartOver(asks, a)
        /\ views' = [views EXCEPT ![a] = w]
        /\ jobIds' \subseteq jobIds /\ deletes' = deletes
    BY <1>4, <2>1, <2>2 DEF CancelArrives
  <2>4. w \in View /\ ~w.running /\ ~w.polls /\ w.tracked = None /\ w.cancel = "none" /\ w.shown = v.shown
    BY <2>2 DEF View, NoView, Outcomes
  <2>5. /\ asks' \in [Asks -> Ask \cup {NoAsk}]
        /\ \A q \in Asks : Sound(q)'
        /\ \A q \in Asks, b \in Annotations : Awaits(q, b)' <=> Awaits(q, b) /\ b # a
    <3>1. ASSUME NEW q \in Asks
          PROVE  /\ asks'[q] \in Ask \cup {NoAsk}
                 /\ Sound(q)'
                 /\ \A b \in Annotations : Awaits(q, b)' <=> Awaits(q, b) /\ b # a
      <4>1. CASE asks[q].step # "idle" /\ asks[q].at = a
        <5>1. asks'[q] = [asks[q] EXCEPT !.latest = FALSE]
          BY <2>3, <4>1 DEF StartOver
        <5>2. asks'[q] \in Ask /\ ~asks'[q].latest /\ Sound(q)'
          BY <1>1, <4>1, <5>1, NoLongerLatest
        <5> QED
          BY <4>1, <5>2 DEF Awaits
      <4>2. CASE ~(asks[q].step # "idle" /\ asks[q].at = a)
        <5>1. asks'[q] = asks[q]
          BY <2>3, <4>2 DEF StartOver
        <5> QED
          BY <1>1, <4>2, <5>1, RequestsStay DEF Awaits, TypeOK
      <4> QED
        BY <4>1, <4>2
    <3>2. asks' = [q \in Asks |-> asks'[q]]
      BY <2>3 DEF StartOver
    <3> QED
      BY <3>1, <3>2
  <2>6. FollowingTyped'
    BY <1>2, <2>3, <2>4, <2>5, TypeParts DEF FollowingTyped
  <2>7. \A k \in (jobIds \cup deletes \cup restoring.jobs)' : Known(k)'
    BY <1>1, <1>2, <2>3, FreshStays DEF FollowInv
  <2>8. OneLatest'
    BY <2>5 DEF FollowInv, OneLatest
  <2>9. Followed(a)'
    <3>1. views'[a] = w
      BY <2>3 DEF TypeOK
    <3> QED
      BY <1>1, <2>1, <2>4, <2>5, <3>1, ViewsStay DEF Followed
  <2>10. \A b \in Annotations : b # a => views'[b] = views[b]
    BY <2>3 DEF TypeOK
  <2> QED
    BY <1>1, <2>5, <2>6, <2>7, <2>8, <2>9, <2>10, OthersStay DEF FollowInv
<1> QED
  BY <1>3, <1>4

(* A cancellation that failed.                                             *)
LEMMA CancelFailsFollowed ==
    ASSUME TypeOK, FollowInv, NEW a \in Annotations, CancelFails(a)
    PROVE  FollowingTyped' /\ FollowInv'
<1>1. Grown
  BY JobsGrow DEF JobStep
<1> QED
  BY <1>1, KeptFollowed DEF CancelFails

(* The jobs of an earlier visit, asked for or given up.                    *)
LEMMA RestoreReadFollowed ==
    ASSUME TypeOK, FollowInv, ServeRestore \/ RestoreFails
    PROVE  FollowingTyped' /\ FollowInv'
<1>1. Grown
  BY JobsGrow DEF JobStep
<1>2. UNCHANGED <<asks, views, jobIds, deletes>>
  BY DEF ServeRestore, RestoreFails
<1>3. restoring' \in [step : {"none", "sent", "served"}, overtaken : BOOLEAN, jobs : SUBSET Jobs]
      /\ \A j \in restoring'.jobs : Known(j)
  <2>1. restoring \in [step : {"none", "sent", "served"}, overtaken : BOOLEAN, jobs : SUBSET Jobs]
    BY DEF TypeOK
  <2>2. CASE ServeRestore
    BY <2>1, <2>2 DEF ServeRestore, Known
  <2>3. CASE RestoreFails
    BY <2>1, <2>3 DEF RestoreFails, Restored
  <2> QED
    BY <2>2, <2>3
<1>4. FollowingTyped'
  BY <1>2, <1>3, TypeParts DEF FollowingTyped
<1>5. \A j \in (jobIds \cup deletes \cup restoring.jobs)' : Known(j)'
  BY <1>1, <1>2, <1>3, FreshStays DEF FollowInv
<1>6. \A q \in Asks, b \in Annotations : Awaits(q, b)' <=> Awaits(q, b)
  BY <1>2 DEF Awaits
<1>7. OneLatest'
  BY <1>6 DEF FollowInv, OneLatest
<1> QED
  BY <1>1, <1>2, <1>4, <1>5, <1>6, <1>7, OthersStay, RequestsStay DEF FollowInv

(* The jobs of an earlier visit are followed, or thrown away if a save     *)
(* came between.                                                           *)
LEMMA RestoreArrivesFollowed ==
    ASSUME TypeOK, FollowInv, RestoreArrives
    PROVE  FollowingTyped' /\ FollowInv'
<1> DEFINE found == restoring.jobs
           at == {jobs[j].at : j \in found}
<1>1. Grown
  BY JobsGrow DEF JobStep
<1>2. restoring \in [step : {"none", "sent", "served"}, overtaken : BOOLEAN, jobs : SUBSET Jobs]
  BY DEF TypeOK
<1>3. restoring' = Restored
  BY DEF RestoreArrives
<1>4. restoring' \in [step : {"none", "sent", "served"}, overtaken : BOOLEAN, jobs : SUBSET Jobs]
      /\ restoring'.jobs = {}
  BY <1>2, <1>3 DEF Restored
<1>5. jobIds' \subseteq jobIds \cup found /\ deletes' \subseteq deletes \cup found
  BY DEF RestoreArrives
<1>6. jobIds' \subseteq Jobs /\ deletes' \subseteq Jobs
  BY <1>2, <1>5 DEF TypeOK
<1>7. \A j \in (jobIds \cup deletes \cup restoring.jobs)' : Known(j)'
  <2>1. \A j \in (jobIds \cup deletes \cup restoring.jobs)' : Known(j)
    BY <1>4, <1>5 DEF FollowInv
  <2> QED
    BY <1>1, <2>1, FreshStays
<1>8. CASE restoring.overtaken
  <2>1. UNCHANGED <<asks, views>>
    BY <1>8 DEF RestoreArrives
  <2>2. FollowingTyped'
    BY <1>4, <1>6, <2>1, TypeParts DEF FollowingTyped
  <2>3. \A q \in Asks, b \in Annotations : Awaits(q, b)' <=> Awaits(q, b)
    BY <2>1 DEF Awaits
  <2>4. OneLatest'
    BY <2>3 DEF FollowInv, OneLatest
  <2> QED
    BY <1>1, <1>7, <2>1, <2>2, <2>3, <2>4, OthersStay, RequestsStay DEF FollowInv
<1>9. CASE ~restoring.overtaken
  <2>0. \E last \in [at -> found] :
          views' = [a \in Annotations |->
                        IF a \in at THEN Tracked(Begun(views[a]), last[a], TRUE) ELSE views[a]]
    BY <1>9, Zenon DEF RestoreArrives
  <2> PICK here : here = at
    OBVIOUS
  <2>1. PICK last \in [here -> found] :
          views' = [a \in Annotations |->
                        IF a \in here THEN Tracked(Begun(views[a]), last[a], TRUE) ELSE views[a]]
    BY <2>0
  <2>2. asks' = [q \in Asks |->
                   IF asks[q].step # "idle" /\ asks[q].at \in here
                     THEN [asks[q] EXCEPT !.latest = FALSE] ELSE asks[q]]
    BY <1>9 DEF RestoreArrives
  <2>3. \A a \in here : last[a] \in Jobs /\ Known(last[a])
    BY <1>2, <2>1 DEF FollowInv
  <2>4. ASSUME NEW q \in Asks
        PROVE  /\ asks'[q] \in Ask \cup {NoAsk}
               /\ Sound(q)'
               /\ \A b \in Annotations : Awaits(q, b)' <=> Awaits(q, b) /\ b \notin here
    <3>1. CASE asks[q].step # "idle" /\ asks[q].at \in here
      <4>1. asks'[q] = [asks[q] EXCEPT !.latest = FALSE]
        BY <2>2, <3>1
      <4>2. asks'[q] \in Ask /\ ~asks'[q].latest /\ Sound(q)'
        BY <1>1, <3>1, <4>1, NoLongerLatest
      <4> QED
        BY <3>1, <4>2 DEF Awaits
    <3>2. CASE ~(asks[q].step # "idle" /\ asks[q].at \in here)
      <4>1. asks'[q] = asks[q]
        BY <2>2, <3>2
      <4> QED
        BY <1>1, <3>2, <4>1, RequestsStay DEF Awaits, TypeOK
    <3> QED
      BY <3>1, <3>2
  <2>5. asks' \in [Asks -> Ask \cup {NoAsk}]
    BY <2>2, <2>4
  <2>6. ASSUME NEW a \in Annotations
        PROVE  views'[a] \in View /\ Followed(a)'
    <3>1. PICK v \in View : v = views[a]
      BY DEF TypeOK
    <3>2. CASE a \in here
      <4>1. PICK j \in Jobs : j = last[a] /\ Known(j)
        BY <2>3, <3>2
      <4>2. PICK w : w = Tracked(Begun(v), j, TRUE)
        OBVIOUS
      <4>3. w \in View
        BY <4>2, ViewOperators
      <4>4. views'[a] = w
        BY <2>1, <3>1, <3>2, <4>1, <4>2
      <4>5. /\ w.running /\ w.polls /\ w.tracked = j /\ w.restored
            /\ w.cancel = v.cancel /\ w.cancels = v.cancels /\ w.shown = v.shown
        BY <4>2 DEF Tracked, Begun, View
      <4>6. Known(j)'
        BY <1>1, <4>1, FreshStays
      <4>7. \A q \in Asks : ~Awaits(q, a)'
        BY <2>4, <3>2
      <4> QED
        BY <1>1, <3>1, <4>3, <4>4, <4>5, <4>6, <4>7, ViewsStay DEF Followed
    <3>3. CASE a \notin here
      <4>1. views'[a] = views[a]
        BY <2>1, <3>3
      <4>2. \A q \in Asks : Awaits(q, a)' <=> Awaits(q, a)
        BY <2>4, <3>3
      <4> QED
        BY <1>1, <3>1, <4>1, <4>2, OthersStay
    <3> QED
      BY <3>2, <3>3
  <2>7. views' \in [Annotations -> View]
    BY <2>1, <2>6
  <2>8. FollowingTyped'
    BY <1>4, <1>6, <2>5, <2>7 DEF FollowingTyped
  <2>9. OneLatest'
    BY <2>4 DEF FollowInv, OneLatest
  <2> QED
    BY <1>7, <2>4, <2>6, <2>8, <2>9 DEF FollowInv
<1> QED
  BY <1>8, <1>9

(* A job ends at the server, or is thrown away there.                      *)
LEMMA JobsEndFollowed ==
    ASSUME TypeOK, FollowInv, NEW j \in Jobs, JobEnds(j) \/ Discard(j)
    PROVE  FollowingTyped' /\ FollowInv'
<1>1. Grown
  BY JobsGrow DEF JobStep
<1>2. UNCHANGED <<asks, views, jobIds, restoring>> /\ deletes' \subseteq deletes
  BY DEF JobEnds, Discard, following
<1>3. FollowingTyped'
  BY <1>2, TypeParts DEF FollowingTyped
<1> QED
  BY <1>1, <1>2, <1>3, NothingTouched

(* What the jobs of the server do to what the page follows.                *)
LEMMA JobsFollowed ==
    ASSUME TypeOK, SceneInv, FollowInv, JobStep
    PROVE  FollowingTyped' /\ FollowInv'
<1>1. CASE \E q \in Asks : SendAsk(q) \/ ServeAsk(q) \/ AskArrives(q) \/ AskFails(q)
  BY <1>1, SendAskFollowed, ServeAskFollowed, AskArrivesFollowed, AskFailsFollowed
<1>2. CASE \E a \in Annotations : Poll(a) \/ Cancel(a) \/ ServeCancel(a) \/ CancelArrives(a)
                                    \/ CancelFails(a)
  BY <1>2, PollFollowed, CancelFollowed, CancelArrivesFollowed, CancelFailsFollowed
<1>3. CASE ServeRestore \/ RestoreArrives \/ RestoreFails
  BY <1>3, RestoreReadFollowed, RestoreArrivesFollowed
<1>4. CASE \E j \in Jobs : JobEnds(j) \/ Discard(j)
  BY <1>4, JobsEndFollowed
<1> QED
  BY <1>1, <1>2, <1>3, <1>4 DEF JobStep

(* A save throws away what is followed: nothing runs, nothing is shown.    *)
LEMMA SaveArrivesFollowed ==
    ASSUME TypeOK, FollowInv, SaveArrives
    PROVE  FollowingTyped' /\ FollowInv'
<1>1. /\ asks' = InvalidateAll(asks)
      /\ views' = [a \in Annotations |-> Cleared(views[a])]
      /\ deletes' = deletes \cup jobIds /\ jobIds' = {}
      /\ restoring' = [restoring EXCEPT !.overtaken = TRUE]
      /\ UNCHANGED <<scenes, jobs>>
  BY DEF SaveArrives, DiscardAll, server
<1>2. \A j : Known(j)' <=> Known(j)
  BY <1>1 DEF Known
<1>3. ASSUME NEW q \in Asks
      PROVE  /\ asks'[q] \in Ask \cup {NoAsk}
             /\ asks'[q].step # "idle" => ~asks'[q].latest
             /\ Sound(q)'
  <2>1. CASE asks[q].step = "idle"
    BY <1>1, <2>1 DEF InvalidateAll, TypeOK, Sound
  <2>2. CASE asks[q].step # "idle"
    <3>1. asks[q] \in Ask
      BY <2>2, AskTyped
    <3>2. PICK j : j = asks[q].job
      OBVIOUS
    <3>3. asks'[q] = [asks[q] EXCEPT !.latest = FALSE, !.overtaken = TRUE]
      BY <1>1, <2>2 DEF InvalidateAll
    <3>4. /\ asks'[q] \in Ask /\ ~asks'[q].latest
          /\ asks'[q].step = asks[q].step /\ asks'[q].job = j
      BY <3>1, <3>2, <3>3 DEF Ask
    <3>5. asks[q].step = "served" => Known(j)
      BY <3>2 DEF FollowInv, Sound
    <3>6. asks[q].step = "served" => Known(j)'
      BY <3>5, <1>2
    <3> QED
      BY <3>4, <3>6 DEF Sound
  <2> QED
    BY <2>1, <2>2
<1>4. \A q \in Asks, a \in Annotations : ~Awaits(q, a)'
  BY <1>3 DEF Awaits
<1>5. ASSUME NEW a \in Annotations
      PROVE  views'[a] \in View /\ Followed(a)'
  <2>1. PICK v \in View : v = views[a]
    BY DEF TypeOK
  <2>2. views'[a] = Cleared(v)
    BY <1>1, <2>1
  <2>3. PICK w \in View : w = Cleared(v)
    BY ViewOperators
  <2>4. /\ ~w.running /\ ~w.polls /\ w.tracked = None /\ w.shown = None
        /\ w.cancel = v.cancel /\ w.cancels = v.cancels
    BY <2>3 DEF Cleared, NoView
  <2>5. v.cancel # "none" => Known(v.cancels)
    BY <2>1 DEF FollowInv, Followed
  <2>6. w.cancel # "none" => Known(w.cancels)'
    BY <2>4, <2>5, <1>2
  <2> QED
    BY <2>2, <2>3, <2>4, <2>6, <1>4 DEF Followed
<1>6. /\ deletes' \subseteq Jobs /\ jobIds' \subseteq Jobs
      /\ \A j \in (jobIds \cup deletes \cup restoring.jobs)' : Known(j)'
      /\ restoring' \in [step : {"none", "sent", "served"}, overtaken : BOOLEAN,
                         jobs : SUBSET Jobs]
  <2>1. /\ restoring \in [step : {"none", "sent", "served"}, overtaken : BOOLEAN,
                          jobs : SUBSET Jobs]
        /\ jobIds \subseteq Jobs /\ deletes \subseteq Jobs
    BY DEF TypeOK
  <2> QED
    BY <1>1, <1>2, <2>1 DEF FollowInv
<1>7. asks' = [q \in Asks |-> asks'[q]] /\ views' = [a \in Annotations |-> views'[a]]
  BY <1>1 DEF InvalidateAll
<1>8. FollowingTyped'
  BY <1>3, <1>5, <1>6, <1>7 DEF FollowingTyped
<1> QED
  BY <1>3, <1>4, <1>5, <1>6, <1>8 DEF FollowInv, OneLatest

(* An interpretation is asked for: it is the one the annotation waits for. *)
LEMMA InterpretFollowed ==
    ASSUME TypeOK, FollowInv, Grown, NEW a \in Annotations, Interpret(a)
    PROVE  FollowingTyped' /\ FollowInv'
<1>1. PICK q \in Asks :
        /\ asks[q].step = "idle"
        /\ asks' = [StartOver(asks, a) EXCEPT
                      ![q] = [step |-> "drawing", at |-> a, image |-> Image(canvas),
                              latest |-> TRUE, overtaken |-> FALSE, job |-> None]]
        /\ views' = [views EXCEPT ![a] = Begun(@)]
        /\ UNCHANGED <<jobIds, deletes, restoring>>
  BY DEF Interpret
<1>2. PICK v \in View : v = views[a]
  BY DEF TypeOK
<1>3. PICK w \in View : w = Begun(v)
  BY ViewOperators
<1>4. PICK r \in Ask : r = [step |-> "drawing", at |-> a, image |-> Image(canvas),
                            latest |-> TRUE, overtaken |-> FALSE, job |-> None]
  BY DEF Ask, Image
<1>5. /\ asks'[q] = r
      /\ r.step = "drawing" /\ r.latest /\ r.at = a /\ ~r.overtaken
  BY <1>1, <1>4 DEF StartOver
<1>6. \A p \in Asks : p # q => asks'[p] = StartOver(asks, a)[p]
  BY <1>1 DEF StartOver
<1>7. ASSUME NEW p \in Asks, p # q
      PROVE  /\ asks'[p] \in Ask \cup {NoAsk} /\ Sound(p)'
             /\ \A b \in Annotations : Awaits(p, b)' <=> Awaits(p, b) /\ b # a
  <2>1. CASE asks[p].step # "idle" /\ asks[p].at = a
    <3>1. asks'[p] = [asks[p] EXCEPT !.latest = FALSE]
      BY <1>6, <1>7, <2>1 DEF StartOver
    <3>2. asks'[p] \in Ask /\ ~asks'[p].latest /\ Sound(p)'
      BY <2>1, <3>1, NoLongerLatest
    <3> QED
      BY <2>1, <3>2 DEF Awaits
  <2>2. CASE ~(asks[p].step # "idle" /\ asks[p].at = a)
    <3>1. asks'[p] = asks[p]
      BY <1>6, <1>7, <2>2 DEF StartOver
    <3> QED
      BY <2>2, <3>1, RequestsStay DEF Awaits, TypeOK
  <2> QED
    BY <2>1, <2>2
<1>8. /\ \A b \in Annotations : Awaits(q, b)' <=> b = a
      /\ \A b \in Annotations : ~Awaits(q, b)
      /\ Sound(q)'
  BY <1>1, <1>5 DEF Awaits, Sound
<1>9. views'[a] = w /\ \A b \in Annotations : b # a => views'[b] = views[b]
  BY <1>1, <1>2, <1>3 DEF TypeOK
<1>10. Followed(a)'
  <2>1. /\ w.running /\ ~w.polls /\ w.tracked = v.tracked /\ w.shown = v.shown
        /\ w.cancel = v.cancel /\ w.cancels = v.cancels
    BY <1>3 DEF Begun, View
  <2>2. Awaits(q, a)'
    BY <1>8
  <2> QED
    BY <1>2, <1>9, <2>1, <2>2, ViewsStay DEF Followed
<1>11. ASSUME NEW b \in Annotations, b # a
       PROVE  Followed(b)'
  BY <1>7, <1>8, <1>9, <1>11, OthersStay
<1>12. OneLatest'
  BY <1>7, <1>8 DEF FollowInv, OneLatest
<1>13. \A j \in (jobIds \cup deletes \cup restoring.jobs)' : Known(j)'
  BY <1>1, FreshStays DEF FollowInv
<1>14. FollowingTyped'
  <2>1. asks' \in [Asks -> Ask \cup {NoAsk}]
    BY <1>1, <1>5, <1>7 DEF StartOver
  <2>2. views' \in [Annotations -> View]
    BY <1>1, <1>2, <1>3 DEF TypeOK
  <2> QED
    BY <1>1, <2>1, <2>2, TypeParts DEF FollowingTyped
<1> QED
  BY <1>7, <1>8, <1>10, <1>11, <1>12, <1>13, <1>14 DEF FollowInv

(* All but the arrival of a save keep the version the page stands on.      *)
LEMMA BaseStays ==
    ASSUME Next, ~SaveArrives
    PROVE  UNCHANGED <<base, signed>>
<1>1. CASE \/ ImportStep \/ ImportReplaces \/ PressSave \/ ServeSave \/ SaveFails \/ SaveEnds
           \/ \E x \in Texts : OthersSave(x)
  BY <1>1 DEF ImportStep, Import, ImportRefused, ImportReplaces, PressSave, ServeSave, SaveFails,
              SaveEnds, OthersSave, drawing, saving
<1>2. CASE \E f \in Flows : FlowReads(f) \/ \E x \in Annotations \cup {None} : Press(f, x)
  BY <1>2 DEF Press, FlowReads, drawing
<1>3. CASE (\E a \in Annotations : Create(a)) \/ ServeCreation \/ CreationArrives \/ CreationEnds
  BY <1>3 DEF Create, ServeCreation, CreationArrives, CreationEnds, drawing, saving
<1>4. CASE DrawStep \/ ReadStep \/ JobStep \/ HistoryStep
  BY <1>4, DrawLeaves, ReadLeaves, JobLeaves, HistoryLeaves DEF drawing, saving
<1> QED
  BY Steps, <1>1, <1>2, <1>3, <1>4

(* What is followed can be, and is what it was.                            *)
LEMMA FollowingStays ==
    ASSUME TypeOK, SceneInv, FollowInv, Next
    PROVE  FollowingTyped' /\ FollowInv'
<1>1. ASSUME ~SaveArrives, UNCHANGED jobs
      PROVE  Grown
  <2>1. base \in 1 .. MaxVersion /\ Len(scenes) \in Nat
    BY DEF TypeOK
  <2>2. /\ Len(scenes') \in Nat /\ Len(scenes) <= Len(scenes')
        /\ \A n \in DOMAIN scenes : scenes'[n] = scenes[n]
    BY ScenesGrow
  <2>3. \A n \in base .. Len(scenes) : n \in DOMAIN scenes
    BY <2>1 DEF TypeOK
  <2> QED
    BY <1>1, <2>1, <2>2, <2>3, BaseStays DEF Grown, Known
<1>2. CASE JobStep
  BY <1>2, JobsFollowed
<1>3. CASE SaveArrives
  BY <1>3, SaveArrivesFollowed
<1>4. ASSUME NEW f \in Flows, FlowReads(f)
      PROVE  UNCHANGED jobs /\ ~SaveArrives
  BY <1>4 DEF FlowReads, SaveArrives, server, Due
<1>5. CASE UNCHANGED following /\ ~JobStep /\ ~SaveArrives
  <2>1. UNCHANGED jobs
    BY <1>5, ServerMoves DEF ServeSave, ServeCreation, OthersSave, server
  <2>2. Grown
    BY <1>1, <1>5, <2>1
  <2>3. UNCHANGED <<asks, views, jobIds, deletes, restoring>>
    BY <1>5 DEF following
  <2>4. FollowingTyped'
    BY <2>3, TypeParts DEF FollowingTyped
  <2> QED
    BY <2>2, <2>3, <2>4, NothingTouched
<1>6. ASSUME NEW f \in Flows, FlowReads(f)
      PROVE  FollowingTyped' /\ FollowInv'
  <2>1. CASE UNCHANGED following
    <3>1. Grown
      BY <1>1, <1>4, <1>6
    <3>2. UNCHANGED <<asks, views, jobIds, deletes, restoring>>
      BY <2>1 DEF following
    <3>3. FollowingTyped'
      BY <3>2, TypeParts DEF FollowingTyped
    <3> QED
      BY <3>1, <3>2, <3>3, NothingTouched
  <2>2. CASE flows[f].at \in list.ids /\ Interpret(flows[f].at)
    <3>1. flows[f].at \in Annotations
      BY <2>2 DEF TypeOK
    <3> QED
      BY <1>1, <1>4, <1>6, <2>2, <3>1, InterpretFollowed
  <2> QED
    BY <1>6, <2>1, <2>2 DEF FlowReads
<1> QED
  BY FollowingMoves, <1>2, <1>3, <1>5, <1>6

-----------------------------------------------------------------------------
(* Saves *)

(* What a turn of a press does to the save in flight.                      *)
LEMMA ProceedSaves ==
    ASSUME NEW f \in Flows, NEW x, NEW op, NEW s, Proceed(f, x, op, s)
    PROVE  \/ op = "none" /\ StartSave(f)
           \/ running' = op /\ save' = s
  BY DEF Proceed

(* A save is begun only when nothing runs, and ends as it was begun.       *)
LEMMA SaveMoves ==
    ASSUME TypeOK, Next
    PROVE  \/ ServeSave \/ SaveArrives
           \/ /\ running = "none" \/ save.step = "refreshing"
              /\ \E by \in Flows \cup {None} : StartSave(by)
              /\ UNCHANGED <<drawing, base, held, conflicted, creation>>
           \/ save' = NoSave /\ running' = "none" /\ save.step # "idle" /\ UNCHANGED creation
           \/ UNCHANGED save
<1> DEFINE Goal ==
           \/ ServeSave \/ SaveArrives
           \/ /\ running = "none" \/ save.step = "refreshing"
              /\ \E by \in Flows \cup {None} : StartSave(by)
              /\ UNCHANGED <<drawing, base, held, conflicted, creation>>
           \/ save' = NoSave /\ running' = "none" /\ save.step # "idle" /\ UNCHANGED creation
           \/ UNCHANGED save
<1>1. CASE ImportStep \/ ImportReplaces \/ CreationEnds \/ \E a \in Annotations : Create(a)
  BY <1>1 DEF ImportStep, Import, ImportRefused, ImportReplaces, CreationEnds, Create
<1>2. CASE PressSave
  BY <1>2 DEF PressSave, CanSave, creating
<1>3. CASE SaveFails
  BY <1>3 DEF SaveFails, creating
<1>4. CASE SaveEnds
  <2>1. CASE save.by = None
    BY <1>4, <2>1 DEF SaveEnds, creating
  <2>2. CASE save.by # None
    <3>1. save \in Save
      BY <1>4, SaveTyped, TypeParts DEF SaveEnds
    <3>2. save.by \in Flows
      BY <2>2, <3>1 DEF Save
    <3>3. Proceed(save.by, flows[save.by].at, "none", NoSave)
      BY <1>4, <2>2 DEF SaveEnds
    <3>4. StartSave(save.by) \/ (running' = "none" /\ save' = NoSave)
      BY <3>2, <3>3 DEF Proceed
    <3> QED
      BY <1>4, <3>2, <3>4 DEF SaveEnds, creating
  <2> QED
    BY <2>1, <2>2
<1>5. ASSUME NEW f \in Flows, NEW x \in Annotations \cup {None}, Press(f, x)
      PROVE  Goal
  <2>1. (running = "none" /\ StartSave(f)) \/ save' = save
    BY <1>5 DEF Press, Proceed
  <2> QED
    BY <1>5, <2>1 DEF Press, creating
<1>6. ASSUME NEW f \in Flows, FlowReads(f)
      PROVE  Goal
  <2>1. (running = "none" /\ StartSave(f)) \/ save' = save
    BY <1>6 DEF FlowReads, Proceed
  <2> QED
    BY <1>6, <2>1 DEF FlowReads, creating
<1>7. CASE UNCHANGED saving
  BY <1>7 DEF saving
<1> QED
  BY SavingMoves, <1>1, <1>2, <1>3, <1>4, <1>5, <1>6, <1>7

(* A press takes the turn of nobody else.                                  *)
LEMMA TurnMoves ==
    ASSUME TypeOK, OneRuns, Next
    PROVE  OneRuns'
<1>1. CASE ImportStep \/ ImportReplaces \/ CreationEnds \/ \E a \in Annotations : Create(a)
  BY <1>1 DEF ImportStep, Import, ImportRefused, ImportReplaces, CreationEnds, Create, OneRuns,
              NoCreation, creating, CreateControl
<1>2. CASE PressSave
  BY <1>2 DEF PressSave, CanSave, StartSave, creating, OneRuns
<1>3. CASE ServeSave \/ SaveArrives
  <2>1. save.step # "idle" /\ UNCHANGED <<running, creation>>
    BY <1>3 DEF ServeSave, SaveArrives, creating
  <2> QED
    BY <2>1 DEF OneRuns
<1>4. CASE SaveFails \/ SaveEnds
  <2>1. save.step # "idle" /\ UNCHANGED creation
    BY <1>4 DEF SaveFails, SaveEnds, creating
  <2>2. creation.step = "idle"
    BY <2>1 DEF OneRuns
  <2>3. running' = "saving" \/ save' = NoSave
    BY <1>4 DEF SaveFails, SaveEnds, Proceed, StartSave
  <2> QED
    BY <2>1, <2>2, <2>3 DEF OneRuns, NoSave
<1>5. ASSUME NEW f \in Flows, FlowReads(f) \/ \E x \in Annotations \cup {None} : Press(f, x)
      PROVE  OneRuns'
  <2>1. \/ running = "none" /\ running' = "saving"
        \/ UNCHANGED <<running, save>>
    BY <1>5 DEF Press, FlowReads, Proceed, StartSave
  <2>2. UNCHANGED creation
    BY <1>5 DEF Press, FlowReads, creating
  <2> QED
    BY <2>1, <2>2 DEF OneRuns
<1>6. CASE UNCHANGED saving
  <2>1. UNCHANGED <<running, save>>
    BY <1>6 DEF saving
  <2>2. creation'.step # "idle" => creation.step # "idle"
    <3>1. CASE ServeCreation \/ CreationArrives
      BY <3>1 DEF ServeCreation, CreationArrives, TypeOK
    <3>2. CASE HistoryStep
      BY <3>2, HistoryLeaves
    <3>3. CASE \E a \in Annotations : Create(a)
      BY <2>1, <3>3 DEF Create, CreateControl
    <3>4. CASE CreationEnds
      BY <3>4 DEF CreationEnds, NoCreation
    <3>5. CASE UNCHANGED creating
      BY <3>5 DEF creating
    <3> QED
      BY CreatingMoves, <3>1, <3>2, <3>3, <3>4, <3>5
  <2> QED
    BY <2>1, <2>2 DEF OneRuns
<1> QED
  BY SavingMoves, <1>1, <1>2, <1>3, <1>4, <1>5, <1>6

(* The version the page stands on is the scene it has saved.               *)
LEMMA ScenesStay ==
    ASSUME TypeOK, SceneInv, Next
    PROVE  SceneInv'
<1>1. /\ scenes \in Seq(SUBSET Things) /\ Len(scenes) \in Nat /\ Len(scenes') \in Nat
      /\ DOMAIN scenes = 1 .. Len(scenes) /\ DOMAIN scenes' = 1 .. Len(scenes')
      /\ Len(scenes) <= Len(scenes')
      /\ \A n \in DOMAIN scenes : n \in DOMAIN scenes' /\ scenes'[n] = scenes[n]
  BY ScenesGrow DEF TypeOK
<1> DEFINE SaveInv ==
           /\ save.step # "idle" => save.version \in DOMAIN scenes
           /\ save.step = "written" => scenes[save.version] = save.content
<1>2. CASE SaveArrives
  <2>1. save.step = "written" /\ save \in Save
    BY <1>2, SaveTyped, TypeParts DEF SaveArrives
  <2>2. /\ base' = save.version /\ signed' = save.content
        /\ save' = [save EXCEPT !.step = "refreshing"] /\ UNCHANGED scenes
    BY <1>2 DEF SaveArrives, server
  <2>3. save'.step = "refreshing" /\ save'.version = save.version
    BY <2>1, <2>2 DEF Save
  <2> QED
    BY <2>1, <2>2, <2>3 DEF SceneInv, CleanMeansSaved
<1>3. CASE ~SaveArrives
  <2>1. UNCHANGED <<base, signed>>
    BY <1>3, BaseStays
  <2>2. base' \in DOMAIN scenes' /\ CleanMeansSaved'
    BY <1>1, <2>1 DEF SceneInv, CleanMeansSaved
  <2>3. CASE ServeSave
    <3>1. save.step = "sent" /\ save \in Save
      BY <2>3, SaveTyped, TypeParts DEF ServeSave
    <3>2. CASE /\ scenes' = Append(scenes, save.content)
               /\ \E step \in Answered("written") :
                    save' = [save EXCEPT !.step = step, !.version = Len(scenes'),
                                         !.held = {i \in Pictures : stored'[i] # None}]
      <4>1. /\ save'.version = Len(scenes') /\ save'.content = save.content
            /\ Len(scenes') = Len(scenes) + 1 /\ scenes'[Len(scenes')] = save.content
        BY <1>1, <3>1, <3>2 DEF Save
      <4> QED
        BY <1>1, <2>2, <4>1 DEF SceneInv
    <3>3. CASE save' = [save EXCEPT !.step = IF save.version = Len(scenes) THEN "failed" ELSE "refused"]
      <4>1. save'.version = save.version /\ save'.step # "written"
        BY <3>1, <3>3 DEF Save
      <4> QED
        BY <1>1, <2>2, <3>1, <4>1 DEF SceneInv
    <3> QED
      BY <2>3, <3>2, <3>3 DEF ServeSave
  <2>4. CASE \E by \in Flows \cup {None} : StartSave(by)
    <3>1. save'.version = base /\ save'.step = "sent"
      BY <2>4 DEF StartSave
    <3> QED
      BY <1>1, <2>2, <3>1 DEF SceneInv
  <2>5. CASE save' = NoSave
    BY <2>2, <2>5 DEF SceneInv, NoSave
  <2>6. CASE UNCHANGED save
    BY <1>1, <2>2, <2>6 DEF SceneInv
  <2> QED
    BY <1>3, <2>3, <2>4, <2>5, <2>6, SaveMoves
<1> QED
  BY <1>2, <1>3

-----------------------------------------------------------------------------
(* Pictures *)

(* Loading a picture that may be pasted leaves the others alone.           *)
LEMMA OneLoads ==
    ASSUME TypeOK, NEW p \in Pasteable, loaded[p.id] \in {None, p.data},
           NEW d \in {loaded[p.id], p.data}, loaded' = [loaded EXCEPT ![p.id] = d]
    PROVE  /\ \A i \in Pictures : loaded[i] # None => loaded'[i] = loaded[i]
           /\ \A s : Own(s) => Own(s)'
<1>1. p \in Placed /\ p.id \in Pictures /\ p.data \in Data
  BY EkidokiAssumption DEF Placed
<1>2. loaded \in [Pictures -> Data \cup {None}]
  BY DEF TypeOK
<1>3. \A i \in Pictures : i # p.id => loaded'[i] = loaded[i]
  BY <1>2
<1>4. loaded'[p.id] = d
  BY <1>1, <1>2
<1>5. ASSUME NEW s, Own(s), NEW o \in s \cap Placed
      PROVE  \/ loaded'[o.id] = o.data
             \/ loaded'[o.id] = None /\ o \in Pasteable
  <2>1. /\ o.id \in Pictures /\ o.data \in Data /\ o.data # None
        /\ loaded[o.id] = o.data \/ (loaded[o.id] = None /\ o \in Pasteable)
    BY <1>5, ThingsAreApart DEF Own, Placed
  <2>2. CASE o.id = p.id /\ loaded[o.id] = None
    <3>1. o = p
      BY <1>1, <2>1, <2>2, ThingsAreApart DEF OnePictureEach
    <3> QED
      BY <1>4, <2>2, <3>1
  <2>3. CASE o.id = p.id /\ loaded[o.id] # None
    BY <1>4, <2>1, <2>3
  <2>4. CASE o.id # p.id
    BY <1>3, <2>1, <2>4
  <2> QED
    BY <2>2, <2>3, <2>4
<1> QED
  BY <1>3, <1>4, <1>5 DEF Own

(* Where only drawings and what is loaded of them have changed.            *)
LEMMA LoadedStays ==
    ASSUME TypeOK, PictureInv, UNCHANGED <<save, stored, scenes>>,
           \A i \in Pictures : loaded[i] # None => loaded'[i] = loaded[i],
           save.step # "idle" => \A s : Own(s) => Own(s)',
           Own(canvas)'
    PROVE  PictureInv'
<1>1. ASSUME save.step # "idle"
      PROVE  Own(save.content)' /\ \A i \in Pictures : save.files[i] # None => loaded'[i] = save.files[i]
  <2>1. PICK s : s = save.content
    OBVIOUS
  <2>2. Own(s)
    BY <1>1, <2>1 DEF PictureInv
  <2>3. Own(s)'
    BY <1>1, <2>2
  <2> QED
    BY <1>1, <2>1, <2>3 DEF PictureInv, Own
<1>2. \A i \in Pictures : stored[i] # None => loaded'[i] = stored[i]
  BY DEF PictureInv
<1>3. \A p \in Latest' \cap Placed : stored'[p.id] \in {None, p.data}
  BY DEF PictureInv, Latest
<1> QED
  BY <1>1, <1>2, <1>3 DEF PictureInv

(* Drawing keeps pictures their own.                                       *)
LEMMA DrawnPictures ==
    ASSUME TypeOK, PictureInv, DrawStep
    PROVE  PictureInv'
<1>1. UNCHANGED <<save, stored, scenes>>
  BY DrawLeaves DEF saving, server
<1>2. ASSUME UNCHANGED loaded, canvas' \cap Placed \subseteq canvas
      PROVE  PictureInv'
  <2>1. Own(canvas)'
    BY <1>2 DEF PictureInv, Own
  <2>2. \A s : Own(s) => Own(s)'
    BY <1>2 DEF Own
  <2> QED
    BY <1>1, <1>2, <2>1, <2>2, LoadedStays
<1>3. ASSUME NEW x \in Marks \cup Annotations, Draw(x)
      PROVE  PictureInv'
  <2>1. x \notin Placed /\ UNCHANGED loaded /\ canvas' \cap Placed \subseteq canvas
    BY <1>3, ThingsAreApart DEF Draw, Toggled
  <2>2. Own(canvas)'
    BY <2>1 DEF PictureInv, Own
  <2>3. \A s : Own(s) => Own(s)'
    BY <2>1 DEF Own
  <2> QED
    BY <1>1, <2>1, <2>2, <2>3, LoadedStays
<1>4. ASSUME NEW p \in Placed, RemovePicture(p)
      PROVE  PictureInv'
  BY <1>2, <1>4 DEF RemovePicture
<1>5. ASSUME NEW p \in Pasteable, Paste(p)
      PROVE  PictureInv'
  <2>1. /\ loaded[p.id] \in {None, p.data} /\ canvas' = canvas \cup {p}
        /\ \E d \in {loaded[p.id], p.data} : loaded' = [loaded EXCEPT ![p.id] = d]
    BY <1>5 DEF Paste
  <2>2. PICK d \in {loaded[p.id], p.data} : loaded' = [loaded EXCEPT ![p.id] = d]
    BY <2>1
  <2>3. /\ \A i \in Pictures : loaded[i] # None => loaded'[i] = loaded[i]
        /\ \A s : Own(s) => Own(s)'
    BY <2>1, <2>2, OneLoads
  <2>4. loaded'[p.id] \in {None, p.data}
    BY <2>1, <2>2, EkidokiAssumption DEF TypeOK, Placed
  <2>5. Own(canvas)'
    <3>1. PICK c : c = canvas
      OBVIOUS
    <3>2. Own(c)
      BY <3>1 DEF PictureInv
    <3>3. Own(c)'
      BY <2>3, <3>2
    <3> QED
      BY <2>1, <2>4, <3>1, <3>3 DEF Own
  <2> QED
    BY <1>1, <2>3, <2>5, LoadedStays
<1>6. ASSUME NEW p \in Placed, PictureLoads(p)
      PROVE  PictureInv'
  <2>1. /\ p \in canvas /\ loaded[p.id] = None /\ UNCHANGED canvas
        /\ loaded' = [loaded EXCEPT ![p.id] = p.data]
    BY <1>6 DEF PictureLoads
  <2>2. p \in Pasteable
    BY <2>1, ThingsAreApart DEF PictureInv, Own, Placed
  <2>3. /\ \A i \in Pictures : loaded[i] # None => loaded'[i] = loaded[i]
        /\ \A s : Own(s) => Own(s)'
    BY <2>1, <2>2, OneLoads
  <2>4. Own(canvas)'
    <3>1. PICK c : c = canvas
      OBVIOUS
    <3>2. Own(c)
      BY <3>1 DEF PictureInv
    <3>3. Own(c)'
      BY <2>3, <3>2
    <3> QED
      BY <2>1, <3>1, <3>3 DEF Own
  <2> QED
    BY <1>1, <2>3, <2>4, LoadedStays
<1> QED
  BY <1>3, <1>4, <1>5, <1>6 DEF DrawStep

(* A file replaces the canvas while no save is on its way.                 *)
LEMMA ImportedStays ==
    ASSUME TypeOK, OneRuns, PictureInv, ImportReplaces
    PROVE  PictureInv'
<1>1. PICK scene : scene = canvas'
  OBVIOUS
<1>2. OnePictureEach(scene) /\ \A p \in scene \cap Placed : loaded[p.id] \in {None, p.data}
  <2>1. PICK frames \in FreshAnnotationIds, files \in FreshFileIds :
            scene = RemapFileIds(RemapAnnotationIds(frames), files)
    BY <1>1 DEF ImportReplaces
  <2> QED
    BY <2>1, ImportedPictures
<1>3. loaded' = AddFiles(scene) /\ UNCHANGED <<save, stored, scenes>>
  BY <1>1 DEF ImportReplaces, server
<1>4. /\ \A i \in Pictures : loaded[i] # None => loaded'[i] = loaded[i]
      /\ \A p \in scene \cap Placed : loaded[p.id] = None => loaded'[p.id] = p.data
  BY <1>2, <1>3, AddedFiles
<1>5. Own(canvas)'
  <2>1. ASSUME NEW p \in scene \cap Placed
        PROVE  loaded'[p.id] = p.data
    BY <1>2, <1>4 DEF Placed
  <2> QED
    BY <1>1, <2>1 DEF Own
<1>6. save.step = "idle"
  BY DEF OneRuns, ImportReplaces
<1> QED
  BY <1>3, <1>4, <1>5, <1>6, LoadedStays

(* The server keeps what was sent and what it had, for what it refers to.  *)
LEMMA ServedPictures ==
    ASSUME TypeOK, PictureInv, ServeSave
    PROVE  PictureInv'
<1>1. save.step = "sent" /\ save \in Save
  BY SaveTyped, TypeParts DEF ServeSave
<1>2. PICK step, version, kept :
        save' = [save EXCEPT !.step = step, !.version = version, !.held = kept]
  <2>1. CASE \E step \in Answered("written") :
               save' = [save EXCEPT !.step = step, !.version = Len(scenes'),
                                    !.held = {i \in Pictures : stored'[i] # None}]
    BY <2>1
  <2>2. CASE save' = [save EXCEPT !.step = IF save.version = Len(scenes) THEN "failed" ELSE "refused"]
    <3>1. save' = [save EXCEPT !.step = IF save.version = Len(scenes) THEN "failed" ELSE "refused",
                               !.version = save.version, !.held = save.held]
      BY <1>1, <2>2 DEF Save
    <3> QED
      BY <3>1
  <2> QED
    BY <2>1, <2>2 DEF ServeSave
<1>3. save'.content = save.content /\ save'.files = save.files
  BY <1>1, <1>2 DEF Save
<1>4. UNCHANGED <<canvas, loaded>>
  BY DEF ServeSave, drawing
<1>5. /\ Own(canvas)'
      /\ Own(save.content)'
      /\ \A i \in Pictures : save'.files[i] # None => loaded'[i] = save'.files[i]
  BY <1>1, <1>3, <1>4 DEF PictureInv, Own
<1>6. CASE UNCHANGED <<scenes, stored>>
  BY <1>4, <1>5, <1>6 DEF PictureInv, Latest
<1>7. CASE /\ scenes' = Append(scenes, save.content)
           /\ stored' = KeptPictures(save.content, save.files)
  <2>1. Latest' = save.content
    BY <1>1, <1>7 DEF Latest, TypeOK, Save
  <2>2. \A i \in Pictures : stored'[i] # None => loaded[i] = stored'[i]
    BY <1>1, <1>7 DEF KeptPictures, PictureInv
  <2>3. ASSUME NEW p \in save.content \cap Placed
        PROVE  stored'[p.id] \in {None, p.data}
    <3>1. p.id \in Pictures
      BY DEF Placed
    <3>2. loaded[p.id] \in {None, p.data}
      BY <1>1 DEF PictureInv, Own
    <3> QED
      BY <2>2, <3>1, <3>2
  <2> QED
    BY <1>4, <1>5, <2>1, <2>2, <2>3 DEF PictureInv
<1> QED
  BY <1>6, <1>7 DEF ServeSave

(* What others save has the pictures of the scene before.                  *)
LEMMA OthersPictures ==
    ASSUME TypeOK, PictureInv, NEW x \in Texts, OthersSave(x)
    PROVE  PictureInv'
<1>1. UNCHANGED <<canvas, loaded, save, stored>> /\ scenes' = Append(scenes, Toggled(Latest, x))
  BY DEF OthersSave, drawing, saving
<1>2. scenes \in Seq(SUBSET Things) /\ Len(scenes) \in 1 .. MaxVersion /\ x \in Things
  BY DEF TypeOK, Things, Marks
<1>3. Latest \in SUBSET Things
  BY <1>2 DEF Latest
<1>4. Toggled(Latest, x) \in SUBSET Things
  BY <1>2, <1>3 DEF Toggled
<1>5. Latest' = Toggled(Latest, x)
  BY <1>1, <1>2, <1>4 DEF Latest
<1>6. Latest' \cap Placed \subseteq Latest
  BY <1>5, ThingsAreApart DEF Toggled, Marks
<1>7. /\ Own(canvas)'
      /\ save'.step # "idle" => Own(save.content)'
  BY <1>1 DEF PictureInv, Own
<1> QED
  BY <1>1, <1>6, <1>7 DEF PictureInv

(* Pictures stay their own.                                                *)
LEMMA PicturesStay ==
    ASSUME TypeOK, OneRuns, PictureInv, Next
    PROVE  PictureInv'
<1>1. CASE DrawStep
  BY <1>1, DrawnPictures
<1>2. CASE ImportReplaces
  BY <1>2, ImportedStays
<1>3. CASE ServeSave
  BY <1>3, ServedPictures
<1>4. CASE \E x \in Texts : OthersSave(x)
  BY <1>4, OthersPictures
<1>5. CASE ~DrawStep /\ ~ImportReplaces /\ ~ServeSave /\ ~\E x \in Texts : OthersSave(x)
  <2>1. UNCHANGED <<canvas, loaded>>
    BY <1>5, DrawingMoves DEF SaveArrives, drawing
  <2>2. UNCHANGED <<scenes, stored>>
    BY <1>5, ServerMoves, JobLeaves DEF ServeCreation, server
  <2>3. /\ Own(canvas)'
        /\ \A i \in Pictures : stored'[i] # None => loaded'[i] = stored'[i]
        /\ \A p \in Latest' \cap Placed : stored'[p.id] \in {None, p.data}
    BY <2>1, <2>2 DEF PictureInv, Own, Latest
  <2>4. ASSUME save'.step # "idle" => save.step # "idle",
               save'.step # "idle" => save'.content = save.content /\ save'.files = save.files
        PROVE  PictureInv'
    BY <2>1, <2>3, <2>4 DEF PictureInv, Own
  <2>5. CASE SaveArrives
    <3>1. save.step # "idle" /\ save \in Save
      BY <2>5, SaveTyped, TypeParts DEF SaveArrives
    <3>2. save' = [save EXCEPT !.step = "refreshing"]
      BY <2>5 DEF SaveArrives
    <3> QED
      BY <2>4, <3>1, <3>2 DEF Save
  <2>6. CASE \E by \in Flows \cup {None} : StartSave(by)
    <3>1. save'.content = canvas /\ save'.files = FilesToSave
      BY <2>6 DEF StartSave
    <3>2. \A i \in Pictures : FilesToSave[i] # None => loaded[i] = FilesToSave[i]
      BY DEF FilesToSave
    <3>3. Own(save.content)'
      BY <2>1, <2>3, <3>1 DEF Own
    <3> QED
      BY <2>1, <2>3, <3>1, <3>2, <3>3 DEF PictureInv
  <2>7. CASE save' = NoSave
    BY <2>4, <2>7 DEF NoSave
  <2>8. CASE UNCHANGED save
    BY <2>4, <2>8
  <2> QED
    BY <1>5, <2>5, <2>6, <2>7, <2>8, SaveMoves
<1> QED
  BY <1>1, <1>2, <1>3, <1>4, <1>5

-----------------------------------------------------------------------------
(* Creations *)

(* The page is told of creations when an answer comes.                     *)
LEMMA ToldMoves ==
    ASSUME Next, ~CreationArrives
    PROVE  UNCHANGED told
<1>1. CASE (\E a \in Annotations : Create(a)) \/ ServeCreation \/ CreationEnds
  BY <1>1 DEF Create, ServeCreation, CreationEnds
<1> QED
  BY CreatingMoves, HistoryLeaves, <1>1 DEF creating

(* Creations are not taken back.                                           *)
LEMMA MadeGrows ==
    ASSUME TypeOK, Next
    PROVE  \A a \in Annotations : made[a] \in Nat /\ made'[a] \in Nat /\ made[a] <= made'[a]
<1>1. made \in [Annotations -> 0 .. MaxRuns] /\ MaxRuns \in Nat
  BY EkidokiAssumption DEF TypeOK
<1>2. CASE ServeCreation
  <2>1. PICK a : made' = [made EXCEPT ![a] = @ + 1] \/ UNCHANGED made
    BY <1>2 DEF ServeCreation
  <2> QED
    BY <1>1, <2>1
<1>3. CASE UNCHANGED made
  BY <1>1, <1>3
<1> QED
  BY <1>2, <1>3, ServerMoves, JobLeaves DEF ServeSave, OthersSave, server

(* What the list shows, and will show once it is read.                     *)
ListInv ==
    /\ ListFollowsSaves
    /\ reading.state = "served" =>
        /\ reading.version >= base
        /\ \A a \in Annotations : reading.made[a] >= told[a]

(* What a history shows, and will show once it is read.                    *)
HistoryInv(a) ==
    /\ histories[a].read => histories[a].shown >= told[a]
    /\ histories[a].step = "served" /\ histories[a].latest => histories[a].runs >= told[a]

(* The same in parts.                                                      *)
LEMMA ToldParts ==
    ToldInv <=> /\ ListInv
                /\ \A a \in Annotations : told[a] <= made[a] /\ HistoryInv(a)
  BY DEF ToldInv, ListInv, HistoryInv, ToldIsShown, HistoryIsWhole

(* Every reading begun after the page was told of something has it.        *)
LEMMA ListStays ==
    ASSUME TypeOK, SceneInv, ToldInv, Next
    PROVE  ListInv'
<1>1. ListInv /\ \A a \in Annotations : told[a] <= made[a]
  BY ToldParts
<1>2. ASSUME reading'.state = "sent" \/ (reading'.state = "none" /\ ~reading'.ok)
      PROVE  ListInv'
  BY <1>2 DEF ListInv, ListFollowsSaves
<1>3. CASE SaveArrives \/ CreationArrives
  BY <1>2, <1>3 DEF SaveArrives, CreationArrives, RefreshAnnotations
<1>4. CASE ~SaveArrives /\ ~CreationArrives
  <2>1. UNCHANGED <<base, told>>
    BY <1>4, BaseStays, ToldMoves
  <2>2. CASE UNCHANGED lists
    BY <1>1, <2>1, <2>2 DEF ListInv, ListFollowsSaves, lists
  <2>3. CASE ReadStep
    <3>1. CASE ServeReading
      <4>1. /\ reading'.state = "served" /\ reading'.version = Len(scenes)
            /\ reading'.made = made
        BY <3>1 DEF ServeReading
      <4>2. base <= Len(scenes) /\ base \in Nat /\ Len(scenes) \in Nat
        BY DEF SceneInv, TypeOK
      <4>3. \A a \in Annotations : told[a] \in Nat /\ made[a] \in Nat
        BY EkidokiAssumption DEF TypeOK
      <4> QED
        BY <1>1, <2>1, <4>1, <4>2, <4>3 DEF ListInv, ListFollowsSaves
    <3>2. CASE ReadingArrives
      BY <1>1, <2>1, <3>2 DEF ReadingArrives, Unanswered, ListInv, ListFollowsSaves
    <3>3. CASE ReadingFails
      BY <1>2, <3>3 DEF ReadingFails, Unanswered
    <3> QED
      BY <2>3, <3>1, <3>2, <3>3 DEF ReadStep
  <2>4. ASSUME UNCHANGED list, RefreshAnnotations \/ UNCHANGED reading
        PROVE  ListInv'
    <3>1. CASE RefreshAnnotations
      BY <1>2, <3>1 DEF RefreshAnnotations
    <3>2. CASE UNCHANGED reading
      BY <1>1, <2>1, <2>4, <3>2 DEF ListInv, ListFollowsSaves
    <3> QED
      BY <2>4, <3>1, <3>2
  <2>5. CASE SaveEnds
    BY <2>4, <2>5 DEF SaveEnds, Proceed
  <2>6. CASE \E f \in Flows : FlowReads(f) \/ \E x \in Annotations \cup {None} : Press(f, x)
    BY <2>4, <2>6 DEF Press, FlowReads, Proceed
  <2> QED
    BY <1>4, <2>2, <2>3, <2>5, <2>6, ListsMoves
<1> QED
  BY <1>3, <1>4

(* A history that is read has what the page was told before it was asked   *)
(* for; what it is told later puts the history away.                       *)
LEMMA HistoriesStay ==
    ASSUME TypeOK, ToldInv, Next, NEW a \in Annotations
    PROVE  told'[a] <= made'[a] /\ HistoryInv(a)'
<1>1. HistoryInv(a) /\ told[a] <= made[a]
  BY ToldParts
<1>2. /\ told \in [Annotations -> 0 .. MaxRuns] /\ made \in [Annotations -> 0 .. MaxRuns]
      /\ histories \in [Annotations -> History] /\ MaxRuns \in Nat
  BY EkidokiAssumption DEF TypeOK
<1>3. made[a] \in Nat /\ made'[a] \in Nat /\ made[a] <= made'[a] /\ told[a] \in Nat
  BY <1>2, MadeGrows
<1>4. CASE CreationArrives
  <2>1. PICK b : b = creation.at
    OBVIOUS
  <2>2. /\ told' = [told EXCEPT ![b] = made[b]] /\ UNCHANGED made
        /\ histories' = [histories EXCEPT ![b] = DiscardRuns(@)]
    BY <1>4, <2>1 DEF CreationArrives, server
  <2>3. CASE a = b
    <3>1. histories'[a] = DiscardRuns(histories[a]) /\ told'[a] = made[a]
      BY <1>2, <2>2, <2>3
    <3>2. ~DiscardRuns(histories[a]).read /\ ~DiscardRuns(histories[a]).latest
      BY <1>2 DEF DiscardRuns, History
    <3> QED
      BY <1>3, <2>2, <3>1, <3>2 DEF HistoryInv
  <2>4. CASE a # b
    <3>1. histories'[a] = histories[a] /\ told'[a] = told[a]
      BY <1>2, <2>2, <2>4
    <3> QED
      BY <1>1, <1>3, <3>1 DEF HistoryInv
  <2> QED
    BY <2>3, <2>4
<1>5. CASE ~CreationArrives
  <2>1. told'[a] = told[a] /\ told'[a] <= made'[a]
    BY <1>1, <1>3, <1>5, ToldMoves
  <2>2. CASE HistoryStep
    <3>1. PICK b \in Annotations :
              LoadHistory(b) \/ ServeHistory(b) \/ HistoryArrives(b) \/ HistoryFails(b)
      BY <2>2 DEF HistoryStep
    <3>2. CASE a # b
      <4>1. histories'[a] = histories[a]
        BY <1>2, <3>1, <3>2 DEF LoadHistory, ServeHistory, HistoryArrives, HistoryFails
      <4> QED
        BY <1>1, <2>1, <4>1 DEF HistoryInv
    <3>3. CASE a = b
      <4>1. CASE LoadHistory(b) \/ HistoryFails(b)
        <5>1. histories'[a] \in {NoHistory, [NoHistory EXCEPT !.step = "sent", !.latest = TRUE]}
          BY <1>2, <3>3, <4>1 DEF LoadHistory, HistoryFails
        <5>2. PICK h : h = [NoHistory EXCEPT !.step = "sent", !.latest = TRUE]
          OBVIOUS
        <5>3. /\ h.step = "sent" /\ h.read = FALSE
              /\ NoHistory.step = "none" /\ NoHistory.read = FALSE
          BY <5>2 DEF NoHistory
        <5>4. histories'[a] \in {NoHistory, h}
          BY <5>1, <5>2
        <5> QED
          BY <2>1, <5>3, <5>4 DEF HistoryInv
      <4>2. CASE ServeHistory(b)
        <5>1. histories'[a] = [histories[a] EXCEPT !.step = "served", !.runs = made[a]]
          BY <1>2, <3>3, <4>2 DEF ServeHistory, History
        <5>2. /\ histories'[a].read = histories[a].read /\ histories'[a].shown = histories[a].shown
              /\ histories'[a].runs = made[a]
          BY <1>2, <5>1 DEF History
        <5> QED
          BY <1>1, <1>3, <2>1, <5>2 DEF HistoryInv
      <4>3. CASE HistoryArrives(b)
        <5>1. /\ histories[a].step = "served"
              /\ \/ ~histories[a].latest /\ histories'[a] = NoHistory
                 \/ histories[a].latest
                    /\ histories'[a] = [NoHistory EXCEPT !.read = TRUE, !.shown = histories[a].runs]
          BY <1>2, <3>3, <4>3 DEF HistoryArrives
        <5>2. PICK runs : runs = histories[a].runs
          OBVIOUS
        <5>3. PICK h : h = [NoHistory EXCEPT !.read = TRUE, !.shown = runs]
          OBVIOUS
        <5>4. /\ h.read = TRUE /\ h.shown = runs /\ h.step = "none"
              /\ NoHistory.read = FALSE /\ NoHistory.step = "none"
          BY <5>3 DEF NoHistory
        <5>5. \/ histories'[a] = NoHistory
              \/ histories'[a] = h /\ runs >= told[a]
          BY <1>1, <5>1, <5>2, <5>3 DEF HistoryInv
        <5> QED
          BY <2>1, <5>4, <5>5 DEF HistoryInv
      <4> QED
        BY <3>1, <4>1, <4>2, <4>3
    <3> QED
      BY <2>1, <3>2, <3>3
  <2>3. CASE ~HistoryStep
    <3>1. UNCHANGED histories
      BY <1>5, <2>3, CreatingMoves DEF Create, ServeCreation, CreationEnds, creating
    <3> QED
      BY <1>1, <2>1, <3>1 DEF HistoryInv
  <2> QED
    BY <2>2, <2>3
<1> QED
  BY <1>4, <1>5

-----------------------------------------------------------------------------
(* The theorems *)

(* Nothing is known and nothing runs when a board opens.                   *)
LEMMA Beginning ==
    ASSUME Init
    PROVE  PageInv
<1> USE DEF Init
<1>1. FirstPictures \in [Pictures -> Data \cup {None}]
  <2>1. ASSUME NEW i \in Pictures, \E p \in FirstScene \cap Placed : p.id = i
        PROVE  (CHOOSE p \in FirstScene \cap Placed : p.id = i) \in Placed
    BY <2>1
  <2>2. \A p \in Placed : p.data \in Data
    BY DEF Placed
  <2> QED
    BY <2>1, <2>2 DEF FirstPictures
<1>2. \A p \in FirstScene \cap Placed : FirstPictures[p.id] = p.data
  <2>1. ASSUME NEW p \in FirstScene \cap Placed
        PROVE  (CHOOSE o \in FirstScene \cap Placed : o.id = p.id) = p
    BY ThingsAreApart DEF OnePictureEach
  <2>2. \A p \in Placed : p.id \in Pictures
    BY DEF Placed
  <2> QED
    BY <2>1, <2>2 DEF FirstPictures
<1>3. NoRuns \in [Annotations -> 0 .. MaxRuns] /\ 0 \in 0 .. MaxVersion /\ 1 \in 1 .. MaxVersion
  BY EkidokiAssumption DEF NoRuns
<1>4. DrawingTyped
  BY <1>1, EkidokiAssumption DEF DrawingTyped
<1>5. SavingTyped
  <2>1. \A p \in Placed : p.id \in Pictures
    BY DEF Placed
  <2>2. ReferencedFileIds(FirstScene) \subseteq Pictures
    BY <2>1 DEF ReferencedFileIds
  <2> QED
    BY <1>3, <2>2 DEF SavingTyped
<1>6. ListsTyped
  BY <1>3, AskedReading DEF ListsTyped, Read0
<1>7. FlowsTyped
  BY DEF FlowsTyped, Flow, NoFlow
<1>8. FollowingTyped
  <2>1. NoView \in View
    BY DEF NoView, View, Outcomes
  <2> QED
    BY <2>1 DEF FollowingTyped
<1>9. CreatingTyped
  <2>1. NoHistory \in History
    BY <1>3, EkidokiAssumption DEF NoHistory, History
  <2> QED
    BY <1>3, <2>1 DEF CreatingTyped
<1>10. ServerTyped
  <2>1. scenes \in Seq(SUBSET Things) /\ Len(scenes) \in 1 .. MaxVersion
    BY <1>3, EkidokiAssumption
  <2>2. PICK first \in Jobs, left \in LeftJobs :
            jobs = [j \in Jobs |-> IF j = first THEN left ELSE NoJob]
    OBVIOUS
  <2>3. left \in Job \cup {NoJob}
    BY <2>2 DEF LeftJobs, Job, Image, Marks
  <2> QED
    BY <1>1, <1>3, <2>1, <2>2, <2>3 DEF ServerTyped
<1>11. CreationFits /\ OneRuns
  BY DEF CreationFits, OneRuns, NoCreation, NoSave
<1>12. SceneInv
  BY DEF SceneInv, CleanMeansSaved, NoSave
<1>13. PictureInv
  <2>1. Latest = FirstScene
    BY DEF Latest
  <2> QED
    BY <1>2, <2>1 DEF PictureInv, Own, NoSave
<1>14. FollowInv
  BY DEF FollowInv, Followed, Sound, OneLatest, Awaits, NoView, NoAsk
<1>15. ToldInv
  BY EkidokiAssumption DEF ToldInv, ToldIsShown, ListFollowsSaves, HistoryIsWhole, NoHistory, NoRuns
<1> QED
  BY <1>4, <1>5, <1>6, <1>7, <1>8, <1>9, <1>10, <1>11, <1>12, <1>13, <1>14, <1>15, TypeParts
  DEF PageInv

(* Every step keeps what the page relies on.                               *)
LEMMA EveryStep ==
    ASSUME PageInv, Next
    PROVE  PageInv'
<1>1. TypeOK /\ CreationFits /\ OneRuns /\ SceneInv /\ PictureInv /\ FollowInv /\ ToldInv
  BY DEF PageInv
<1>2. /\ DrawingTyped' /\ SavingTyped' /\ ListsTyped' /\ FlowsTyped' /\ CreatingTyped'
      /\ CreationFits' /\ ServerTyped'
  BY <1>1, DrawingType, SavingType, ListsType, FlowsType, CreatingType, ServerType
<1>3. FollowingTyped' /\ FollowInv'
  BY <1>1, FollowingStays
<1>4. TypeOK'
  BY <1>1, <1>2, <1>3, HabitsStay
  DEF TypeOK, DrawingTyped, SavingTyped, ListsTyped, FlowsTyped, FollowingTyped, CreatingTyped,
      ServerTyped
<1>5. OneRuns' /\ SceneInv' /\ PictureInv'
  BY <1>1, TurnMoves, ScenesStay, PicturesStay
<1>6. ToldInv'
  BY <1>1, ListStays, HistoriesStay DEF ToldInv, ListInv, HistoryInv, ToldIsShown, HistoryIsWhole
<1> QED
  BY <1>2, <1>3, <1>4, <1>5, <1>6 DEF PageInv

(* What the page relies on always holds.                                   *)
LEMMA PageInvariant == Spec => []PageInv
<1>1. Init => PageInv
  BY Beginning
<1>2. PageInv /\ [Next]_vars => PageInv'
  <2>1. ASSUME PageInv, UNCHANGED vars
        PROVE  PageInv'
    <3>1. /\ UNCHANGED <<canvas, loaded, signed, running, save, base, held, conflicted>>
          /\ UNCHANGED <<reading, list, flows, asks, views, jobIds, deletes, restoring>>
          /\ UNCHANGED <<creation, histories, told, scenes, stored, jobs, made, does>>
      BY <2>1 DEF vars, drawing, saving, lists, following, creating, server
    <3>2. TypeOK' /\ CreationFits' /\ OneRuns'
      BY <2>1, <3>1 DEF PageInv, TypeOK, CreationFits, OneRuns
    <3>3. SceneInv' /\ PictureInv'
      BY <2>1, <3>1 DEF PageInv, SceneInv, CleanMeansSaved, PictureInv, Own, Latest
    <3>4. FollowInv'
      <4>1. TypeOK /\ FollowInv /\ Grown
        BY <2>1, <3>1 DEF PageInv, Grown, Known
      <4> QED
        BY <3>1, <4>1, NothingTouched
    <3>5. ToldInv'
      BY <2>1, <3>1 DEF PageInv, ToldInv, ToldIsShown, ListFollowsSaves, HistoryIsWhole
    <3> QED
      BY <3>2, <3>3, <3>4, <3>5 DEF PageInv
  <2> QED
    BY <2>1, EveryStep
<1> QED
  BY <1>1, <1>2, PTL DEF Spec

(* Types are kept.                                                         *)
THEOREM TypesHold == Spec => []TypeOK
<1>1. PageInv => TypeOK
  BY DEF PageInv
<1> QED
  BY <1>1, PageInvariant, PTL

(* What the page takes for saved is the scene the server has under the     *)
(* version it stands on, whatever was drawn, imported or saved by others   *)
(* while a save was on its way (useSceneSave, useDirtyScene).              *)
THEOREM CleanStaysSaved == Spec => []CleanMeansSaved
<1>1. PageInv => CleanMeansSaved
  BY DEF PageInv, SceneInv
<1> QED
  BY <1>1, PageInvariant, PTL

(* Every picture is shown, and kept by the server, with its own data,      *)
(* whatever is pasted, loaded, sent and brought by a file under the same   *)
(* id (filesToSave, remapImportedFileIds).                                 *)
THEOREM PicturesStayTheirOwn == Spec => []PicturesAreTheirOwn
<1>1. PageInv => PicturesAreTheirOwn
  BY DEF PageInv, PictureInv, PicturesAreTheirOwn, Own
<1> QED
  BY <1>1, PageInvariant, PTL

(* No result on the screen is of a scene older than the last save of this  *)
(* page, in whatever order requests, jobs, cancellations and saves end     *)
(* (useInterpretations).                                                   *)
THEOREM ResultsStayFresh == Spec => []FreshResults
<1>1. PageInv => FreshResults
  BY DEF PageInv, FollowInv, Followed, Fresh, FreshResults
<1> QED
  BY <1>1, PageInvariant, PTL

(* The list and the histories show what the page was told, in whatever     *)
(* order readings come back (useAnnotationStates, useRunHistories).        *)
THEOREM ToldStaysShown == Spec => []ToldIsShown
<1>1. PageInv => ToldIsShown
  BY DEF PageInv, ToldInv
<1> QED
  BY <1>1, PageInvariant, PTL

(* An annotation is shown as running exactly while its latest request, or  *)
(* the loop on its job, is on its way (useInterpretations).                *)
THEOREM RunningStaysSeen == Spec => []RunningIsSeen
<1>1. PageInv => RunningIsSeen
  BY DEF PageInv, FollowInv, Followed, Awaits, RunningIsSeen
<1> QED
  BY <1>1, PageInvariant, PTL

=============================================================================
