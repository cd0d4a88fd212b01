--------------------------- MODULE AnnotationName ---------------------------
(***************************************************************************)
(* One annotation in its detail (web/src/board/annotations/AnnotationDetail*)
(* and useNameDraft): the field of its name, its granularity and its kind. *)
(* All three are written to the frame on the canvas.  The canvas changes   *)
(* under the detail, by the user and by undo, and is not known to the page *)
(* until Excalidraw has first told of it; until then the saved values      *)
(* stand in for it.                                                        *)
(*                                                                         *)
(* A name is what is left of it without the spaces around it.              *)
(***************************************************************************)
EXTENDS Naturals

CONSTANTS
    Names, NoName,      \* of frames; Excalidraw's null
    Entries, Trimmed,   \* what may stand in the field, and the name it makes
    Grains,             \* granularities
    Shapes, NoShape,    \* kinds of diagrams, and none chosen
    NoEntry,
    MaxStrokes          \* bound on changes of the field and the canvas

ASSUME NameAssumption ==
    /\ NoName \in Names /\ Names \subseteq Entries /\ NoEntry \notin Entries
    /\ Trimmed \in [Entries -> Names] /\ \A n \in Names : Trimmed[n] = n
    /\ NoShape \notin Shapes /\ MaxStrokes \in Nat

VARIABLES
    frame,      \* on the canvas
    savedName,  \* the annotation as it was saved
    heard,      \* Excalidraw has told what is on the canvas
    mayEdit,    \* canEdit
    face,       \* the detail is open
    entry,      \* what stands in the field of the name
    began,      \* the name the field was opened with
    readAs,     \* the name the last interpretation was asked for with
    strokes

naming == <<frame, savedName, heard, mayEdit, face, entry, began, readAs, strokes>>

Frame == [there : BOOLEAN, marked : BOOLEAN, name : Names, grain : Grains,
          shape : Shapes \cup {NoShape}]

NamingTyped ==
    /\ frame \in Frame /\ savedName \in Names /\ heard \in BOOLEAN /\ mayEdit \in BOOLEAN
    /\ face \in BOOLEAN
    /\ entry \in Entries \cup {NoEntry} /\ began \in Names
    /\ readAs \in Names \cup {NoEntry} /\ strokes \in 0 .. MaxStrokes

NamingInit ==
    /\ frame \in [there : {TRUE}, marked : {TRUE}, name : Names, grain : Grains,
                  shape : Shapes \cup {NoShape}]
    /\ savedName \in Names /\ heard = FALSE /\ mayEdit \in BOOLEAN
    /\ face = FALSE
    /\ entry = NoEntry /\ began = NoName /\ readAs = NoEntry /\ strokes = 0

Stroke == strokes < MaxStrokes /\ strokes' = strokes + 1

-----------------------------------------------------------------------------

\* Until the canvas has been heard of, an annotation counts as there and as one.
OnTheCanvas == ~heard \/ frame.there
Unmarked    == heard /\ frame.there /\ ~frame.marked
CanRename   == mayEdit /\ OnTheCanvas /\ ~Unmarked

\* The canvas, once it is known, goes before what was saved.
NameShown == IF heard /\ frame.there /\ frame.marked THEN frame.name ELSE savedName

\* What is left of the field once the page is drawn again.
Kept(e) == IF CanRename' THEN e ELSE NoEntry

\* setAnnotationName does nothing to what is no annotation.
Renamed(n) == IF frame.there /\ frame.marked THEN [frame EXCEPT !.name = n] ELSE frame

OpenFace ==
    /\ ~face /\ face' = TRUE
    /\ UNCHANGED <<frame, savedName, heard, mayEdit, entry, began, readAs, strokes>>

StartNaming ==
    /\ face /\ CanRename /\ entry = NoEntry
    /\ entry' = NameShown /\ began' = NameShown
    /\ UNCHANGED <<frame, savedName, heard, mayEdit, face, readAs, strokes>>

TypeName(e) ==
    /\ face /\ entry # NoEntry /\ e # entry /\ Stroke
    /\ entry' = e
    /\ UNCHANGED <<frame, savedName, heard, mayEdit, face, began, readAs>>

(* Fault: the name is compared with the one on the canvas. *)
ChangedOnCanvas == Trimmed[entry] # frame.name

\* The name is compared with the one the field was opened with.
ChangedName == Trimmed[entry] # Trimmed[began]

(* Fault: the field is closed without a name being written. *)
CommittedNothing == frame

Committed == IF entry # NoEntry /\ CanRename /\ ChangedName THEN Renamed(Trimmed[entry]) ELSE frame

\* Enter outside a conversion, or leaving the field.
CommitName ==
    /\ entry # NoEntry
    /\ frame' = Committed /\ entry' = NoEntry
    /\ UNCHANGED <<savedName, heard, mayEdit, face, began, readAs, strokes>>

DropName ==
    /\ face /\ entry # NoEntry /\ entry' = NoEntry
    /\ UNCHANGED <<frame, savedName, heard, mayEdit, face, began, readAs, strokes>>

\* Closing the detail takes the focus from the field: the name is committed.
CloseFace ==
    /\ face /\ face' = FALSE
    /\ frame' = Committed /\ entry' = NoEntry
    /\ UNCHANGED <<savedName, heard, mayEdit, began, readAs, strokes>>

\* The button does not take the focus, so the name is committed before the scene is saved
\* and read.
InterpretNamed ==
    /\ face /\ mayEdit
    /\ frame' = Committed /\ entry' = NoEntry
    /\ savedName' = IF frame.there /\ frame.marked THEN frame'.name ELSE savedName
    /\ readAs' = IF frame.there /\ frame.marked THEN frame'.name ELSE readAs
    /\ UNCHANGED <<heard, mayEdit, face, began, strokes>>

-----------------------------------------------------------------------------

\* markAsAnnotation keeps the kind, and makes an annotation of a frame that is none.
SetGrain(g) ==
    /\ face /\ mayEdit /\ frame.there /\ Stroke
    /\ frame' = [frame EXCEPT !.marked = TRUE, !.grain = g,
                              !.shape = IF frame.marked THEN @ ELSE NoShape]
    /\ UNCHANGED <<savedName, heard, mayEdit, face, entry, began, readAs>>

SetShape(s) ==
    /\ face /\ mayEdit /\ frame.there /\ frame.marked /\ Stroke
    /\ frame' = [frame EXCEPT !.shape = s]
    /\ UNCHANGED <<savedName, heard, mayEdit, face, entry, began, readAs>>

UnmarkFrame ==
    /\ mayEdit /\ frame.there /\ frame.marked /\ Stroke
    /\ frame' = [frame EXCEPT !.marked = FALSE] /\ heard' = TRUE
    /\ UNCHANGED <<savedName, mayEdit, face, began, readAs>>
    /\ entry' = Kept(entry)

\* The user renames or deletes the frame on the canvas, or takes that back.
CanvasChanges ==
    /\ Stroke /\ heard' = TRUE
    /\ \/ \E n \in Names : frame.there /\ frame' = [frame EXCEPT !.name = n]
       \/ frame' = [frame EXCEPT !.there = ~@]
    /\ UNCHANGED <<savedName, mayEdit, face, began, readAs>>
    /\ entry' = Kept(entry)

CanvasHeard ==
    /\ ~heard /\ heard' = TRUE
    /\ UNCHANGED <<frame, savedName, mayEdit, face, began, readAs, strokes>>
    /\ entry' = Kept(entry)

\* The answer of another call tells that the role has changed.
RoleChanges ==
    /\ Stroke /\ mayEdit' = ~mayEdit
    /\ UNCHANGED <<frame, savedName, heard, face, began, readAs>>
    /\ entry' = Kept(entry)

NamingNext ==
    \/ OpenFace \/ StartNaming \/ CommitName \/ DropName \/ CloseFace \/ InterpretNamed
    \/ \E e \in Entries : TypeName(e)
    \/ \E g \in Grains : SetGrain(g)
    \/ \E s \in Shapes \cup {NoShape} : SetShape(s)
    \/ UnmarkFrame \/ CanvasChanges \/ CanvasHeard \/ RoleChanges

-----------------------------------------------------------------------------
(* Properties *)

\* A name goes to the canvas when the field is left, and only if the user made another of
\* the one that was there when the field was opened, whatever became of the canvas since:
\* to open a field and leave it undoes nothing (useNameDraft).
NameGoesToCanvas ==
    [][entry # NoEntry /\ entry' = NoEntry /\ ~DropName =>
        IF Trimmed[entry] = began THEN frame'.name = frame.name \/ strokes' # strokes
        ELSE frame'.name = Trimmed[entry] \/ ~CanRename']_naming

\* What is interpreted is what the user sees in the field (onInterpret).
ReadAsWritten ==
    [][InterpretNamed /\ entry # NoEntry /\ Trimmed[entry] # began /\ CanRename
        => readAs' = Trimmed[entry]]_naming

NamesKept == NameGoesToCanvas /\ ReadAsWritten
=============================================================================
