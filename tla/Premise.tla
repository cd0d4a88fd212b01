------------------------------ MODULE Premise ------------------------------
(***************************************************************************)
(* The background of a board, a text that is sent with every               *)
(* interpretation, and its editor (web/src/board/premise).  What is being  *)
(* written is kept apart from the dialog and from the board, together with *)
(* the text it began from; the server takes it only while that text still  *)
(* is the one it holds.  The text may be changed while a save is on its    *)
(* way.                                                                    *)
(***************************************************************************)
EXTENDS Naturals

CONSTANTS
    Premises, FirstPremise,
    NoPremise,
    MaxOthers,          \* bound on what other members write
    MaxWritings         \* bound on changes of the text

ASSUME PremiseAssumption ==
    /\ FirstPremise \in Premises /\ NoPremise \notin Premises
    /\ MaxOthers \in Nat /\ MaxWritings \in Nat

VARIABLES
    stored,         \* the server
    board,          \* board.premise of the page
    open,           \* the dialog
    written,        \* what is being written, and its base
    putting,        \* the save, and the reading a conflict asks for
    latest,         \* what the dialog shows beside the text after a conflict
    seen,           \* texts the dialog has shown
    others, writings

premising == <<stored, board, open, written, putting, latest, seen, others, writings>>

NotWriting == [text |-> NoPremise, base |-> NoPremise]
NotPutting == [step |-> "none"]
Saving == putting # NotPutting
Edited == written.text # written.base

PremiseTyped ==
    /\ stored \in Premises /\ board \in Premises /\ open \in BOOLEAN
    /\ written \in [text : Premises, base : Premises] \cup {NotWriting}
    /\ putting.step \in {"none", "sent", "accepted", "refused", "reading", "read"}
    /\ latest \in Premises \cup {NoPremise} /\ seen \subseteq Premises
    /\ others \in 0 .. MaxOthers /\ writings \in 0 .. MaxWritings

PremiseInit ==
    /\ stored = FirstPremise /\ board = FirstPremise /\ open = FALSE
    /\ written = NotWriting /\ putting = NotPutting /\ latest = NoPremise /\ seen = {}
    /\ others = 0 /\ writings = 0

OpenEditor ==
    /\ ~open /\ open' = TRUE
    /\ seen' = IF written = NotWriting THEN seen \cup {board} ELSE seen
    /\ UNCHANGED <<stored, board, written, putting, latest, others, writings>>

Change(t) ==
    /\ open /\ writings < MaxWritings /\ writings' = writings + 1
    /\ written' = [text |-> t, base |-> IF written = NotWriting THEN board ELSE written.base]
    /\ UNCHANGED <<stored, board, open, putting, latest, seen, others>>

Clear == written' = NotWriting /\ latest' = NoPremise

\* What is being written outlives the dialog, unless it is what is there already.
CloseEditor ==
    /\ open /\ ~Saving /\ open' = FALSE
    /\ IF Edited THEN UNCHANGED <<written, latest>> ELSE Clear
    /\ UNCHANGED <<stored, board, putting, seen, others, writings>>

Discard ==
    /\ open /\ ~Saving /\ Edited /\ Clear
    /\ seen' = seen \cup {board}
    /\ UNCHANGED <<stored, board, open, putting, others, writings>>

SavePremise ==
    /\ open /\ ~Saving
    /\ IF Edited
         THEN /\ putting' = [step |-> "sent", text |-> written.text, base |-> written.base]
              /\ UNCHANGED <<open, written, latest>>
         ELSE open' = FALSE /\ Clear /\ UNCHANGED putting
    /\ UNCHANGED <<stored, board, seen, others, writings>>

\* setPremise compares the text it holds with the base.
ServePremise ==
    /\ putting.step = "sent"
    /\ IF stored = putting.base
         THEN stored' = putting.text /\ putting' = [putting EXCEPT !.step = "accepted"]
         ELSE putting' = [putting EXCEPT !.step = "refused"] /\ UNCHANGED stored
    /\ UNCHANGED <<board, open, written, latest, seen, others, writings>>

(* Fault: what was written meanwhile goes with what was saved. *)
PremiseArrivesAlone ==
    /\ putting.step = "accepted" /\ putting' = NotPutting
    /\ board' = putting.text /\ Clear /\ open' = FALSE
    /\ UNCHANGED <<stored, seen, others, writings>>

\* What was written meanwhile is kept, on the base that was saved.
PremiseArrives ==
    /\ putting.step = "accepted" /\ putting' = NotPutting
    /\ board' = putting.text /\ latest' = NoPremise
    /\ IF written.text = putting.text
         THEN written' = NotWriting /\ open' = FALSE
         ELSE written' = [written EXCEPT !.base = putting.text] /\ UNCHANGED open
    /\ seen' = seen \cup {putting.text}
    /\ UNCHANGED <<stored, others, writings>>

PremiseFails ==
    /\ putting.step \in {"sent", "accepted"} /\ putting' = NotPutting
    /\ UNCHANGED <<stored, board, open, written, latest, seen, others, writings>>

\* premise_conflict: the page reads the board again.
ConflictArrives ==
    /\ putting.step = "refused" /\ putting' = [putting EXCEPT !.step = "reading"]
    /\ UNCHANGED <<stored, board, open, written, latest, seen, others, writings>>

ServeLatest ==
    /\ putting.step = "reading"
    /\ putting' = [step |-> "read", text |-> stored, base |-> putting.base]
    /\ UNCHANGED <<stored, board, open, written, latest, seen, others, writings>>

\* takeLatest: shown beside the text, which the next save may then replace it with.
LatestArrives ==
    /\ putting.step = "read" /\ putting' = NotPutting
    /\ board' = putting.text /\ latest' = putting.text
    /\ written' = [written EXCEPT !.base = putting.text]
    /\ seen' = seen \cup {putting.text}
    /\ UNCHANGED <<stored, open, others, writings>>

LatestFails ==
    /\ putting.step \in {"reading", "read"} /\ putting' = NotPutting
    /\ UNCHANGED <<stored, board, open, written, latest, seen, others, writings>>

OthersWrite(t) ==
    /\ others < MaxOthers /\ others' = others + 1
    /\ stored' = t
    /\ UNCHANGED <<board, open, written, putting, latest, seen, writings>>

\* Another answer brings the board: its name or its target was changed.
BoardArrives ==
    /\ board # stored /\ board' = stored
    /\ seen' = IF open /\ written = NotWriting THEN seen \cup {stored} ELSE seen
    /\ UNCHANGED <<stored, open, written, putting, latest, others, writings>>

PremiseNext ==
    \/ OpenEditor \/ CloseEditor \/ Discard \/ SavePremise
    \/ \E t \in Premises : Change(t) \/ OthersWrite(t)
    \/ ServePremise \/ PremiseArrives \/ PremiseFails
    \/ ConflictArrives \/ ServeLatest \/ LatestArrives \/ LatestFails \/ BoardArrives

-----------------------------------------------------------------------------
(* Properties *)

\* What was written goes only when it is discarded or when it is what was saved, though
\* the text is changed, the dialog closed and conflicts are met in between.
WritingKept ==
    [][Edited /\ written'.text # written.text =>
        \/ writings' # writings \/ Discard
        \/ putting.step = "accepted" /\ putting.text = written.text]_premising

\* A save replaces only a text that this user was shown (takeLatest).
OnlyTheSeenIsReplaced ==
    [][putting.step = "sent" /\ stored' # stored /\ others' = others
        => stored \in seen]_premising

PremiseKept == WritingKept /\ OnlyTheSeenIsReplaced
=============================================================================
