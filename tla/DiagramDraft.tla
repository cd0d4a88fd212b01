---------------------------- MODULE DiagramDraft ----------------------------
(***************************************************************************)
(* The chat that drafts a diagram, the paste of a diagram somebody wrote,  *)
(* and the canvas both are placed on (web/src/board/diagram).              *)
(*                                                                         *)
(* A generation is a job of the server: the page starts it, looks until it *)
(* is over, takes the result and discards the job.  A conversation is of   *)
(* one kind of diagram; its earlier answers are sent with every request.   *)
(* Placing converts first, which takes a while, and what does not parse is *)
(* sent back as the next request.                                          *)
(*                                                                         *)
(* Of the text of a diagram only the kind it was asked for is kept, of an  *)
(* element only whether it is on the canvas.                               *)
(***************************************************************************)
EXTENDS Naturals, Sequences, FiniteSets

CONSTANTS
    DiagramKinds, FirstKind,
    Texts, NoText,       \* what may be typed
    Retry,              \* conversionRetryPrompt
    Nothing,
    MaxJobs,            \* bound on generations
    MaxPieces,          \* bound on placed diagrams
    MaxDeeds,           \* bound on what the user does
    Patient             \* the user waits while a draft is being converted

Generations == 1 .. MaxJobs
Pieces      == 1 .. MaxPieces

ASSUME DiagramAssumption ==
    /\ FirstKind \in DiagramKinds /\ {NoText, Retry} \cap Texts = {} /\ Patient \in BOOLEAN
    /\ Nothing \notin Texts \cup {Retry} /\ Nothing \notin Generations
    /\ MaxJobs \in Nat /\ MaxPieces \in Nat /\ MaxDeeds \in Nat

VARIABLES
    chat,           \* DiagramChat
    prompt, pasted, \* what is in the two boxes
    calls,          \* generate and settle
    diagramJobs,    \* jobs of the server, in the order they were asked for
    tracking,       \* the job this conversation waits for
    discards,       \* discards on their way
    unheard,        \* jobs of which an answer was lost
    opening,        \* the reading of jobs when the board opens
    placing,        \* the conversion that runs
    pieces,         \* diagrams placed on the canvas
    placement,      \* the draft that was placed last, and its elements
    deeds

diagram == <<chat, prompt, pasted, calls, diagramJobs, tracking, discards, unheard, opening,
             placing, pieces, placement, deeds>>

Request == [kind : DiagramKinds, turns : Seq(DiagramKinds), asked : Texts \cup {Retry}]
Chat == [kind : DiagramKinds, turns : Seq(DiagramKinds),
         pending : Texts \cup {Retry, Nothing}, draft : Generations \cup {Nothing}]
StartChat(k) == [kind |-> k, turns |-> << >>, pending |-> Nothing, draft |-> Nothing]

\* `latest`: no generation was begun after it.
Call == [step : {"none", "sent", "started", "refused", "polling", "over", "left"},
         latest : BOOLEAN]
NoCall    == [step |-> "none", latest |-> FALSE]
NoJob     == [state |-> "none"]
NoOpening == [step |-> "none", overtaken |-> FALSE, jobs |-> {}]
NoPlacing == [what |-> "none"]
NoPlacement == [draft |-> Nothing, ids |-> {}]
NoPiece   == [draft |-> Nothing, shown |-> FALSE]

DiagramTyped ==
    /\ chat \in Chat
    /\ prompt \in Texts \cup {NoText} /\ pasted \in Texts \cup {NoText}
    /\ calls \in [Generations -> Call]
    /\ \A j \in Generations : diagramJobs[j] # NoJob =>
          /\ diagramJobs[j].state \in {"asked", "running", "done", "failed", "gone"}
          /\ diagramJobs[j].request \in Request
    /\ tracking \in Generations \cup {Nothing}
    /\ discards \subseteq Generations /\ unheard \subseteq Generations
    /\ opening \in [step : {"none", "sent", "served", "over"}, overtaken : BOOLEAN,
                    jobs : SUBSET Generations]
    /\ placing.what \in {"none", "draft", "paste"}
    /\ pieces \in [Pieces -> [draft : Generations \cup {Nothing}, shown : BOOLEAN]]
    /\ placement \in [draft : Generations \cup {Nothing}, ids : SUBSET Pieces]
    /\ deeds \in 0 .. MaxDeeds

DiagramInit ==
    /\ chat = StartChat(FirstKind) /\ prompt = NoText /\ pasted = NoText
    /\ calls = [j \in Generations |-> NoCall] /\ diagramJobs = [j \in Generations |-> NoJob]
    /\ tracking = Nothing /\ discards = {} /\ unheard = {} /\ opening = [NoOpening EXCEPT !.step = "sent"]
    /\ placing = NoPlacing /\ pieces = [i \in Pieces |-> NoPiece] /\ placement = NoPlacement
    /\ deeds = 0

Deed == deeds < MaxDeeds /\ deeds' = deeds + 1
Open == opening.step # "none"
Idle == ~Patient \/ placing = NoPlacing

-----------------------------------------------------------------------------
(* The conversation *)

FailTurn(c) == [c EXCEPT !.pending = Nothing]

CompleteTurn(c, j) ==
    [c EXCEPT !.pending = Nothing, !.draft = j,
              !.turns = IF c.pending = Nothing THEN @ ELSE Append(@, diagramJobs[j].request.kind)]

\* generations.start, and touched.
Superseded == [j \in Generations |-> [calls[j] EXCEPT !.latest = FALSE]]

\* The request carries the conversation as it was when the function was made.
Generate(from, text) ==
    \E j \in Generations :
        /\ diagramJobs[j] = NoJob /\ \A i \in 1 .. j - 1 : diagramJobs[i] # NoJob
        /\ diagramJobs' = [diagramJobs EXCEPT ![j] =
               [state |-> "asked",
                request |-> [kind |-> from.kind, turns |-> from.turns, asked |-> text]]]
        /\ calls' = [Superseded EXCEPT ![j] = [step |-> "sent", latest |-> TRUE]]
        /\ chat' = [chat EXCEPT !.pending = text]
        /\ opening' = [opening EXCEPT !.overtaken = TRUE]

Type(t) ==
    /\ Open /\ Deed /\ chat.pending = Nothing /\ t # prompt
    /\ prompt' = t
    /\ UNCHANGED <<chat, pasted, calls, diagramJobs, tracking, discards, unheard, opening,
                   placing, pieces, placement>>

Send ==
    /\ Open /\ Deed /\ Idle /\ chat.pending = Nothing /\ prompt # NoText
    /\ Generate(chat, prompt)
    /\ UNCHANGED <<prompt, pasted, tracking, discards, unheard, placing, pieces, placement>>

\* The server starts the job, or its limits refuse it.
ServeGenerate(j) ==
    /\ diagramJobs[j].state = "asked"
    /\ \E s \in {"running", "gone"} :
          /\ diagramJobs' = [diagramJobs EXCEPT ![j].state = s]
          /\ calls' = [calls EXCEPT ![j].step =
                IF @ = "left" THEN @ ELSE IF s = "running" THEN "started" ELSE "refused"]
    /\ UNCHANGED <<chat, prompt, pasted, tracking, discards, unheard, opening, placing,
                   pieces, placement, deeds>>

(* Fault: what was started for a conversation that is gone is left alone. *)
GenerateArrivesKept(j) ==
    /\ calls[j].step = "started"
    /\ IF calls[j].latest
         THEN tracking' = j /\ calls' = [calls EXCEPT ![j].step = "polling"]
         ELSE UNCHANGED tracking /\ calls' = [calls EXCEPT ![j].step = "over"]
    /\ UNCHANGED <<chat, prompt, pasted, diagramJobs, discards, unheard, opening, placing,
                   pieces, placement, deeds>>

\* What was started for a conversation that is gone is stopped.
GenerateArrives(j) ==
    /\ calls[j].step = "started"
    /\ IF calls[j].latest
         THEN /\ tracking' = j /\ calls' = [calls EXCEPT ![j].step = "polling"]
              /\ UNCHANGED discards
         ELSE /\ discards' = discards \cup {j} /\ calls' = [calls EXCEPT ![j].step = "over"]
              /\ UNCHANGED tracking
    /\ UNCHANGED <<chat, prompt, pasted, diagramJobs, unheard, opening, placing, pieces,
                   placement, deeds>>

\* Refused, or the answer is lost and what was started goes on unheard.
GenerateFails(j) ==
    /\ calls[j].step \in {"started", "refused"}
    /\ calls' = [calls EXCEPT ![j].step = "over"]
    /\ chat' = IF calls[j].latest THEN FailTurn(chat) ELSE chat
    /\ unheard' = IF calls[j].step = "started" THEN unheard \cup {j} ELSE unheard
    /\ UNCHANGED <<prompt, pasted, diagramJobs, tracking, discards, opening, placing, pieces,
                   placement, deeds>>

\* A job ends; a server that starts again, or time, forgets it.
JobEnds(j, s) ==
    /\ \/ diagramJobs[j].state = "running" /\ s \in {"done", "failed", "gone"}
       \/ diagramJobs[j].state \in {"done", "failed"} /\ s = "gone"
    /\ diagramJobs' = [diagramJobs EXCEPT ![j].state = s]
    /\ UNCHANGED <<chat, prompt, pasted, calls, tracking, discards, unheard, opening, placing,
                   pieces, placement, deeds>>

Polls(j) == calls[j].step = "polling" /\ calls[j].latest

\* The box is emptied only while it holds what was sent.
Settle(j) ==
    /\ Polls(j) /\ diagramJobs[j].state \in {"done", "failed"}
    /\ calls' = [calls EXCEPT ![j].step = "over"]
    /\ discards' = discards \cup {j}
    /\ tracking' = IF tracking = j THEN Nothing ELSE tracking
    /\ IF diagramJobs[j].state = "done"
         THEN /\ chat' = CompleteTurn(chat, j)
              /\ prompt' = IF prompt = diagramJobs[j].request.asked THEN NoText ELSE prompt
         ELSE chat' = FailTurn(chat) /\ UNCHANGED prompt
    /\ UNCHANGED <<pasted, diagramJobs, unheard, opening, placing, pieces, placement, deeds>>

\* pollJob throws: the job is gone, or the server was not reached five times.
SettleFails(j) ==
    /\ Polls(j) /\ diagramJobs[j].state # "done"
    /\ calls' = [calls EXCEPT ![j].step = "over"]
    /\ chat' = FailTurn(chat)
    /\ unheard' = unheard \cup {j}
    /\ UNCHANGED <<prompt, pasted, diagramJobs, tracking, discards, opening, placing, pieces,
                   placement, deeds>>

ServeDiscard(j, ok) ==
    /\ j \in discards /\ discards' = discards \ {j}
    /\ diagramJobs' = IF ok THEN [diagramJobs EXCEPT ![j].state = "gone"] ELSE diagramJobs
    /\ unheard' = IF ok THEN unheard ELSE unheard \cup {j}
    /\ UNCHANGED <<chat, prompt, pasted, calls, tracking, opening, placing, pieces, placement, deeds>>

(* Fault: a choice of the kind it has begins a generation too. *)
ChangeKindAlways(k) ==
    /\ Open /\ Deed /\ Idle
    /\ chat' = IF k = chat.kind THEN chat ELSE StartChat(k)
    /\ calls' = Superseded
    /\ opening' = [opening EXCEPT !.overtaken = TRUE]
    /\ discards' = IF tracking = Nothing THEN discards ELSE discards \cup {tracking}
    /\ tracking' = Nothing
    /\ UNCHANGED <<prompt, pasted, diagramJobs, unheard, placing, pieces, placement>>

\* The conversation is gone, and the job it waits for is stopped.  The panel offers this
\* only between requests; the function itself does not rely on it.
ChangeKind(k) ==
    /\ Open /\ Deed /\ Idle /\ k # chat.kind
    /\ chat' = StartChat(k)
    /\ calls' = Superseded
    /\ opening' = [opening EXCEPT !.overtaken = TRUE]
    /\ discards' = IF tracking = Nothing THEN discards ELSE discards \cup {tracking}
    /\ tracking' = Nothing
    /\ UNCHANGED <<prompt, pasted, diagramJobs, unheard, placing, pieces, placement>>

-----------------------------------------------------------------------------
(* Leaving the board and opening it again *)

Leave ==
    /\ Open /\ Deed
    /\ chat' = StartChat(FirstKind) /\ prompt' = NoText /\ pasted' = NoText
    /\ calls' = [j \in Generations |->
            IF calls[j].step = "none" THEN NoCall ELSE [step |-> "left", latest |-> FALSE]]
    /\ tracking' = Nothing /\ opening' = NoOpening
    /\ placing' = NoPlacing /\ placement' = NoPlacement
    /\ pieces' = [i \in Pieces |-> NoPiece]
    /\ UNCHANGED <<diagramJobs, discards, unheard>>

OpenBoard ==
    /\ ~Open /\ opening' = [NoOpening EXCEPT !.step = "sent"]
    /\ UNCHANGED <<chat, prompt, pasted, calls, diagramJobs, tracking, discards, unheard,
                   placing, pieces, placement, deeds>>

ServeJobs ==
    /\ opening.step = "sent"
    /\ opening' = [opening EXCEPT !.step = "served", !.jobs =
           {j \in Generations : diagramJobs[j].state \in {"running", "done", "failed"}}]
    /\ UNCHANGED <<chat, prompt, pasted, calls, diagramJobs, tracking, discards, unheard,
                   placing, pieces, placement, deeds>>

(* Fault: what was sent while the jobs were read is not noticed. *)
OvertakenNever == FALSE

\* touched is not what it was when the reading began.
Overtaken == opening.overtaken

\* The latest job is taken up with its conversation, the others are discarded.
JobsArrive ==
    /\ opening.step = "served" /\ opening' = [opening EXCEPT !.step = "over"]
    /\ IF Overtaken \/ opening.jobs = {}
         THEN UNCHANGED <<chat, prompt, calls, tracking, discards>>
         ELSE LET last == CHOOSE j \in opening.jobs : \A i \in opening.jobs : i <= j
                  asked == diagramJobs[last].request
              IN  /\ chat' = [kind |-> asked.kind, turns |-> asked.turns,
                              pending |-> asked.asked, draft |-> Nothing]
                  /\ prompt' = IF asked.asked = Retry THEN prompt ELSE asked.asked
                  /\ calls' = [Superseded EXCEPT ![last] = [step |-> "polling", latest |-> TRUE]]
                  /\ tracking' = last
                  /\ discards' = discards \cup (opening.jobs \ {last})
    /\ UNCHANGED <<pasted, diagramJobs, unheard, placing, pieces, placement, deeds>>

JobsFail ==
    /\ opening.step \in {"sent", "served"} /\ opening' = [opening EXCEPT !.step = "over"]
    /\ UNCHANGED <<chat, prompt, pasted, calls, diagramJobs, tracking, discards, unheard,
                   placing, pieces, placement, deeds>>

-----------------------------------------------------------------------------
(* Placing *)

PlacedOnCanvas(d) == placement.draft = d /\ \E i \in placement.ids : pieces[i].shown

\* The panel offers it between requests, while the draft is not on the canvas.
PlaceDraft ==
    /\ Open /\ chat.draft # Nothing /\ chat.pending = Nothing /\ ~PlacedOnCanvas(chat.draft)
    /\ placing = NoPlacing
    /\ placing' = [what |-> "draft", draft |-> chat.draft, from |-> chat]
    /\ UNCHANGED <<chat, prompt, pasted, calls, diagramJobs, tracking, discards, unheard,
                   opening, pieces, placement, deeds>>

Free == {i \in Pieces : pieces[i] = NoPiece /\ \A k \in 1 .. i - 1 : pieces[k] # NoPiece}

(* Fault: elements of an earlier placing of the same draft are forgotten. *)
RememberedLast(d, i) == [draft |-> d, ids |-> {i}]

Remembered(d, i) ==
    [draft |-> d, ids |-> {i} \cup IF placement.draft = d THEN placement.ids ELSE {}]

\* A deletion may have been undone meanwhile.
DraftConverted ==
    /\ placing.what = "draft" /\ placing' = NoPlacing
    /\ IF PlacedOnCanvas(placing.draft) THEN UNCHANGED <<pieces, placement>>
       ELSE \E i \in Free :
              /\ pieces' = [pieces EXCEPT ![i] = [draft |-> placing.draft, shown |-> TRUE]]
              /\ placement' = Remembered(placing.draft, i)
    /\ UNCHANGED <<chat, prompt, pasted, calls, diagramJobs, tracking, discards, unheard,
                   opening, deeds>>

\* The next request of the conversation, which is the one placeDraft was pressed in.
DraftUnreadable ==
    /\ placing.what = "draft" /\ placing' = NoPlacing
    /\ Generate(placing.from, Retry)
    /\ UNCHANGED <<prompt, pasted, tracking, discards, unheard, pieces, placement, deeds>>

DraftNotPlaceable ==
    /\ placing.what = "draft" /\ placing' = NoPlacing
    /\ chat' = FailTurn(chat)
    /\ UNCHANGED <<prompt, pasted, calls, diagramJobs, tracking, discards, unheard, opening,
                   pieces, placement, deeds>>

TypePaste(t) ==
    /\ Open /\ Deed /\ t # pasted
    /\ pasted' = t
    /\ UNCHANGED <<chat, prompt, calls, diagramJobs, tracking, discards, unheard, opening,
                   placing, pieces, placement>>

PasteMermaid ==
    /\ Open /\ pasted # NoText /\ placing = NoPlacing
    /\ placing' = [what |-> "paste", text |-> pasted]
    /\ UNCHANGED <<chat, prompt, pasted, calls, diagramJobs, tracking, discards, unheard,
                   opening, pieces, placement, deeds>>

\* The box is emptied only while it holds what was placed.
PasteConverted ==
    /\ placing.what = "paste" /\ placing' = NoPlacing
    /\ \E i \in Free : pieces' = [pieces EXCEPT ![i].shown = TRUE]
    /\ pasted' = IF pasted = placing.text THEN NoText ELSE pasted
    /\ UNCHANGED <<chat, prompt, calls, diagramJobs, tracking, discards, unheard, opening,
                   placement, deeds>>

PasteRefused ==
    /\ placing.what = "paste" /\ placing' = NoPlacing
    /\ UNCHANGED <<chat, prompt, pasted, calls, diagramJobs, tracking, discards, unheard,
                   opening, pieces, placement, deeds>>

\* The user deletes a diagram, or takes the deletion back.
Erase(i) ==
    /\ Open /\ Deed /\ pieces[i] # NoPiece
    /\ pieces' = [pieces EXCEPT ![i].shown = ~@]
    /\ UNCHANGED <<chat, prompt, pasted, calls, diagramJobs, tracking, discards, unheard,
                   opening, placing, placement>>

DiagramNext ==
    \/ \E t \in Texts \cup {NoText} : Type(t) \/ TypePaste(t)
    \/ Send \/ PlaceDraft \/ PasteMermaid
    \/ \E j \in Generations :
          \/ ServeGenerate(j) \/ GenerateArrives(j) \/ GenerateFails(j)
          \/ Settle(j) \/ SettleFails(j)
          \/ \E s \in {"done", "failed", "gone"} : JobEnds(j, s)
          \/ \E ok \in BOOLEAN : ServeDiscard(j, ok)
    \/ \E k \in DiagramKinds : ChangeKind(k)
    \/ Leave \/ OpenBoard \/ ServeJobs \/ JobsArrive \/ JobsFail
    \/ DraftConverted \/ DraftUnreadable \/ DraftNotPlaceable
    \/ PasteConverted \/ PasteRefused
    \/ \E i \in Pieces : Erase(i)

-----------------------------------------------------------------------------
(* Properties *)

\* The conversation, the request that runs and the draft that is shown are of the kind
\* that is chosen: a late answer never puts a diagram of another kind under it
\* (changeKind, generations).
OneKind ==
    /\ \A n \in DOMAIN chat.turns : chat.turns[n] = chat.kind
    /\ chat.draft # Nothing => diagramJobs[chat.draft].request.kind = chat.kind

\* While the panel says that it generates, something is on its way that will end it, and
\* while a request of this conversation is on its way the panel says so.
PendingIsFollowed ==
    chat.pending # Nothing <=>
        \E j \in Generations :
            calls[j].latest /\ calls[j].step \in {"sent", "started", "refused", "polling"}

\* A job this visit started and still runs is waited for or is being stopped: it would
\* keep the one slot a user has.  Lost answers excepted.
SlotIsFollowed ==
    \A j \in Generations :
        diagramJobs[j].state = "running" /\ calls[j].step # "left" =>
            \/ calls[j].step = "started" \/ j = tracking
            \/ j \in discards \/ j \in unheard

GenerationIsFollowed == OneKind /\ PendingIsFollowed /\ SlotIsFollowed

\* A draft is never placed beside itself, whatever was deleted and brought back before and
\* during the conversion (placedOnCanvas, placeDraft).
PlacedOnce ==
    [][\A i \in Pieces : pieces[i] = NoPiece /\ pieces'[i].draft # Nothing =>
          \A k \in Pieces : pieces[k].draft = pieces'[i].draft => ~pieces[k].shown]_diagram
=============================================================================
