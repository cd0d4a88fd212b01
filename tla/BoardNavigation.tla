--------------------------- MODULE BoardNavigation ---------------------------
(***************************************************************************)
(* Which board is on the screen (web/src/app): the list, the flow that     *)
(* makes a board, the choice of its target, the canvas, the URL and the    *)
(* history of the browser, and the answers that arrive while the user has  *)
(* already gone elsewhere.                                                 *)
(*                                                                         *)
(* JavaScript runs one handler at a time and gives way only at an await.   *)
(* An action is what runs between two awaits.  A call to the server is     *)
(* sent, served (which is when it reads or writes) and answered.           *)
(*                                                                         *)
(* Requests to open a board carry a generation.  An answer of an older     *)
(* generation does nothing, whether it succeeds or fails, so only the      *)
(* latest one is kept (`opening`); the readings of the list likewise.      *)
(***************************************************************************)
EXTENDS Naturals, Sequences, FiniteSets

CONSTANTS
    Boards,         \* ids of boards
    Founded,        \* the boards that exist at first
    Calls,          \* slots of calls that no generation overtakes
    NoBoard,        \* none, of boards and of calls
    MaxVersion,     \* bound on the saves of a board
    MaxHistory,     \* bound on the entries of the browser's history
    Habits          \* what users may be doing together, in one behaviour

ASSUME NavigationAssumption ==
    /\ NoBoard \notin Boards \cup Calls
    /\ Founded \subseteq Boards
    /\ MaxVersion \in Nat /\ MaxHistory \in Nat \ {0}
    /\ Habits \subseteq SUBSET {"create", "bare", "delete", "pick", "lock", "replace",
                             "save", "others", "logout", "expire"}

VARIABLES
    app,        \* what the components of App hold
    unsaved,    \* the canvas differs from what is saved
    base,       \* useSceneSave: the version the next save stands on
    drawnOn,    \* the version the canvas was built from or last saved as
    deletion,   \* useBoardDeletion: how far the dialog has got
    mine,       \* the calls whose component is still on the screen
    flow,       \* useNewBoardFlow: the dialog and its name
    opening,    \* the load of a board that has not been overtaken
    calls,      \* the other calls
    listing,    \* the reading of the list that has not been overtaken
    listed,     \* the list on the screen
    entries, position, shown,   \* the browser's history; useBoardNavigation: shown
    made, removed, saved,       \* the server: boards and their versions,
    targeted, fixed,            \* and which have a target, and may not change it
    does,       \* what users do in this behaviour
    lost,       \* edits went without a question
    late,       \* answers that met a screen they were not sent for, or left the URL behind
    gone        \* boards the user was told are deleted

ui     == <<app, unsaved, base, drawnOn, deletion, mine>>
url    == <<entries, position, shown>>
server == <<made, removed, saved, targeted, fixed>>
notes  == <<lost, late, gone>>
vars   == <<ui, flow, opening, calls, listing, listed, url, server, notes, does>>

-----------------------------------------------------------------------------
(* Locations and screens *)

Location == {[board |-> NoBoard, picking |-> FALSE]}
            \cup [board : Boards, picking : BOOLEAN]

NoLocation == [board |-> NoBoard, picking |-> FALSE]

App == [session : {"asking", "in", "out"}, begun : BOOLEAN, choosesTarget : BOOLEAN,
        current : Boards \cup {NoBoard}, version : 0 .. MaxVersion,
        targeted : BOOLEAN, fixed : BOOLEAN, picking : BOOLEAN, creating : BOOLEAN]

\* The component App renders, by its key.
Screen(a) ==
    IF a.session = "asking" THEN <<"blank">>
    ELSE IF a.session = "out" THEN <<"login">>
    ELSE IF a.creating THEN <<"picker", NoBoard>>
    ELSE IF a.current = NoBoard THEN <<"list">>
    ELSE IF a.picking \/ (~a.targeted /\ a.choosesTarget) THEN <<"picker", a.current>>
    ELSE <<"canvas", a.current>>

OnCanvas(b) == Screen(app) = <<"canvas", b>>
OnPicker(b) == Screen(app) = <<"picker", b>>
\* Nothing is pressed before the effects of the first rendering have run.
OnList      == app.begun /\ Screen(app) = <<"list">>
Canvases    == {<<"canvas", b>> : b \in Boards}

Load == [kind : {"open", "history", "cancel", "reopen"}, board : Boards,
         push : BOOLEAN, picking : BOOLEAN, here : Location, by : Calls \cup {NoBoard},
         state : {"sent", "served"}, version : 0 .. MaxVersion,
         targeted : BOOLEAN, fixed : BOOLEAN]

NoLoad == [kind |-> "none"]

Call == [kind : {"create", "setTarget", "reopen", "deletion", "delete", "replace", "logout",
                 "session"},
         board : Boards \cup {NoBoard}, overtaken : BOOLEAN,
         state : {"sent", "served"}, version : 0 .. MaxVersion,
         targeted : BOOLEAN, fixed : BOOLEAN]

Idle == [kind |-> "idle"]

TypeOK ==
    /\ app \in App
    /\ unsaved \in BOOLEAN
    /\ base \in 0 .. MaxVersion /\ drawnOn \in 0 .. MaxVersion
    /\ deletion \in {"none", "loading", "confirming", "deleting"}
    /\ mine \subseteq Calls
    /\ flow \in [dialog : BOOLEAN, named : BOOLEAN, submitting : BOOLEAN]
    /\ opening \in Load \cup {NoLoad}
    /\ calls \in [Calls -> Call \cup {Idle}]
    /\ listing \in [state : {"none", "sent", "served"},
                    boards : SUBSET Boards]
    /\ listed \in [read : BOOLEAN, boards : SUBSET Boards]
    /\ entries \in Seq(Location) /\ Len(entries) \in 1 .. MaxHistory
    /\ position \in DOMAIN entries
    /\ shown \in Location
    /\ made \subseteq Boards /\ removed \subseteq made
    /\ saved \in [Boards -> 0 .. MaxVersion]
    /\ targeted \in [Boards -> BOOLEAN] /\ fixed \subseteq Boards
    /\ does \in Habits
    /\ lost \in BOOLEAN /\ gone \subseteq Boards
    /\ late \subseteq {"delete", "target", "again", "logout", "session", "url"}

NoListing == [state |-> "none", boards |-> {}]
Unread    == [read |-> FALSE, boards |-> {}]

\* The page is loaded with any location in its URL.
Init ==
    /\ app = [session |-> "asking", begun |-> FALSE, choosesTarget |-> TRUE,
              current |-> NoBoard, version |-> 0, targeted |-> FALSE, fixed |-> FALSE,
              picking |-> FALSE, creating |-> FALSE]
    /\ unsaved = FALSE /\ base = 0 /\ drawnOn = 0
    /\ deletion = "none" /\ mine = {}
    /\ flow = [dialog |-> FALSE, named |-> FALSE, submitting |-> FALSE]
    /\ opening = NoLoad /\ calls = [c \in Calls |-> Idle]
    /\ listing = NoListing /\ listed = Unread
    /\ entries \in {<<l>> : l \in Location} /\ position = 1 /\ shown = NoLocation
    /\ made = Founded /\ removed = {}
    /\ saved = [b \in Boards |-> 0] /\ targeted \in [Boards -> BOOLEAN]
    /\ \A b \in Boards \ Founded : ~targeted[b]
    /\ fixed = {}
    /\ does \in Habits
    /\ lost = FALSE /\ late = {} /\ gone = {}

-----------------------------------------------------------------------------
(* What the handlers share *)

\* React renders `a`.  If that is another component, or one with another key, the
\* old one goes with everything it held.  `asked`: the user was asked about what is
\* not saved, or there is nothing to ask.
Show(a, asked, m) ==
    /\ app' = a
    /\ IF Screen(a) = Screen(app)
         THEN /\ mine' = m
              /\ base' = IF a.version # app.version THEN a.version ELSE base
              /\ UNCHANGED <<unsaved, drawnOn, deletion, lost>>
         ELSE /\ mine' = {} /\ unsaved' = FALSE /\ deletion' = "none"
              /\ base' = a.version /\ drawnOn' = a.version
              /\ lost' = (lost \/ (unsaved /\ ~asked))

\* confirmDiscard: without edits it does not ask; FALSE is the user's refusal.
ConfirmDiscard == IF unsaved THEN BOOLEAN ELSE {TRUE}

ReplaceLocation(l) ==
    /\ shown' = l
    /\ entries' = [entries EXCEPT ![position] = l]
    /\ UNCHANGED position

PushLocation(l) ==
    /\ position < MaxHistory
    /\ shown' = l
    /\ entries' = Append(SubSeq(entries, 1, position), l)
    /\ position' = position + 1

ShowLocation(l, push) == IF push THEN PushLocation(l) ELSE ReplaceLocation(l)

(* Fault: a new generation leaves older calls as they are, so their answers still count. *)
OvertakenNever(cs) == cs

\* What a new generation does to the calls that have noted an older one.
Overtaken(cs) ==
    [c \in Calls |-> IF cs[c].kind \in {"create", "reopen"}
                       THEN [cs[c] EXCEPT !.overtaken = TRUE] ELSE cs[c]]

(* Fault: the load that is on its way is not overtaken. *)
InvalidateCalls(cs) == calls' = Overtaken(cs) /\ UNCHANGED opening

InvalidateAll(cs) == opening' = NoLoad /\ calls' = Overtaken(cs)

\* A load overtakes everything but the call it belongs to.
LoadBoard(kind, b, push, picking, by, cs) ==
    /\ opening' = [kind |-> kind, board |-> b, push |-> push, picking |-> picking,
                   here |-> shown, by |-> by, state |-> "sent",
                   version |-> 0, targeted |-> FALSE, fixed |-> FALSE]
    /\ calls' = [c \in Calls |-> IF c = by THEN cs[c] ELSE Overtaken(cs)[c]]

Reload == listing' = [state |-> "sent", boards |-> {}]

NewCall(kind, b) ==
    [kind |-> kind, board |-> b, overtaken |-> FALSE, state |-> "sent",
     version |-> 0, targeted |-> FALSE, fixed |-> FALSE]

Put(c, r) == [calls EXCEPT ![c] = r]

\* The board as the server tells it, on the screen.
Opened(b, load, picking) ==
    [app EXCEPT !.current = b, !.version = load.version, !.targeted = load.targeted,
                !.fixed = load.fixed, !.picking = picking]

(* Fault: the version an answer came with is taken over, too. *)
ReplacedVersionAnswered(answered) == answered

\* A board that is replaced by what an answer says of it is still at its version.
ReplacedVersion(answered) == app.version

Closed(a) == [a EXCEPT !.current = NoBoard, !.version = 0, !.targeted = FALSE, !.fixed = FALSE]

\* Only an owner may, and only before the first creation from the board.
CanOpenTargetPicker(board) == ~board.fixed

Exists == made \ removed

\* The session as it is read anew, whatever is on the screen: nothing is asked.
ReplaceSession(s, reason) ==
    /\ Show([app EXCEPT !.session = s], FALSE, mine)
    /\ late' = IF s = "out" /\ Screen(app) \in Canvases THEN late \cup {reason} ELSE late

\* What the user asked for last and is not answered yet: a board, a new one, a target.
Underway ==
    \/ opening # NoLoad
    \/ \E c \in Calls : \/ calls[c].kind = "create" /\ ~calls[c].overtaken
                        \/ calls[c].kind = "setTarget"

UrlFits == entries[position] = shown

\* A creation or a target that fails has overtaken the loads before it, and with them what
\* would have put the URL back.
NoteUrl == late' = IF UrlFits \/ Underway' THEN late ELSE late \cup {"url"}

-----------------------------------------------------------------------------
(* The session, the capabilities and the list *)

\* A session that cannot be read counts as one that needs no login.
SessionArrives ==
    /\ app.session = "asking"
    /\ \E s \in {"in", "out"} : app' = [app EXCEPT !.session = s]
    /\ UNCHANGED <<unsaved, base, drawnOn, deletion, mine, flow, opening, calls,
                   listing, listed, url, server, notes, does>>

\* Signed in: the list is read and the board in the URL is opened, once.
Begin ==
    /\ app.session = "in" /\ ~app.begun
    /\ app' = [app EXCEPT !.begun = TRUE]
    /\ Reload
    /\ LET l == entries[position]
       IN  IF l.board = NoBoard
             THEN ReplaceLocation(NoLocation) /\ UNCHANGED <<opening, calls>>
             ELSE LoadBoard("open", l.board, FALSE, l.picking, NoBoard, calls) /\ UNCHANGED url
    /\ UNCHANGED <<unsaved, base, drawnOn, deletion, mine, flow, listed, server, notes, does>>

\* GitHub turns out not to be set up.
CapabilitiesArrive ==
    /\ "bare" \in does /\ app.begun /\ app.session = "in" /\ app.choosesTarget
    /\ Show([app EXCEPT !.choosesTarget = FALSE], FALSE, mine)
    /\ UNCHANGED <<flow, opening, calls, listing, listed, url, server, late, gone, does>>

ServeList ==
    /\ listing.state = "sent"
    /\ listing' = [state |-> "served", boards |-> Exists]
    /\ UNCHANGED <<ui, flow, opening, calls, listed, url, server, notes, does>>

ListArrives ==
    /\ listing.state = "served"
    /\ listing' = NoListing
    /\ listed' = [read |-> TRUE, boards |-> listing.boards]
    /\ UNCHANGED <<ui, flow, opening, calls, url, server, notes, does>>

\* What was listed stays.  A refusal for want of a login makes the session be read again.
ListFails ==
    /\ "expire" \in does /\ listing.state # "none"
    /\ listing' = NoListing
    /\ \/ UNCHANGED calls
       \/ \E c \in Calls : calls[c] = Idle /\ calls' = Put(c, NewCall("session", NoBoard))
    /\ UNCHANGED <<ui, flow, opening, listed, url, server, notes, does>>

SessionIsReread(c) ==
    /\ calls[c].kind = "session"
    /\ calls' = Put(c, Idle)
    /\ \E s \in {"in", "out"} : ReplaceSession(s, "session")
    /\ UNCHANGED <<flow, opening, listing, listed, url, server, gone, does>>

\* clearBoards drops the list and the reading of it.
Logout(c) ==
    /\ "logout" \in does /\ OnList /\ ~flow.dialog /\ calls[c] = Idle
    /\ Show(Closed(app), TRUE, mine)
    /\ listed' = Unread /\ listing' = NoListing
    /\ InvalidateAll(Put(c, NewCall("logout", NoBoard)))
    /\ ReplaceLocation(NoLocation)
    /\ UNCHANGED <<flow, server, late, gone, does>>

LogoutArrives(c) ==
    /\ calls[c].kind = "logout"
    /\ calls' = Put(c, Idle)
    /\ \/ /\ calls[c].state = "served"
          /\ ReplaceSession("out", "logout") /\ UNCHANGED listing
       \/ UNCHANGED <<ui, lost, late>> /\ Reload
    /\ UNCHANGED <<flow, opening, listed, url, server, gone, does>>

-----------------------------------------------------------------------------
(* Opening and closing *)

Open(b) ==
    /\ OnList /\ ~flow.dialog /\ b \in listed.boards
    /\ LoadBoard("open", b, TRUE, FALSE, NoBoard, calls)
    /\ UNCHANGED <<ui, flow, listing, listed, url, server, notes, does>>

ServeLoad ==
    /\ opening # NoLoad /\ opening.state = "sent"
    /\ LET b == opening.board
       IN  /\ b \in Exists
           /\ opening' = [opening EXCEPT !.state = "served", !.version = saved[b],
                                         !.targeted = targeted[b], !.fixed = b \in fixed]
    /\ UNCHANGED <<ui, flow, calls, listing, listed, url, server, notes, does>>

\* The slot of the call a load belongs to.
EndOf(by) == IF by = NoBoard THEN calls ELSE Put(by, Idle)

(* Fault: the failure is told, but the URL keeps naming what could not be opened. *)
LoadFailsKeepingUrl ==
    /\ opening # NoLoad
    /\ opening' = NoLoad /\ calls' = EndOf(opening.by)
    /\ mine' = mine \ {opening.by}
    /\ UNCHANGED <<app, unsaved, base, drawnOn, deletion, flow, listing, listed, url, server,
                   notes, does>>

\* loadBoard, refused or its answer lost: the URL goes back to what is on the screen.
LoadFails ==
    /\ opening # NoLoad
    /\ opening' = NoLoad /\ calls' = EndOf(opening.by)
    /\ mine' = mine \ {opening.by}
    /\ ReplaceLocation(shown)
    /\ UNCHANGED <<app, unsaved, base, drawnOn, deletion, flow, listing, listed, server,
                   notes, does>>

\* The answers of open and of popstate: asked for last, so ask now and show at once.
OpenArrives ==
    /\ opening # NoLoad /\ opening.state = "served" /\ opening.kind \in {"open", "history"}
    /\ LET b == opening.board
           p == opening.picking /\ CanOpenTargetPicker(opening)
       IN  \E yes \in ConfirmDiscard :
             IF yes
               THEN /\ Show([Opened(b, opening, p) EXCEPT !.creating = FALSE], TRUE, mine)
                    /\ ShowLocation([board |-> b, picking |-> p], opening.push)
               ELSE /\ UNCHANGED <<ui, lost>>
                    /\ IF opening.kind = "history" THEN PushLocation(opening.here)
                                                   ELSE UNCHANGED url
    /\ late' = IF app' # app /\ Screen(app') = Screen(app) /\ app'.version # app.version
                 THEN late \cup {"again"} ELSE late
    /\ opening' = NoLoad
    /\ UNCHANGED <<flow, calls, listing, listed, server, gone, does>>

\* The answers that close the choice of a target: nothing is asked.
ReopenArrives ==
    /\ opening # NoLoad /\ opening.state = "served" /\ opening.kind \in {"cancel", "reopen"}
    /\ LET b == opening.board
       IN  /\ Show(Opened(b, opening, FALSE), FALSE, mine \ {opening.by})
           /\ ReplaceLocation([board |-> b, picking |-> FALSE])
    /\ late' = IF opening.kind = "reopen" /\ opening.by \notin mine
                 THEN late \cup {"target"} ELSE late
    /\ opening' = NoLoad /\ calls' = EndOf(opening.by)
    /\ UNCHANGED <<flow, listing, listed, server, gone, does>>

CloseBoard ==
    /\ \/ Screen(app) \in Canvases
       \/ \E b \in Boards : OnPicker(b) /\ ~app.picking
    /\ TRUE \in ConfirmDiscard
    /\ InvalidateAll(calls)
    /\ Show([Closed(app) EXCEPT !.picking = FALSE, !.creating = FALSE], TRUE, mine)
    /\ PushLocation(NoLocation)
    /\ Reload
    /\ UNCHANGED <<flow, listed, server, late, gone, does>>

\* Back or forward.  What was being opened is no longer wanted, whatever comes next.
Popstate(p) ==
    /\ app.session = "in" /\ app.begun /\ p # position
    /\ LET next == entries[p]
       IN  IF next = shown
             THEN /\ InvalidateAll(calls) /\ position' = p
                  /\ UNCHANGED <<ui, lost, entries, shown, listing>>
           ELSE IF next.board # NoBoard
             THEN /\ LoadBoard("history", next.board, FALSE, next.picking, NoBoard, calls)
                  /\ position' = p
                  /\ UNCHANGED <<ui, lost, entries, shown, listing>>
           ELSE /\ InvalidateAll(calls)
                /\ \E yes \in ConfirmDiscard :
                     IF yes
                       THEN /\ Show([Closed(app) EXCEPT !.picking = FALSE, !.creating = FALSE],
                                    TRUE, mine)
                            /\ position' = p /\ shown' = NoLocation
                            /\ entries' = [entries EXCEPT ![p] = NoLocation]
                            /\ Reload
                       ELSE /\ p < MaxHistory
                            /\ entries' = Append(SubSeq(entries, 1, p), shown)
                            /\ position' = p + 1
                            /\ UNCHANGED <<ui, lost, shown, listing>>
    /\ UNCHANGED <<flow, listed, server, late, gone, does>>

-----------------------------------------------------------------------------
(* Making a board *)

OpenDialog ==
    /\ "create" \in does /\ OnList /\ ~flow.dialog
    /\ flow' = [flow EXCEPT !.dialog = TRUE]
    /\ UNCHANGED <<ui, opening, calls, listing, listed, url, server, notes, does>>

SetName ==
    /\ OnList /\ flow.dialog /\ ~flow.named
    /\ flow' = [flow EXCEPT !.named = TRUE]
    /\ UNCHANGED <<ui, opening, calls, listing, listed, url, server, notes, does>>

CancelDialog ==
    /\ OnList /\ flow.dialog /\ ~flow.submitting
    /\ flow' = [flow EXCEPT !.dialog = FALSE, !.named = FALSE]
    /\ UNCHANGED <<ui, opening, calls, listing, listed, url, server, notes, does>>

StartCreating ==
    /\ OnList /\ flow.dialog /\ flow.named /\ app.choosesTarget
    /\ TRUE \in ConfirmDiscard
    /\ flow' = [flow EXCEPT !.dialog = FALSE]
    /\ Show([Closed(app) EXCEPT !.creating = TRUE, !.picking = FALSE], TRUE, mine)
    /\ ReplaceLocation(NoLocation)
    /\ UNCHANGED <<opening, calls, listing, listed, server, late, gone, does>>

BackToDialog ==
    /\ OnPicker(NoBoard)
    /\ flow' = [flow EXCEPT !.dialog = TRUE]
    /\ Show([app EXCEPT !.creating = FALSE], FALSE, mine)
    /\ UNCHANGED <<opening, calls, listing, listed, url, server, late, gone, does>>

\* The generation is noted before the request is sent.
CreateWithTarget(c) ==
    /\ OnPicker(NoBoard) /\ mine = {} /\ calls[c] = Idle
    /\ opening' = NoLoad
    /\ calls' = [Overtaken(calls) EXCEPT ![c] = NewCall("create", NoBoard)]
    /\ mine' = {c}
    /\ UNCHANGED <<app, unsaved, base, drawnOn, deletion, flow, listing, listed, url,
                   server, notes, does>>

CreateWithoutTarget(c) ==
    /\ OnList /\ flow.dialog /\ flow.named /\ ~flow.submitting /\ ~app.choosesTarget
    /\ calls[c] = Idle
    /\ TRUE \in ConfirmDiscard
    /\ opening' = NoLoad
    /\ calls' = [Overtaken(calls) EXCEPT ![c] = NewCall("create", NoBoard)]
    /\ flow' = [flow EXCEPT !.submitting = TRUE]
    /\ UNCHANGED <<ui, listing, listed, url, server, notes, does>>

\* openCreated: not if the user has gone elsewhere since it was sent.
CreateArrives(c) ==
    /\ calls[c].kind = "create" /\ calls[c].state = "served"
    /\ LET b == calls[c].board
           a == [app EXCEPT !.creating = FALSE]
       IN  IF calls[c].overtaken
             THEN /\ Show(a, FALSE, mine \ {c})
                  /\ calls' = Put(c, Idle)
                  /\ UNCHANGED <<opening, url>>
             ELSE /\ Show([Opened(b, calls[c], app.picking) EXCEPT !.creating = FALSE], FALSE, mine \ {c})
                  /\ InvalidateAll(Put(c, Idle))
                  /\ PushLocation([board |-> b, picking |-> FALSE])
    /\ flow' = [dialog |-> flow.dialog /\ ~flow.submitting, named |-> FALSE,
                submitting |-> FALSE]
    /\ Reload
    /\ UNCHANGED <<listed, server, late, gone, does>>

CreateFails(c) ==
    /\ calls[c].kind = "create"
    /\ calls' = Put(c, Idle) /\ mine' = mine \ {c}
    /\ flow' = [flow EXCEPT !.submitting = FALSE]
    /\ UNCHANGED <<app, unsaved, base, drawnOn, deletion, opening, listing, listed, url,
                   server, lost, gone, does>>
    /\ NoteUrl

-----------------------------------------------------------------------------
(* The target of a board that is open *)

\* "Change the target" is disabled while there are edits.
StartPicking ==
    /\ "pick" \in does
    /\ \E b \in Boards :
         /\ OnCanvas(b) /\ ~unsaved /\ CanOpenTargetPicker(app)
         /\ Show([app EXCEPT !.picking = TRUE], FALSE, mine)
         /\ ReplaceLocation([board |-> b, picking |-> TRUE])
    /\ UNCHANGED <<flow, opening, calls, listing, listed, server, late, gone, does>>

ChangeTarget(c) ==
    /\ "pick" \in does /\ mine = {} /\ calls[c] = Idle
    /\ \E b \in Boards : OnPicker(b) /\ InvalidateAll(Put(c, NewCall("setTarget", b)))
    /\ mine' = {c}
    /\ UNCHANGED <<app, unsaved, base, drawnOn, deletion, flow, listing, listed, url,
                   server, notes, does>>

\* The target is set; the board is opened again, wherever the user is by now.
SetTargetArrives(c) ==
    /\ calls[c].kind = "setTarget" /\ calls[c].state = "served"
    /\ LET b == calls[c].board
       IN  LoadBoard("reopen", b, FALSE, FALSE, c, Put(c, NewCall("reopen", b)))
    /\ UNCHANGED <<ui, flow, listing, listed, url, server, notes, does>>

\* The picker shows the failure; the end of a load that was overtaken shows nothing.
SetTargetEnds(c) ==
    /\ \/ calls[c].kind = "setTarget"
       \/ calls[c].kind = "reopen" /\ calls[c].overtaken
    /\ calls' = Put(c, Idle) /\ mine' = mine \ {c}
    /\ UNCHANGED <<app, unsaved, base, drawnOn, deletion, flow, opening, listing, listed, url,
                   server, lost, gone, does>>
    /\ NoteUrl

\* "Stop" is there while the target is being set, too.
CancelPicking ==
    /\ app.picking
    /\ \E b \in Boards : OnPicker(b) /\ LoadBoard("cancel", b, FALSE, FALSE, NoBoard, calls)
    /\ UNCHANGED <<ui, flow, listing, listed, url, server, notes, does>>

-----------------------------------------------------------------------------
(* Managing the board that is open *)

\* What would be lost is asked for first.
AskDeletion(c) ==
    /\ "delete" \in does /\ deletion = "none" /\ calls[c] = Idle
    /\ \E b \in Boards : OnCanvas(b) /\ calls' = Put(c, NewCall("deletion", b))
    /\ deletion' = "loading" /\ mine' = mine \cup {c}
    /\ UNCHANGED <<app, unsaved, base, drawnOn, flow, opening, listing, listed, url,
                   server, notes, does>>

DeletionArrives(c) ==
    /\ calls[c].kind = "deletion"
    /\ calls' = Put(c, Idle) /\ mine' = mine \ {c}
    /\ IF c \notin mine THEN UNCHANGED deletion
       ELSE \/ calls[c].state = "served" /\ deletion' = "confirming"
            \/ deletion' = "none"
    /\ UNCHANGED <<app, unsaved, base, drawnOn, flow, opening, listing, listed, url,
                   server, notes, does>>

CancelDeletion ==
    /\ deletion = "confirming" /\ deletion' = "none"
    /\ UNCHANGED <<app, unsaved, base, drawnOn, mine, flow, opening, calls, listing, listed,
                   url, server, notes, does>>

ConfirmDeletion(c) ==
    /\ deletion = "confirming" /\ calls[c] = Idle
    /\ calls' = Put(c, NewCall("delete", app.current))
    /\ deletion' = "deleting" /\ mine' = mine \cup {c}
    /\ UNCHANGED <<app, unsaved, base, drawnOn, flow, opening, listing, listed, url,
                   server, notes, does>>

(* Fault: the deleted board is only taken off the list; the URL keeps naming it. *)
DeleteArrivesKeepingUrl(c) ==
    /\ calls[c].kind = "delete" /\ calls[c].state = "served"
    /\ InvalidateAll(Put(c, Idle))
    /\ listed' = [listed EXCEPT !.boards = @ \ {calls[c].board}]
    /\ Show(Closed(app), c \in mine, mine \ {c})
    /\ Reload
    /\ gone' = gone \cup {calls[c].board}
    /\ late' = IF c \in mine THEN late ELSE late \cup {"delete"}
    /\ UNCHANGED <<flow, server, does, url>>

\* handleDeleted closes what is on the screen, whichever board that is.
DeleteArrives(c) ==
    /\ calls[c].kind = "delete" /\ calls[c].state = "served"
    /\ InvalidateAll(Put(c, Idle))
    /\ listed' = [listed EXCEPT !.boards = @ \ {calls[c].board}]
    /\ Show(Closed(app), c \in mine, mine \ {c})
    /\ ReplaceLocation(NoLocation)
    /\ Reload
    /\ gone' = gone \cup {calls[c].board}
    /\ late' = IF c \in mine THEN late ELSE late \cup {"delete"}
    /\ UNCHANGED <<flow, server, does>>

DeleteFails(c) ==
    /\ calls[c].kind = "delete"
    /\ calls' = Put(c, Idle) /\ mine' = mine \ {c}
    /\ deletion' = IF c \in mine THEN "confirming" ELSE deletion
    /\ UNCHANGED <<app, unsaved, base, drawnOn, flow, opening, listing, listed, url,
                   server, notes, does>>

\* A new name, a new premise, or what the project is called by now.
Replace(c) ==
    /\ "replace" \in does /\ calls[c] = Idle
    /\ \E b \in Boards : OnCanvas(b) /\ calls' = Put(c, NewCall("replace", b))
    /\ UNCHANGED <<ui, flow, opening, listing, listed, url, server, notes, does>>

\* replaceBoard keeps the version the board was opened at.
ReplaceArrives(c) ==
    /\ calls[c].kind = "replace" /\ calls[c].state = "served"
    /\ calls' = Put(c, Idle)
    /\ Reload
    /\ IF app.current = calls[c].board
         THEN Show([app EXCEPT !.version = ReplacedVersion(calls[c].version),
                               !.targeted = calls[c].targeted,
                               !.fixed = calls[c].fixed], FALSE, mine)
         ELSE UNCHANGED <<ui, lost>>
    /\ UNCHANGED <<flow, opening, listed, url, server, late, gone, does>>

ReplaceFails(c) ==
    /\ calls[c].kind = "replace"
    /\ calls' = Put(c, Idle)
    /\ UNCHANGED <<ui, flow, opening, listing, listed, url, server, notes, does>>

-----------------------------------------------------------------------------
(* The canvas and the server *)

Draw ==
    /\ Screen(app) \in Canvases /\ ~unsaved /\ unsaved' = TRUE
    /\ UNCHANGED <<app, base, drawnOn, deletion, mine, flow, opening, calls, listing, listed,
                   url, server, notes, does>>

\* A save passes if the board is still at the version it stands on.
Save ==
    /\ "save" \in does
    /\ \E b \in Boards :
         /\ OnCanvas(b) /\ b \in Exists /\ base = saved[b] /\ saved[b] < MaxVersion
         /\ saved' = [saved EXCEPT ![b] = @ + 1]
         /\ base' = saved[b] + 1 /\ drawnOn' = saved[b] + 1
    /\ unsaved' = FALSE
    /\ UNCHANGED <<app, deletion, mine, flow, opening, calls, listing, listed, url,
                   made, removed, targeted, fixed, notes, does>>

OthersSave(b) ==
    /\ "others" \in does /\ b \in Exists /\ saved[b] < MaxVersion
    /\ saved' = [saved EXCEPT ![b] = @ + 1]
    /\ UNCHANGED <<ui, flow, opening, calls, listing, listed, url, made, removed, targeted, fixed,
                   notes, does>>

\* Someone creates the first draft issues from the board, or takes the role away.
Lock(b) ==
    /\ "lock" \in does /\ b \in Exists \ fixed /\ targeted[b]
    /\ fixed' = fixed \cup {b}
    /\ UNCHANGED <<ui, flow, opening, calls, listing, listed, url, made, removed, saved,
                   targeted, notes, does>>

Served(c, b) ==
    calls' = [calls EXCEPT ![c].state = "served", ![c].board = b,
                           ![c].version = saved[b], ![c].targeted = targeted'[b],
                           ![c].fixed = b \in fixed]

\* The server does what it was asked.  It may refuse, and its answer may get lost: to the
\* page, which is told of a failure, these are the same.
ServeCall(c) ==
    /\ calls[c] # Idle /\ calls[c].state = "sent"
    /\ LET kind == calls[c].kind
           b == calls[c].board
       IN  \/ /\ kind = "create"
              /\ \E new \in Boards \ made :
                   /\ made' = made \cup {new}
                   /\ targeted' = [targeted EXCEPT ![new] = app.choosesTarget]
                   /\ Served(c, new)
              /\ UNCHANGED <<removed, saved, fixed>>
           \/ /\ kind = "setTarget" /\ b \in Exists \ fixed
              /\ targeted' = [targeted EXCEPT ![b] = TRUE]
              /\ Served(c, b)
              /\ UNCHANGED <<made, removed, saved, fixed>>
           \/ /\ kind = "delete" /\ b \in Exists
              /\ removed' = removed \cup {b}
              /\ UNCHANGED targeted
              /\ Served(c, b)
              /\ UNCHANGED <<made, saved, fixed>>
           \/ /\ kind \in {"deletion", "replace"} /\ b \in Exists
              /\ UNCHANGED server
              /\ Served(c, b)
           \/ /\ kind = "logout" /\ UNCHANGED server
              /\ calls' = [calls EXCEPT ![c].state = "served"]
    /\ UNCHANGED <<ui, flow, opening, listing, listed, url, notes, does>>

\* Signing in loads the page anew.
AtLogin == app.session = "out" /\ UNCHANGED vars

Next ==
    \/ SessionArrives \/ Begin \/ CapabilitiesArrive \/ ServeList \/ ListArrives
    \/ ListFails
    \/ ServeLoad \/ LoadFails \/ OpenArrives \/ ReopenArrives \/ CloseBoard
    \/ \E b \in Boards : Open(b) \/ OthersSave(b) \/ Lock(b)
    \/ \E p \in DOMAIN entries : Popstate(p)
    \/ OpenDialog \/ SetName \/ CancelDialog \/ StartCreating \/ BackToDialog
    \/ StartPicking \/ CancelPicking \/ CancelDeletion
    \/ Draw \/ Save \/ AtLogin
    \/ \E c \in Calls :
         \/ SessionIsReread(c) \/ Logout(c) \/ LogoutArrives(c)
         \/ CreateWithTarget(c) \/ CreateWithoutTarget(c) \/ CreateArrives(c) \/ CreateFails(c)
         \/ ChangeTarget(c) \/ SetTargetArrives(c) \/ SetTargetEnds(c)
         \/ AskDeletion(c) \/ DeletionArrives(c) \/ ConfirmDeletion(c)
         \/ DeleteArrives(c) \/ DeleteFails(c) \/ Replace(c) \/ ReplaceArrives(c)
         \/ ReplaceFails(c)
         \/ ServeCall(c)

Spec == Init /\ [][Next]_vars

-----------------------------------------------------------------------------
(* Properties *)

\* Edits are never dropped without a question, whichever way the canvas is left and
\* whatever arrives meanwhile, but for four answers that ask nothing: a deletion and a
\* target (handleDeleted, changeTarget) that find another screen than they were sent from, a
\* logout that finds a canvas one has gone back to, and a session that is found to have
\* expired when the list is read (useBoardNavigation: confirmDiscard, openings).
NothingLost == lost => late \cap {"delete", "target", "logout", "session"} # {}

\* The next save stands on what the user sees: on the version the canvas was built from or
\* last saved as, never on one of somebody else that was only read (replaceBoard).
SavesWhatIsSeen ==
    (Screen(app) \in Canvases /\ late \cap {"target", "again"} = {}) => base = drawnOn

\* The note of where the user is names the board on the screen, and the URL is that note
\* whenever no board is being read, made or given a target: what the user goes to, what is
\* refused and what fails, each puts the URL back (showLocation, loadBoard).  Only a failure
\* of a creation or of a target does not, if it has overtaken the reading of a board that
\* the page was loaded with or the history of the browser had gone to.
LocationTellsTheScreen ==
    (app.session = "in" /\ app.begun) =>
        /\ "target" \notin late =>
             /\ shown.board = IF app.creating THEN NoBoard ELSE app.current
             /\ shown.picking => app.picking
        /\ "url" \notin late => UrlFits \/ Underway

\* A board the user was told is deleted is never listed or opened again, by no answer
\* that was on its way (handleDeleted).
DeletedStaysAway == app.current \notin gone /\ listed.boards \cap gone = {}

\* As the notes on the navigation have it: edits go only after a question.
NothingEverLost == ~lost
=============================================================================
