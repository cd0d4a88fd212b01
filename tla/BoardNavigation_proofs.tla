----------------------- MODULE BoardNavigation_proofs -----------------------
(***************************************************************************)
(* What the navigation keeps, for every set of boards and call slots, every *)
(* length of the browser's history and whatever users do together: edits   *)
(* are lost without a question by four answers only, a save stands on what *)
(* is seen, the URL names the board on the screen unless something is      *)
(* waited for, and deleted boards stay away.                               *)
(*                                                                         *)
(* Most of it rests on one thing: an answer counts only if nothing was     *)
(* asked for since.  The invariant therefore says of every call and of the *)
(* load that is on its way what must still be true when they are answered. *)
(***************************************************************************)
EXTENDS BoardNavigation, SequenceTheorems, TLAPS

Loading == opening # NoLoad

(* What a call is about exists, as far as the server has said so. *)
CallsFit ==
    \A c \in Calls :
        /\ calls[c].kind \in {"setTarget", "reopen", "deletion", "replace"} => calls[c].board \in Boards
        /\ calls[c].kind = "create" /\ calls[c].state = "served" => calls[c].board \in made
        /\ calls[c].kind = "delete" /\ calls[c].state = "served" => calls[c].board \in removed

(* The load that ends the choice of a target belongs to a call. *)
LoadOfCall ==
    Loading /\ (opening.by # NoBoard \/ opening.kind = "reopen") =>
        /\ opening.kind = "reopen" /\ opening.by \in Calls
        /\ calls[opening.by].kind = "reopen" /\ ~calls[opening.by].overtaken
        /\ calls[opening.by].board = opening.board

(* Whatever could open a board was asked for before the load, and counts   *)
(* no longer.                                                              *)
LoadIsLatest ==
    Loading => \A c \in Calls :
        calls[c].kind \in {"create", "reopen"} /\ c # opening.by => calls[c].overtaken

CallInv == CallsFit /\ LoadOfCall /\ LoadIsLatest

(* Whoever gives up the choice of a target sees it until the board is read. *)
CancelStaysHere ==
    Loading /\ opening.kind = "cancel" =>
        app.picking /\ ~app.creating /\ app.current = opening.board

(* Before the effects of the first rendering have run nothing was done yet. *)
BeginsFirst ==
    /\ app.session = "asking" => ~app.begun
    /\ ~app.begun =>
        /\ app.current = NoBoard /\ ~app.creating /\ mine = {} /\ deletion = "none"
        /\ ~Loading /\ listing.state = "none"
        /\ \A c \in Calls : calls[c] = Idle

EditsOnCanvas == unsaved => Screen(app) \in Canvases

(* The picker that sets a target is on the screen, or gone for good. *)
TargetingOnScreen ==
    \A c \in mine : calls[c].kind \in {"setTarget", "reopen"} => OnPicker(calls[c].board)

(* A board that is being made is opened only where no board is open. *)
CreationsWait ==
    "target" \notin late =>
        \A c \in Calls : calls[c].kind = "create" /\ ~calls[c].overtaken => app.current = NoBoard

(* A target once told of is there: boards get one and keep it. *)
TargetsTold ==
    /\ \A b \in Boards : targeted[b] => b \in made
    /\ app.targeted => app.current \in Boards /\ targeted[app.current]
    /\ Loading /\ opening.targeted => targeted[opening.board]
    /\ \A c \in Calls : calls[c].kind # "idle" /\ calls[c].targeted =>
            calls[c].board \in Boards /\ targeted[calls[c].board]

(* What is replaced is on a canvas, where no target needs to be chosen. *)
ReplacedHasTarget ==
    \A c \in Calls : calls[c].kind = "replace" /\ app.choosesTarget =>
        /\ targeted[calls[c].board]
        /\ calls[c].state = "served" => calls[c].targeted

TargetInv == TargetsTold /\ ReplacedHasTarget

(* The place the navigation has noted is the one on the screen, and the URL *)
(* leaves a board only together with it.                                   *)
PlaceIsNoted ==
    "target" \notin late =>
        /\ app.creating => app.current = NoBoard
        /\ shown.board = IF app.creating THEN NoBoard ELSE app.current
        /\ shown.picking => app.picking

(* So does the place a load would go back to. *)
HereIsNoted ==
    Loading /\ "target" \notin late =>
        opening.here.board = shown.board /\ (opening.here.picking => app.picking)

PlaceInv ==
    /\ PlaceIsNoted /\ HereIsNoted
    /\ entries[position].board = NoBoard => shown.board = NoBoard

(* A board is opened from the list or with the page: there are no edits to   *)
(* ask about, unless one came by the history of the browser.                *)
OpensWhereNoneIs == Loading /\ opening.kind = "open" => app.current = NoBoard

(* The URL is the note of the place, unless what comes next is under way. *)
UrlInv == app.begun /\ "url" \notin late => UrlFits \/ Underway

(* No answer on its way speaks of a board the user was told is deleted. *)
DeletedInNoAnswer ==
    /\ gone \subseteq removed
    /\ listing.boards \cap gone = {}
    /\ Loading /\ opening.state = "served" => opening.board \notin gone
    /\ \A c \in Calls : calls[c].kind = "create" /\ calls[c].state = "served" /\ ~calls[c].overtaken =>
            calls[c].board \notin gone

GoneInv == DeletedInNoAnswer /\ DeletedStaysAway

NavInv ==
    /\ TypeOK /\ CallInv /\ BeginsFirst /\ CancelStaysHere /\ EditsOnCanvas /\ TargetingOnScreen
    /\ CreationsWait /\ TargetInv /\ PlaceInv /\ OpensWhereNoneIs /\ UrlInv /\ GoneInv
    /\ NothingLost /\ SavesWhatIsSeen

-----------------------------------------------------------------------------
(* Screens *)

(* What is open when a screen is shown. *)
LEMMA ScreenFacts ==
    ASSUME NEW a \in App
    PROVE  /\ Screen(a) \in Canvases =>
                /\ Screen(a) = <<"canvas", a.current>>
                /\ a.current \in Boards /\ ~a.creating /\ ~a.picking
                /\ a.targeted \/ ~a.choosesTarget
           /\ \A b \in Boards : Screen(a) = <<"canvas", b>> =>
                Screen(a) \in Canvases /\ a.current = b
           /\ \A b \in Boards : Screen(a) = <<"picker", b>> =>
                Screen(a) \notin Canvases /\ a.current = b /\ ~a.creating
           /\ Screen(a) = <<"picker", NoBoard>> => Screen(a) \notin Canvases /\ a.creating
           /\ Screen(a) = <<"list">> => Screen(a) \notin Canvases /\ a.current = NoBoard /\ ~a.creating
           /\ a.session = "in" /\ ~a.creating /\ a.current \in Boards /\ ~a.picking
                /\ (a.targeted \/ ~a.choosesTarget) => Screen(a) = <<"canvas", a.current>>
           /\ a.current = NoBoard => Screen(a) \notin Canvases
           /\ a.session = "asking" => Screen(a) = <<"blank">> /\ Screen(a) \notin Canvases
  BY NavigationAssumption DEF Screen, Canvases, App

(* Rendering keeps the types. *)
LEMMA ShowTypes ==
    ASSUME TypeOK, NEW a \in App, NEW asked \in BOOLEAN, NEW m \in SUBSET Calls, Show(a, asked, m)
    PROVE  /\ app' \in App /\ unsaved' \in BOOLEAN
           /\ base' \in 0 .. MaxVersion /\ drawnOn' \in 0 .. MaxVersion
           /\ deletion' \in {"none", "loading", "confirming", "deleting"}
           /\ mine' \subseteq Calls /\ lost' \in BOOLEAN
<1>1. a.version \in 0 .. MaxVersion
  BY DEF App
<1> QED
  BY <1>1 DEF Show, TypeOK

(* The history of the browser after a place was noted at p, or behind it. *)
HistoryAt(p, l) ==
    /\ entries' \in Seq(Location) /\ Len(entries') \in 1 .. MaxHistory
    /\ position' \in DOMAIN entries' /\ position' = p /\ entries'[p] = l

(* A place pushed behind p cuts off what was ahead and is the one the browser is at. *)
LEMMA HistoryGrows ==
    ASSUME TypeOK, NEW p \in DOMAIN entries, NEW l \in Location, p < MaxHistory,
           entries' = Append(SubSeq(entries, 1, p), l), position' = p + 1
    PROVE  HistoryAt(p + 1, l)
<1>0. /\ entries \in Seq(Location) /\ Len(entries) \in 1 .. MaxHistory /\ Len(entries) \in Nat
      /\ p \in 1 .. Len(entries) /\ MaxHistory \in Nat
  BY NavigationAssumption DEF TypeOK
<1> DEFINE kept == SubSeq(entries, 1, p)
<1>1. kept \in Seq(Location) /\ Len(kept) = p
  BY <1>0, SubSeqProperties
<1> DEFINE more == Append(kept, l)
<1>2. /\ more \in Seq(Location) /\ Len(more) = p + 1 /\ more[p + 1] = l
      /\ DOMAIN more = 1 .. p + 1
  <2> HIDE DEF kept
  <2> QED
    BY <1>0, <1>1, AppendProperties, LenProperties
<1>3. entries' = more
  OBVIOUS
<1> HIDE DEF kept, more
<1> QED
  BY <1>0, <1>2, <1>3 DEF HistoryAt

(* A place written over p is the one the browser is at. *)
LEMMA HistoryReplaced ==
    ASSUME TypeOK, NEW p \in DOMAIN entries, NEW l \in Location,
           entries' = [entries EXCEPT ![p] = l], position' = p
    PROVE  HistoryAt(p, l)
<1>0. /\ entries \in Seq(Location) /\ Len(entries) \in 1 .. MaxHistory
      /\ p \in 1 .. Len(entries) /\ DOMAIN entries = 1 .. Len(entries)
  BY DEF TypeOK
<1>1. /\ entries' \in Seq(Location) /\ Len(entries') = Len(entries) /\ entries'[p] = l
      /\ DOMAIN entries' = DOMAIN entries
  BY <1>0, ExceptSeq
<1> QED
  BY <1>0, <1>1 DEF HistoryAt

(* Wherever a place is noted, the URL names it. *)
LEMMA LocationNoted ==
    ASSUME TypeOK, NEW l \in Location, PushLocation(l) \/ ReplaceLocation(l)
    PROVE  HistoryAt(position', l) /\ shown' = l
<1>0. position \in DOMAIN entries /\ position \in Nat
  BY DEF TypeOK
<1> QED
  BY <1>0, HistoryGrows, HistoryReplaced DEF PushLocation, ReplaceLocation

(* Overtaking changes nothing but the mark. *)
LEMMA OvertakenFacts ==
    ASSUME NEW cs \in [Calls -> Call \cup {Idle}]
    PROVE  /\ Overtaken(cs) \in [Calls -> Call \cup {Idle}]
           /\ \A c \in Calls :
                /\ Overtaken(cs)[c].kind = cs[c].kind
                /\ cs[c].kind # "idle" =>
                    /\ Overtaken(cs)[c].board = cs[c].board
                    /\ Overtaken(cs)[c].state = cs[c].state
                    /\ Overtaken(cs)[c].targeted = cs[c].targeted
                /\ cs[c].kind \in {"create", "reopen"} => Overtaken(cs)[c].overtaken
                /\ cs[c].kind \notin {"create", "reopen"} => Overtaken(cs)[c] = cs[c]
<1>1. ASSUME NEW c \in Calls, cs[c].kind \in {"create", "reopen"}
      PROVE  /\ cs[c] \in Call /\ Overtaken(cs)[c] = [cs[c] EXCEPT !.overtaken = TRUE]
             /\ Overtaken(cs)[c] \in Call
  <2>1. cs[c] \in Call
    BY <1>1 DEF Idle
  <2>2. Overtaken(cs)[c] = [cs[c] EXCEPT !.overtaken = TRUE]
    BY <1>1 DEF Overtaken
  <2> QED
    BY <2>1, <2>2 DEF Call
<1>2. ASSUME NEW c \in Calls, cs[c].kind \notin {"create", "reopen"} PROVE Overtaken(cs)[c] = cs[c]
  BY <1>2 DEF Overtaken
<1>3. Overtaken(cs) = [c \in Calls |-> Overtaken(cs)[c]]
  BY DEF Overtaken
<1>4. Overtaken(cs) \in [Calls -> Call \cup {Idle}]
  BY <1>1, <1>2, <1>3
<1> QED
  BY <1>1, <1>2, <1>4 DEF Call

(* A call that is sent is a call. *)
LEMMA NewCallTypes ==
    ASSUME NEW b \in Boards \cup {NoBoard},
           NEW kind \in {"create", "setTarget", "reopen", "deletion", "delete", "replace", "logout", "session"}
    PROVE  NewCall(kind, b) \in Call
  BY NavigationAssumption DEF NewCall, Call

(* A slot may be emptied or filled. *)
LEMMA PutTypes ==
    ASSUME TypeOK, NEW c \in Calls, NEW r \in Call \cup {Idle}
    PROVE  Put(c, r) \in [Calls -> Call \cup {Idle}]
  BY DEF Put, TypeOK

(* A load that begins is a load, and leaves calls what they are. *)
LEMMA LoadTypes ==
    ASSUME TypeOK, NEW b \in Boards, NEW kind \in {"open", "history", "cancel", "reopen"},
           NEW push \in BOOLEAN, NEW picking \in BOOLEAN, NEW by \in Calls \cup {NoBoard},
           NEW cs \in [Calls -> Call \cup {Idle}], LoadBoard(kind, b, push, picking, by, cs)
    PROVE  opening' \in Load /\ calls' \in [Calls -> Call \cup {Idle}]
<1>1. Overtaken(cs) \in [Calls -> Call \cup {Idle}]
  BY OvertakenFacts
<1> QED
  BY <1>1, NavigationAssumption DEF LoadBoard, Load, TypeOK

(* Closing or opening a board leaves App in one of its states. *)
LEMMA AppTypes ==
    ASSUME TypeOK
    PROVE  /\ Closed(app) \in App
           /\ \A r \in Load \cup Call, b \in Boards, p \in BOOLEAN : Opened(b, r, p) \in App
<1>0. app \in App /\ 0 \in 0 .. MaxVersion
  BY NavigationAssumption DEF TypeOK
<1>1. Closed(app) \in App
  BY <1>0 DEF Closed, App
<1>2. ASSUME NEW r \in Load \cup Call, NEW b \in Boards, NEW p \in BOOLEAN
      PROVE  Opened(b, r, p) \in App
  <2>1. r.version \in 0 .. MaxVersion /\ r.targeted \in BOOLEAN /\ r.fixed \in BOOLEAN
    BY DEF Load, Call
  <2> QED
    BY <1>0, <2>1 DEF Opened, App
<1> QED
  BY <1>1, <1>2
-----------------------------------------------------------------------------
(* The types *)

(* Every handler keeps the types; what a call is about must be known for it. *)
LEMMA TypesKept ==
    ASSUME TypeOK, CallsFit, [Next]_vars
    PROVE  TypeOK'
<1>0. /\ MaxVersion \in Nat /\ app \in App /\ made \subseteq Boards /\ removed \subseteq made
      /\ calls \in [Calls -> Call \cup {Idle}] /\ opening \in Load \cup {NoLoad}
      /\ position \in DOMAIN entries /\ entries \in Seq(Location) /\ shown \in Location
      /\ mine \subseteq Calls /\ NoLocation \in Location
      /\ \A p \in DOMAIN entries : entries[p] \in Location
  BY NavigationAssumption, LenProperties DEF TypeOK, Location, NoLocation
<1>b. \A l \in Location : l.board \in Boards \cup {NoBoard} /\ l.picking \in BOOLEAN
  <2>1. ASSUME NEW l \in [board : Boards, picking : BOOLEAN]
        PROVE  l.board \in Boards \cup {NoBoard} /\ l.picking \in BOOLEAN
    OBVIOUS
  <2>2. ASSUME NEW l, l = [board |-> NoBoard, picking |-> FALSE]
        PROVE  l.board \in Boards \cup {NoBoard} /\ l.picking \in BOOLEAN
    BY <2>2
  <2> QED
    BY <2>1, <2>2 DEF Location
<1>i. Idle \in Call \cup {Idle} /\ TRUE \in BOOLEAN /\ FALSE \in BOOLEAN /\ NoBoard \in Boards \cup {NoBoard}
  OBVIOUS
<1>c. \A c \in Calls : calls[c].kind # "idle" => calls[c] \in Call
  BY <1>0 DEF Idle
<1>l. Loading => opening \in Load
  BY <1>0 DEF Loading
<1>h. ASSUME NEW p, NEW l, HistoryAt(p, l), shown' \in Location
      PROVE  /\ entries' \in Seq(Location) /\ Len(entries') \in 1 .. MaxHistory
             /\ position' \in DOMAIN entries' /\ shown' \in Location
  BY <1>h DEF HistoryAt
<1> USE DEF ui, url, server, notes
<1>1. CASE \/ SessionArrives \/ ServeList \/ ListArrives \/ OpenDialog \/ SetName \/ CancelDialog
           \/ CancelDeletion \/ Draw \/ AtLogin \/ UNCHANGED vars
  <2> USE DEF TypeOK
  <2>1. CASE SessionArrives
    <3>1. app' \in App
      BY <1>0, <2>1, ZenonT(40) DEF SessionArrives, App
    <3> QED
      BY <2>1, <3>1 DEF SessionArrives
  <2>2. CASE ServeList \/ ListArrives
    <3>0. listing.boards \subseteq Boards /\ Exists \subseteq Boards
      BY <1>0 DEF Exists
    <3>1. listing' \in [state : {"none", "sent", "served"}, boards : SUBSET Boards]
      BY <2>2, <3>0 DEF ServeList, ListArrives, NoListing
    <3>2. listed' \in [read : BOOLEAN, boards : SUBSET Boards]
      <4>1. listed' = listed \/ listed' = [read |-> TRUE, boards |-> listing.boards]
        BY <2>2 DEF ServeList, ListArrives
      <4>2. [read |-> TRUE, boards |-> listing.boards] \in [read : BOOLEAN, boards : SUBSET Boards]
        BY <3>0
      <4>3. listed \in [read : BOOLEAN, boards : SUBSET Boards]
        OBVIOUS
      <4> QED
        BY <4>1, <4>2, <4>3
    <3> QED
      BY <2>2, <3>1, <3>2 DEF ServeList, ListArrives
  <2>3. CASE OpenDialog \/ SetName \/ CancelDialog
    BY <2>3 DEF OpenDialog, SetName, CancelDialog
  <2>4. CASE CancelDeletion \/ Draw \/ AtLogin \/ UNCHANGED vars
    BY <2>4 DEF CancelDeletion, Draw, AtLogin, vars
  <2> QED
    BY <1>1, <2>1, <2>2, <2>3, <2>4
<1>2. CASE Save \/ \E b \in Boards : OthersSave(b) \/ Lock(b)
  <2> USE DEF TypeOK
  <2>1. CASE Save
    <3>1. PICK b \in Boards :
            /\ saved[b] < MaxVersion /\ saved' = [saved EXCEPT ![b] = @ + 1]
            /\ base' = saved[b] + 1 /\ drawnOn' = saved[b] + 1
      BY <2>1 DEF Save
    <3>2. saved[b] + 1 \in 0 .. MaxVersion
      BY <1>0, <3>1
    <3>3. saved' \in [Boards -> 0 .. MaxVersion] /\ base' \in 0 .. MaxVersion /\ drawnOn' \in 0 .. MaxVersion
      BY <3>1, <3>2
    <3> QED
      BY <2>1, <3>3 DEF Save
  <2>2. ASSUME NEW b \in Boards, OthersSave(b) PROVE TypeOK'
    <3>1. saved[b] + 1 \in 0 .. MaxVersion
      BY <1>0, <2>2 DEF OthersSave
    <3> QED
      BY <2>2, <3>1 DEF OthersSave
  <2>3. ASSUME NEW b \in Boards, Lock(b) PROVE TypeOK'
    BY <1>0, <2>3 DEF Lock
  <2> QED
    BY <1>2, <2>1, <2>2, <2>3
<1>3. CASE CapabilitiesArrive \/ BackToDialog
  <2> DEFINE next == [app EXCEPT !.choosesTarget = FALSE]
             back == [app EXCEPT !.creating = FALSE]
  <2>1. next \in App /\ back \in App
    BY <1>0 DEF App
  <2>2. Show(next, FALSE, mine) \/ Show(back, FALSE, mine)
    BY <1>3 DEF CapabilitiesArrive, BackToDialog
  <2> HIDE DEF next, back
  <2>3. /\ app' \in App /\ unsaved' \in BOOLEAN
        /\ base' \in 0 .. MaxVersion /\ drawnOn' \in 0 .. MaxVersion
        /\ deletion' \in {"none", "loading", "confirming", "deleting"}
        /\ mine' \subseteq Calls /\ lost' \in BOOLEAN
    BY <1>0, <1>i, <2>1, <2>2, ShowTypes
  <2>4. UNCHANGED <<opening, calls, listing, listed, url, server, late, gone, does>>
    BY <1>3 DEF CapabilitiesArrive, BackToDialog
  <2>5. flow' \in [dialog : BOOLEAN, named : BOOLEAN, submitting : BOOLEAN]
    BY <1>3 DEF CapabilitiesArrive, BackToDialog, TypeOK
  <2> QED
    BY <2>3, <2>4, <2>5 DEF TypeOK
<1>4. CASE Begin
  <2>1. app' \in App /\ listing' \in [state : {"none", "sent", "served"}, boards : SUBSET Boards]
    BY <1>0, <1>4 DEF Begin, App, Reload
  <2>2. /\ opening' \in Load \cup {NoLoad} /\ calls' \in [Calls -> Call \cup {Idle}]
        /\ entries' \in Seq(Location) /\ Len(entries') \in 1 .. MaxHistory
        /\ position' \in DOMAIN entries' /\ shown' \in Location
    <3>1. CASE entries[position].board = NoBoard
      <4>1. ReplaceLocation(NoLocation) /\ UNCHANGED <<opening, calls>>
        BY <1>4, <3>1 DEF Begin
      <4> QED
        BY <1>0, <1>h, <4>1, LocationNoted
    <3>2. CASE entries[position].board # NoBoard
      <4> DEFINE l == entries[position]
      <4>1. LoadBoard("open", l.board, FALSE, l.picking, NoBoard, calls) /\ UNCHANGED url
        BY <1>4, <3>2 DEF Begin
      <4>2. l.board \in Boards /\ l.picking \in BOOLEAN
        BY <1>0, <1>b, <3>2
      <4> HIDE DEF l
      <4>3. opening' \in Load /\ calls' \in [Calls -> Call \cup {Idle}]
        BY <1>0, <1>i, <4>1, <4>2, LoadTypes
      <4> QED
        BY <4>1, <4>3 DEF TypeOK
    <3> QED
      BY <3>1, <3>2
  <2> QED
    BY <1>4, <2>1, <2>2 DEF Begin, TypeOK
<1>q. ASSUME UNCHANGED <<flow, listing, listed, server, notes, does>>,
             app' \in App, unsaved' \in BOOLEAN, base' \in 0 .. MaxVersion, drawnOn' \in 0 .. MaxVersion,
             deletion' \in {"none", "loading", "confirming", "deleting"}, mine' \subseteq Calls,
             opening' \in Load \cup {NoLoad}, calls' \in [Calls -> Call \cup {Idle}],
             UNCHANGED url
      PROVE  TypeOK'
  BY <1>q DEF TypeOK
<1>p. \A c \in Calls, r \in Call \cup {Idle} : Put(c, r) \in [Calls -> Call \cup {Idle}]
  BY PutTypes
<1>o. \A cs \in [Calls -> Call \cup {Idle}] : Overtaken(cs) \in [Calls -> Call \cup {Idle}]
  BY OvertakenFacts
<1>u. /\ app \in App /\ unsaved \in BOOLEAN /\ base \in 0 .. MaxVersion /\ drawnOn \in 0 .. MaxVersion
      /\ deletion \in {"none", "loading", "confirming", "deleting"}
  BY DEF TypeOK
<1>5. CASE (\E b \in Boards : Open(b)) \/ CancelPicking
  <2>1. /\ UNCHANGED <<ui, flow, listing, listed, url, server, notes, does>>
        /\ \E b \in Boards : \/ LoadBoard("open", b, TRUE, FALSE, NoBoard, calls)
                            \/ LoadBoard("cancel", b, FALSE, FALSE, NoBoard, calls)
    BY <1>5 DEF Open, CancelPicking
  <2>2. opening' \in Load /\ calls' \in [Calls -> Call \cup {Idle}]
    <3>1. "open" \in {"open", "history", "cancel", "reopen"}
          /\ "cancel" \in {"open", "history", "cancel", "reopen"} /\ NoBoard \in Calls \cup {NoBoard}
      OBVIOUS
    <3> QED
      BY <1>0, <1>i, <2>1, <3>1, LoadTypes
  <2> QED
    BY <1>0, <1>q, <1>u, <2>1, <2>2
<1>6. CASE ServeLoad
  <2>1. opening' \in Load
    <3>1. /\ Loading /\ opening.board \in Boards
          /\ opening' = [opening EXCEPT !.state = "served", !.version = saved[opening.board],
                            !.targeted = targeted[opening.board], !.fixed = opening.board \in fixed]
      BY <1>0, <1>6, <1>l DEF ServeLoad, Loading, Exists
    <3>2. saved[opening.board] \in 0 .. MaxVersion /\ targeted[opening.board] \in BOOLEAN
          /\ (opening.board \in fixed) \in BOOLEAN
      BY <3>1 DEF TypeOK
    <3>3. \A v \in 0 .. MaxVersion, t \in BOOLEAN, f \in BOOLEAN :
            [opening EXCEPT !.state = "served", !.version = v, !.targeted = t, !.fixed = f] \in Load
      BY <1>l, <3>1 DEF Load
    <3> QED
      BY <3>1, <3>2, <3>3
  <2> QED
    BY <1>0, <1>6, <1>q, <1>u, <2>1 DEF ServeLoad
<1>7. ASSUME NEW c \in Calls,
             \/ CreateWithTarget(c) \/ CreateWithoutTarget(c) \/ ChangeTarget(c) \/ SetTargetArrives(c)
             \/ SetTargetEnds(c) \/ AskDeletion(c) \/ DeletionArrives(c) \/ ConfirmDeletion(c)
             \/ DeleteFails(c) \/ Replace(c) \/ ReplaceFails(c) \/ CreateFails(c)
      PROVE  TypeOK'
  <2>1. \A b \in Boards \cup {NoBoard},
           kind \in {"create", "setTarget", "reopen", "deletion", "delete", "replace", "logout",
                    "session"} : NewCall(kind, b) \in Call \cup {Idle}
    BY NewCallTypes
  <2>2. opening' \in Load \cup {NoLoad} /\ calls' \in [Calls -> Call \cup {Idle}]
    <3>1. CASE CreateWithTarget(c) \/ CreateWithoutTarget(c)
      BY <1>0, <1>i, <1>o, <2>1, <3>1 DEF CreateWithTarget, CreateWithoutTarget
    <3>2. CASE ChangeTarget(c)
      <4>1. PICK b \in Boards : InvalidateAll(Put(c, NewCall("setTarget", b)))
        BY <3>2 DEF ChangeTarget
      <4> QED
        BY <1>o, <1>p, <2>1, <4>1 DEF InvalidateAll
    <3>3. CASE SetTargetArrives(c)
      <4> DEFINE b == calls[c].board
      <4>1. b \in Boards /\ LoadBoard("reopen", b, FALSE, FALSE, c, Put(c, NewCall("reopen", b)))
        BY <3>3 DEF SetTargetArrives, CallsFit
      <4> HIDE DEF b
      <4>2. Put(c, NewCall("reopen", b)) \in [Calls -> Call \cup {Idle}]
        BY <1>p, <2>1, <4>1
      <4> QED
        BY <1>i, <4>1, <4>2, LoadTypes
    <3>4. CASE AskDeletion(c) \/ ConfirmDeletion(c) \/ Replace(c)
      <4>1. app.current \in Boards \cup {NoBoard}
        BY <1>0 DEF App
      <4> QED
        BY <1>0, <1>p, <2>1, <3>4, <4>1 DEF AskDeletion, ConfirmDeletion, Replace
    <3>5. CASE SetTargetEnds(c) \/ DeletionArrives(c) \/ DeleteFails(c) \/ ReplaceFails(c) \/ CreateFails(c)
      BY <1>0, <1>i, <1>p, <3>5 DEF SetTargetEnds, DeletionArrives, DeleteFails, ReplaceFails, CreateFails
    <3> QED
      BY <1>7, <3>1, <3>2, <3>3, <3>4, <3>5
  <2>3. /\ UNCHANGED <<app, unsaved, base, drawnOn, listing, listed, url, server, lost, gone, does>>
        /\ mine' \subseteq Calls
        /\ deletion' \in {"none", "loading", "confirming", "deleting"}
        /\ late' = late \/ late' = late \cup {"url"}
    BY <1>0, <1>7, <1>u DEF CreateWithTarget, CreateWithoutTarget, ChangeTarget, SetTargetArrives, SetTargetEnds,
       AskDeletion, DeletionArrives, ConfirmDeletion, DeleteFails, Replace, ReplaceFails, CreateFails, NoteUrl
  <2>4. flow' \in [dialog : BOOLEAN, named : BOOLEAN, submitting : BOOLEAN]
    <3>1. flow \in [dialog : BOOLEAN, named : BOOLEAN, submitting : BOOLEAN]
      BY DEF TypeOK
    <3>2. flow' = flow \/ \E s \in BOOLEAN : flow' = [flow EXCEPT !.submitting = s]
      BY <1>7 DEF CreateWithTarget, CreateWithoutTarget, ChangeTarget, SetTargetArrives, SetTargetEnds,
         AskDeletion, DeletionArrives, ConfirmDeletion, DeleteFails, Replace, ReplaceFails, CreateFails
    <3> QED
      BY <3>1, <3>2
  <2> QED
    BY <2>2, <2>3, <2>4 DEF TypeOK
<1> DEFINE UiTypes == /\ app \in App /\ unsaved \in BOOLEAN
                      /\ base \in 0 .. MaxVersion /\ drawnOn \in 0 .. MaxVersion
                      /\ deletion \in {"none", "loading", "confirming", "deleting"}
                      /\ mine \subseteq Calls /\ lost \in BOOLEAN
           CallTypes == opening \in Load \cup {NoLoad} /\ calls \in [Calls -> Call \cup {Idle}]
           UrlTypes == /\ entries \in Seq(Location) /\ Len(entries) \in 1 .. MaxHistory
                       /\ position \in DOMAIN entries /\ shown \in Location
           ListTypes == /\ listing \in [state : {"none", "sent", "served"}, boards : SUBSET Boards]
                        /\ listed \in [read : BOOLEAN, boards : SUBSET Boards]
                        /\ flow \in [dialog : BOOLEAN, named : BOOLEAN, submitting : BOOLEAN]
           NoteTypes == /\ late \subseteq {"delete", "target", "again", "logout", "session", "url"}
                        /\ gone \subseteq Boards
<1>t. UiTypes /\ CallTypes /\ UrlTypes /\ ListTypes /\ NoteTypes
  BY DEF TypeOK
<1>r. ASSUME UiTypes', CallTypes', UrlTypes', ListTypes', NoteTypes', UNCHANGED <<server, does>>
      PROVE  TypeOK'
  BY <1>r DEF TypeOK
<1>s. ASSUME NEW a \in App, NEW asked \in BOOLEAN, NEW m \in SUBSET Calls, Show(a, asked, m)
      PROVE  UiTypes'
  BY <1>s, ShowTypes
<1>n. ASSUME NEW l \in Location, PushLocation(l) \/ ReplaceLocation(l)
      PROVE  UrlTypes'
  <2>1. HistoryAt(position', l) /\ shown' = l
    BY <1>n, LocationNoted
  <2> QED
    BY <2>1 DEF HistoryAt
<1>v. ASSUME NEW cs \in [Calls -> Call \cup {Idle}], InvalidateAll(cs) PROVE CallTypes'
  BY <1>o, <1>v DEF InvalidateAll
<1>w. Reload => listing' \in [state : {"none", "sent", "served"}, boards : SUBSET Boards]
  BY DEF Reload
<1>x. \A b \in Boards, p \in BOOLEAN : [board |-> b, picking |-> p] \in Location
  BY DEF Location
<1>y. /\ Closed(app) \in App
      /\ \A a \in App, x, y \in BOOLEAN :
            /\ [a EXCEPT !.creating = x] \in App /\ [a EXCEPT !.picking = x] \in App
            /\ [a EXCEPT !.picking = x, !.creating = y] \in App
            /\ [a EXCEPT !.creating = x, !.picking = y] \in App
  <2>1. Closed(app) \in App
    BY AppTypes
  <2>2. ASSUME NEW a \in App, NEW x \in BOOLEAN, NEW y \in BOOLEAN
        PROVE  /\ [a EXCEPT !.creating = x] \in App /\ [a EXCEPT !.picking = x] \in App
               /\ [a EXCEPT !.picking = x, !.creating = y] \in App
               /\ [a EXCEPT !.creating = x, !.picking = y] \in App
    BY DEF App
  <2> QED
    BY <2>1, <2>2
<1>z. \A r \in Load \cup Call, b \in Boards, p \in BOOLEAN : Opened(b, r, p) \in App
  BY AppTypes
<1> HIDE DEF UiTypes, CallTypes, UrlTypes, ListTypes, NoteTypes
<1>k. UNCHANGED <<ui, lost>> => UiTypes'
  BY <1>t DEF UiTypes
<1>8. CASE LoadFails
  <2>1. ReplaceLocation(shown) /\ CallTypes' /\ UiTypes'
    BY <1>0, <1>i, <1>p, <1>t, <1>8, <1>l DEF LoadFails, EndOf, CallTypes, UiTypes, Load, Loading
  <2>2. UrlTypes'
    BY <1>0, <1>n, <2>1
  <2> QED
    BY <1>8, <1>r, <1>t, <2>1, <2>2 DEF LoadFails, ListTypes, NoteTypes
<1>9. CASE OpenArrives
  <2> DEFINE b == opening.board
             p == opening.picking /\ CanOpenTargetPicker(opening)
             a == [Opened(b, opening, p) EXCEPT !.creating = FALSE]
  <2>1. Loading /\ opening \in Load /\ b \in Boards /\ p \in BOOLEAN
        /\ opening.push \in BOOLEAN /\ opening.here \in Location
    BY <1>9, <1>l DEF OpenArrives, Loading, Load
  <2>2. PICK yes \in BOOLEAN :
          IF yes THEN Show(a, TRUE, mine) /\ ShowLocation([board |-> b, picking |-> p], opening.push)
                 ELSE /\ UNCHANGED <<ui, lost>>
                      /\ IF opening.kind = "history" THEN PushLocation(opening.here) ELSE UNCHANGED url
    BY <1>9 DEF OpenArrives, ConfirmDiscard
  <2>3. a \in App /\ [board |-> b, picking |-> p] \in Location
    BY <1>i, <1>x, <1>y, <1>z, <2>1
  <2> HIDE DEF a, b, p
  <2>4. UiTypes'
    BY <1>0, <1>i, <1>k, <1>s, <2>2, <2>3
  <2>5. UrlTypes'
    <3>1. CASE yes
      BY <1>n, <2>2, <2>3, <3>1 DEF ShowLocation
    <3>2. CASE ~yes
      <4>1. CASE PushLocation(opening.here)
        BY <1>n, <2>1, <4>1
      <4>2. CASE UNCHANGED url
        BY <1>t, <4>2 DEF UrlTypes
      <4> QED
        BY <2>2, <3>2, <4>1, <4>2
    <3> QED
      BY <3>1, <3>2
  <2>6. CallTypes' /\ ListTypes' /\ NoteTypes' /\ UNCHANGED <<server, does>>
    BY <1>9, <1>t DEF OpenArrives, CallTypes, ListTypes, NoteTypes
  <2> QED
    BY <1>r, <2>4, <2>5, <2>6
<1>10. CASE ReopenArrives
  <2>1. opening \in Load /\ opening.board \in Boards /\ opening.by \in Calls \cup {NoBoard}
    BY <1>10, <1>l DEF ReopenArrives, Loading, Load
  <2>2. Opened(opening.board, opening, FALSE) \in App
    BY <1>i, <1>z, <2>1
  <2>3. UiTypes'
    <3>1. mine \ {opening.by} \in SUBSET Calls /\ Show(Opened(opening.board, opening, FALSE), FALSE, mine \ {opening.by})
      BY <1>0, <1>10 DEF ReopenArrives
    <3> QED
      BY <1>s, <1>i, <2>2, <3>1
  <2>4. UrlTypes'
    BY <1>10, <1>n, <1>x, <2>1 DEF ReopenArrives
  <2>5. CallTypes' /\ ListTypes' /\ NoteTypes'
    BY <1>0, <1>i, <1>p, <1>10, <1>t, <2>1 DEF ReopenArrives, EndOf, CallTypes, ListTypes, NoteTypes
  <2> QED
    BY <1>10, <1>r, <2>3, <2>4, <2>5 DEF ReopenArrives
<1>11. CASE CloseBoard \/ StartCreating
  <2>1. \E a \in App : Show(a, TRUE, mine)
    BY <1>11, <1>y, <1>i DEF CloseBoard, StartCreating
  <2>2. UiTypes'
    BY <1>0, <1>i, <1>s, <2>1
  <2>3. UrlTypes'
    BY <1>0, <1>11, <1>n DEF CloseBoard, StartCreating
  <2>4. CallTypes'
    BY <1>0, <1>11, <1>v, <1>t DEF CloseBoard, StartCreating, CallTypes
  <2>5. ListTypes'
    BY <1>11, <1>t, <1>w DEF CloseBoard, StartCreating, ListTypes
  <2> QED
    BY <1>11, <1>r, <1>t, <2>2, <2>3, <2>4, <2>5 DEF CloseBoard, StartCreating, NoteTypes
<1>12. ASSUME NEW p \in DOMAIN entries, Popstate(p) PROVE TypeOK'
  <2> DEFINE next == entries[p]
             a == [Closed(app) EXCEPT !.picking = FALSE, !.creating = FALSE]
  <2>1. next \in Location /\ next.board \in Boards \cup {NoBoard} /\ next.picking \in BOOLEAN /\ a \in App
    BY <1>0, <1>b, <1>i, <1>y
  <2>2. UNCHANGED <<flow, listed, server, late, gone, does>>
    BY <1>12 DEF Popstate
  <2>3. CASE next = shown \/ next.board # NoBoard
    <3>1. UNCHANGED <<ui, lost, entries, shown, listing>> /\ position' = p
      BY <1>12, <2>3 DEF Popstate
    <3>2. UiTypes' /\ UrlTypes' /\ ListTypes' /\ NoteTypes'
      BY <1>k, <1>t, <2>2, <3>1 DEF UrlTypes, ListTypes, NoteTypes
    <3>3. InvalidateAll(calls) \/ (next.board \in Boards /\ LoadBoard("history", next.board, FALSE, next.picking, NoBoard, calls))
      BY <1>12, <2>1, <2>3 DEF Popstate
    <3>4. CallTypes'
      <4> HIDE DEF next
      <4>1. CASE InvalidateAll(calls)
        BY <1>0, <1>v, <4>1
      <4>2. CASE next.board \in Boards /\ LoadBoard("history", next.board, FALSE, next.picking, NoBoard, calls)
        <5>1. opening' \in Load /\ calls' \in [Calls -> Call \cup {Idle}]
          BY <1>0, <1>i, <2>1, <4>2, LoadTypes
        <5> QED
          BY <5>1 DEF CallTypes
      <4> QED
        BY <3>3, <4>1, <4>2
    <3> QED
      BY <1>r, <2>2, <3>2, <3>4
  <2>4. CASE next # shown /\ next.board = NoBoard
    <3>1. InvalidateAll(calls)
      BY <1>12, <2>4 DEF Popstate
    <3>2. CallTypes' /\ NoteTypes'
      BY <1>0, <1>t, <1>v, <2>2, <3>1 DEF NoteTypes
    <3>3. \/ /\ Show(a, TRUE, mine) /\ position' = p /\ shown' = NoLocation
             /\ entries' = [entries EXCEPT ![p] = NoLocation] /\ Reload
          \/ /\ p < MaxHistory /\ entries' = Append(SubSeq(entries, 1, p), shown)
             /\ position' = p + 1 /\ UNCHANGED <<ui, lost, shown, listing>>
      BY <1>12, <2>4 DEF Popstate
    <3> HIDE DEF a, next
    <3>4. CASE /\ Show(a, TRUE, mine) /\ position' = p /\ shown' = NoLocation
               /\ entries' = [entries EXCEPT ![p] = NoLocation] /\ Reload
      <4>1. UiTypes'
        BY <1>0, <1>i, <1>s, <2>1, <3>4
      <4>2. UrlTypes'
        <5>1. HistoryAt(p, NoLocation)
          BY <1>0, <3>4, HistoryReplaced
        <5> QED
          BY <1>0, <3>4, <5>1 DEF HistoryAt, UrlTypes
      <4>3. ListTypes'
        BY <1>t, <1>w, <2>2, <3>4 DEF ListTypes
      <4> QED
        BY <1>r, <2>2, <3>2, <4>1, <4>2, <4>3
    <3>5. CASE /\ p < MaxHistory /\ entries' = Append(SubSeq(entries, 1, p), shown)
               /\ position' = p + 1 /\ UNCHANGED <<ui, lost, shown, listing>>
      <4>1. UrlTypes'
        <5>1. HistoryAt(p + 1, shown)
          BY <1>0, <3>5, HistoryGrows
        <5> QED
          BY <1>0, <3>5, <5>1 DEF HistoryAt, UrlTypes
      <4>2. UiTypes' /\ ListTypes'
        BY <1>k, <1>t, <2>2, <3>5 DEF ListTypes
      <4> QED
        BY <1>r, <2>2, <3>2, <4>1, <4>2
    <3> QED
      BY <3>3, <3>4, <3>5
  <2> QED
    BY <2>1, <2>3, <2>4
<1>13. CASE StartPicking
  <2>1. PICK b \in Boards : /\ Show([app EXCEPT !.picking = TRUE], FALSE, mine)
                            /\ ReplaceLocation([board |-> b, picking |-> TRUE])
    BY <1>13 DEF StartPicking
  <2>2. UiTypes' /\ UrlTypes'
    BY <1>0, <1>i, <1>n, <1>s, <1>x, <1>y, <2>1
  <2>3. CallTypes' /\ ListTypes' /\ NoteTypes'
    BY <1>13, <1>t DEF StartPicking, CallTypes, ListTypes, NoteTypes
  <2> QED
    BY <1>13, <1>r, <2>2, <2>3 DEF StartPicking
<1>14. ASSUME NEW c \in Calls, Logout(c) PROVE TypeOK'
  <2>1. UiTypes' /\ UrlTypes'
    BY <1>0, <1>14, <1>i, <1>n, <1>s, <1>y DEF Logout
  <2>2. CallTypes'
    <3>1. NewCall("logout", NoBoard) \in Call
      BY NewCallTypes
    <3> QED
      BY <1>14, <1>p, <1>v, <3>1 DEF Logout
  <2>3. ListTypes' /\ NoteTypes'
    BY <1>14, <1>t DEF Logout, ListTypes, NoteTypes, NoListing, Unread
  <2> QED
    BY <1>14, <1>r, <2>1, <2>2, <2>3 DEF Logout
<1>15. ASSUME NEW c \in Calls, LogoutArrives(c) \/ SessionIsReread(c) PROVE TypeOK'
  <2>1. [app EXCEPT !.session = "out"] \in App /\ [app EXCEPT !.session = "in"] \in App
    BY <1>0 DEF App
  <2>2. UNCHANGED <<ui, lost, late>> \/ \E s \in {"in", "out"}, reason \in {"logout", "session"} : ReplaceSession(s, reason)
    BY <1>15 DEF LogoutArrives, SessionIsReread
  <2>3. UiTypes'
    BY <1>0, <1>i, <1>k, <1>s, <2>1, <2>2 DEF ReplaceSession
  <2>4. CallTypes'
    BY <1>15, <1>i, <1>p, <1>t DEF LogoutArrives, SessionIsReread, CallTypes
  <2>5. ListTypes' /\ UrlTypes'
    BY <1>15, <1>t, <1>w DEF LogoutArrives, SessionIsReread, ListTypes, UrlTypes
  <2>6. NoteTypes'
    <3>1. gone' = gone
      BY <1>15 DEF LogoutArrives, SessionIsReread
    <3> QED
      BY <1>t, <2>2, <3>1 DEF ReplaceSession, NoteTypes
  <2> QED
    BY <1>15, <1>r, <2>3, <2>4, <2>5, <2>6 DEF LogoutArrives, SessionIsReread
<1>16. ASSUME NEW c \in Calls, CreateArrives(c) PROVE TypeOK'
  <2> DEFINE b == calls[c].board
             a == [app EXCEPT !.creating = FALSE]
             o == [Opened(b, calls[c], app.picking) EXCEPT !.creating = FALSE]
  <2>1. b \in Boards /\ calls[c] \in Call /\ app.picking \in BOOLEAN
    BY <1>0, <1>16, <1>c DEF CreateArrives, CallsFit, App
  <2>2. a \in App /\ o \in App /\ [board |-> b, picking |-> FALSE] \in Location
    BY <1>0, <1>i, <1>x, <1>y, <1>z, <2>1
  <2>3. \/ Show(a, FALSE, mine \ {c}) /\ calls' = Put(c, Idle) /\ UNCHANGED <<opening, url>>
        \/ /\ Show(o, FALSE, mine \ {c}) /\ InvalidateAll(Put(c, Idle))
           /\ PushLocation([board |-> b, picking |-> FALSE])
    BY <1>16 DEF CreateArrives
  <2> HIDE DEF a, o, b
  <2>4. mine \ {c} \in SUBSET Calls /\ Put(c, Idle) \in [Calls -> Call \cup {Idle}]
    BY <1>0, <1>i, <1>p
  <2>5. UiTypes'
    BY <1>i, <1>s, <2>2, <2>3, <2>4
  <2>6. UrlTypes'
    BY <1>n, <1>t, <2>2, <2>3 DEF UrlTypes
  <2>7. CallTypes'
    BY <1>t, <1>v, <2>3, <2>4 DEF CallTypes
  <2>8. ListTypes' /\ NoteTypes'
    <3>1. flow' \in [dialog : BOOLEAN, named : BOOLEAN, submitting : BOOLEAN]
      BY <1>16, <1>t DEF CreateArrives, ListTypes
    <3> QED
      BY <1>16, <1>t, <1>w, <3>1 DEF CreateArrives, ListTypes, NoteTypes
  <2> QED
    BY <1>16, <1>r, <2>5, <2>6, <2>7, <2>8 DEF CreateArrives
<1>17. ASSUME NEW c \in Calls, DeleteArrives(c) PROVE TypeOK'
  <2>1. calls[c].board \in Boards
    BY <1>0, <1>17 DEF DeleteArrives, CallsFit
  <2>2. Show(Closed(app), c \in mine, mine \ {c}) /\ mine \ {c} \in SUBSET Calls
    BY <1>0, <1>17 DEF DeleteArrives
  <2>3. Put(c, Idle) \in [Calls -> Call \cup {Idle}]
    BY <1>i, <1>p
  <2>4. UiTypes'
    <3>1. Closed(app) \in App /\ Closed(app).version \in 0 .. MaxVersion
      BY <1>y DEF App
    <3> QED
      BY <1>t, <2>2, <3>1 DEF Show, UiTypes
  <2>5. UrlTypes' /\ CallTypes'
    BY <1>0, <1>17, <1>n, <1>v, <2>3 DEF DeleteArrives
  <2>6. ListTypes'
    <3>1. listed' = [listed EXCEPT !.boards = listed.boards \ {calls[c].board}]
      BY <1>17 DEF DeleteArrives
    <3>2. listed' \in [read : BOOLEAN, boards : SUBSET Boards]
      BY <1>t, <3>1 DEF ListTypes
    <3> QED
      BY <1>17, <1>t, <1>w, <3>2 DEF DeleteArrives, ListTypes
  <2>7. NoteTypes'
    BY <1>17, <1>t, <2>1 DEF DeleteArrives, NoteTypes
  <2> QED
    BY <1>17, <1>r, <2>4, <2>5, <2>6, <2>7 DEF DeleteArrives
<1>18. ASSUME NEW c \in Calls, ReplaceArrives(c) PROVE TypeOK'
  <2> DEFINE a == [app EXCEPT !.version = ReplacedVersion(calls[c].version),
                              !.targeted = calls[c].targeted, !.fixed = calls[c].fixed]
  <2>1. calls[c].targeted \in BOOLEAN /\ calls[c].fixed \in BOOLEAN /\ app.version \in 0 .. MaxVersion
    BY <1>0, <1>18, <1>c DEF ReplaceArrives, Call, App
  <2>2. a \in App
    BY <1>0, <2>1 DEF App, ReplacedVersion
  <2>3. Show(a, FALSE, mine) \/ UNCHANGED <<ui, lost>>
    BY <1>18 DEF ReplaceArrives
  <2> HIDE DEF a
  <2>4. UiTypes'
    BY <1>0, <1>i, <1>k, <1>s, <2>2, <2>3
  <2>5. CallTypes'
    BY <1>18, <1>i, <1>p, <1>t DEF ReplaceArrives, CallTypes
  <2>6. UrlTypes' /\ ListTypes' /\ NoteTypes'
    BY <1>18, <1>t, <1>w DEF ReplaceArrives, UrlTypes, ListTypes, NoteTypes
  <2> QED
    BY <1>18, <1>r, <2>4, <2>5, <2>6 DEF ReplaceArrives
<1>19. ASSUME NEW c \in Calls, ServeCall(c) PROVE TypeOK'
  <2>1. calls[c] \in Call /\ UNCHANGED <<ui, flow, opening, listing, listed, url, notes, does>>
    BY <1>0, <1>19 DEF ServeCall
  <2>2. /\ made' \subseteq Boards /\ removed' \subseteq made' /\ saved' = saved /\ fixed' = fixed
        /\ targeted' \in [Boards -> BOOLEAN]
        /\ (\E b \in Boards : Served(c, b)) \/ calls' = [calls EXCEPT ![c].state = "served"]
    <3>1. app.choosesTarget \in BOOLEAN /\ targeted \in [Boards -> BOOLEAN] /\ Exists \subseteq made
      BY <1>0 DEF App, TypeOK, Exists
    <3> QED
      BY <1>0, <1>19, <3>1 DEF ServeCall, Exists
  <2>3. calls' \in [Calls -> Call \cup {Idle}]
    <3>1. CASE \E b \in Boards : Served(c, b)
      <4>1. PICK b \in Boards : Served(c, b)
        BY <3>1
      <4> DEFINE r(v, t, f) == [calls[c] EXCEPT !.state = "served", !.board = b,
                                                !.version = v, !.targeted = t, !.fixed = f]
      <4>2. saved[b] \in 0 .. MaxVersion /\ targeted'[b] \in BOOLEAN /\ (b \in fixed) \in BOOLEAN
        BY <2>2 DEF TypeOK
      <4>3. \A v \in 0 .. MaxVersion, t \in BOOLEAN, f \in BOOLEAN : r(v, t, f) \in Call
        BY <2>1 DEF Call
      <4>4. calls' = [calls EXCEPT ![c] = r(saved[b], targeted'[b], b \in fixed)]
        BY <1>0, <4>1 DEF Served
      <4> HIDE DEF r
      <4>5. r(saved[b], targeted'[b], b \in fixed) \in Call
        BY <4>2, <4>3
      <4> QED
        BY <1>0, <4>4, <4>5
    <3>2. CASE calls' = [calls EXCEPT ![c].state = "served"]
      <4>1. [calls[c] EXCEPT !.state = "served"] \in Call
        BY <2>1 DEF Call
      <4> QED
        BY <1>0, <3>2, <4>1
    <3> QED
      BY <2>2, <3>1, <3>2
  <2> QED
    BY <2>1, <2>2, <2>3 DEF TypeOK
<1>20. CASE ListFails
  <2>1. NewCall("session", NoBoard) \in Call
    BY NewCallTypes
  <2>2. CallTypes'
    BY <1>20, <1>p, <1>t, <2>1 DEF ListFails, CallTypes
  <2>3. UiTypes' /\ UrlTypes' /\ ListTypes' /\ NoteTypes'
    BY <1>20, <1>k, <1>t DEF ListFails, UrlTypes, ListTypes, NoteTypes, NoListing
  <2> QED
    BY <1>20, <1>r, <2>2, <2>3 DEF ListFails
<1> QED
  BY <1>1, <1>2, <1>3, <1>4, <1>5, <1>6, <1>7, <1>8, <1>9, <1>10, <1>11, <1>12, <1>13, <1>14, <1>15,
     <1>16, <1>17, <1>18, <1>19, <1>20 DEF Next

-----------------------------------------------------------------------------
(* Calls and loads *)

AfterGeneration(d) == calls'[d] = Overtaken(calls)[d]

\* The calls that begin when the user does something.
CallKinds == {"create", "setTarget", "deletion", "delete", "replace", "logout", "session"}

Begins(c, kind, b) ==
    /\ calls[c] = Idle /\ calls'[c] = NewCall(kind, b)
    /\ kind \in {"setTarget", "deletion", "replace"} => b \in Boards
    /\ kind = "replace" => OnCanvas(b)
    /\ kind = "setTarget" => OnPicker(b)
    /\ kind = "create" => OnList \/ OnPicker(NoBoard)

(* What a step does to a call. *)
CallStep(c) ==
    \/ calls'[c] = calls[c]
    \/ AfterGeneration(c)
    \/ calls'[c] = Idle
    \/ \E kind \in CallKinds, b \in Boards \cup {NoBoard} : Begins(c, kind, b)
    \/ calls[c].kind = "setTarget" /\ calls'[c] = NewCall("reopen", calls[c].board)
    \/ ServeCall(c)

(* Generations and slots: whichever way the calls are written, a slot keeps *)
(* its call, is overtaken, or holds what was put there.                    *)
LEMMA SlotFacts ==
    ASSUME TypeOK, NEW c \in Calls, NEW d \in Calls, NEW r
    PROVE  /\ Put(c, r)[d] = IF d = c THEN r ELSE calls[d]
           /\ Overtaken(Put(c, r))[d] = IF d = c THEN Overtaken(Put(c, r))[c] ELSE Overtaken(calls)[d]
           /\ r.kind \notin {"create", "reopen"} => Overtaken(Put(c, r))[c] = r
<1>1. calls \in [Calls -> Call \cup {Idle}]
  BY DEF TypeOK
<1>2. Put(c, r)[d] = IF d = c THEN r ELSE calls[d]
  BY <1>1 DEF Put
<1>3. Put(c, r)[c] = r
  BY <1>1 DEF Put
<1>4. d # c => Overtaken(Put(c, r))[d] = Overtaken(calls)[d]
  BY <1>2 DEF Overtaken
<1>5. r.kind \notin {"create", "reopen"} => Overtaken(Put(c, r))[c] = r
  BY <1>3 DEF Overtaken
<1> QED
  BY <1>2, <1>4, <1>5

(* A step does to a call one of the six things above and nothing else. *)
LEMMA CallSteps ==
    ASSUME TypeOK, CallsFit, [Next]_vars
    PROVE  \A d \in Calls : CallStep(d)
<1>0. calls \in [Calls -> Call \cup {Idle}] /\ app \in App
  BY DEF TypeOK
<1>i. Idle.kind = "idle" /\ \A kind, b : NewCall(kind, b).kind = kind
  BY DEF Idle, NewCall
<1> SUFFICES ASSUME NEW d \in Calls PROVE CallStep(d)
  OBVIOUS
<1> USE DEF ui, url, server, notes
<1>1. CASE UNCHANGED calls
  BY <1>1 DEF CallStep
<1>2. CASE InvalidateAll(calls) \/ \E kind, b, push, picking : LoadBoard(kind, b, push, picking, NoBoard, calls)
  <2>1. calls'[d] = calls[d] \/ AfterGeneration(d)
    BY <1>2 DEF InvalidateAll, LoadBoard, AfterGeneration
  <2> QED
    BY <2>1 DEF CallStep
<1>3. ASSUME NEW c \in Calls, calls' = Put(c, Idle) \/ InvalidateAll(Put(c, Idle)) PROVE CallStep(d)
  <2>0. /\ Put(c, Idle)[d] = IF d = c THEN Idle ELSE calls[d]
        /\ Overtaken(Put(c, Idle))[d] = IF d = c THEN Idle ELSE Overtaken(calls)[d]
    BY <1>i, SlotFacts, ZenonT(40)
  <2>1. calls'[d] = Idle \/ calls'[d] = calls[d] \/ AfterGeneration(d)
    BY <1>3, <2>0 DEF InvalidateAll, AfterGeneration
  <2> QED
    BY <2>1 DEF CallStep
<1>4. ASSUME NEW c \in Calls, NEW kind \in CallKinds \ {"create"},
             NEW b \in Boards \cup {NoBoard}, calls[c] = Idle,
             kind \in {"setTarget", "deletion", "replace"} => b \in Boards,
             kind = "replace" => OnCanvas(b), kind = "setTarget" => OnPicker(b),
             calls' = Put(c, NewCall(kind, b)) \/ InvalidateAll(Put(c, NewCall(kind, b)))
      PROVE  CallStep(d)
  <2> DEFINE r == NewCall(kind, b)
  <2>0. /\ Put(c, r)[d] = IF d = c THEN r ELSE calls[d]
        /\ Overtaken(Put(c, r))[d] = IF d = c THEN r ELSE Overtaken(calls)[d]
    <3>1. r.kind \notin {"create", "reopen"}
      BY <1>4, <1>i DEF CallKinds
    <3> HIDE DEF r
    <3> QED
      BY <3>1, SlotFacts, ZenonT(40)
  <2>1. CASE d = c
    <3>1. calls'[d] = NewCall(kind, b)
      BY <1>4, <2>0, <2>1 DEF InvalidateAll
    <3> QED
      BY <1>4, <2>1, <3>1 DEF CallStep, Begins
  <2>2. CASE d # c
    <3>1. calls'[d] = calls[d] \/ AfterGeneration(d)
      BY <1>4, <2>0, <2>2 DEF InvalidateAll, AfterGeneration
    <3> QED
      BY <3>1 DEF CallStep
  <2> QED
    BY <2>1, <2>2
<1>5. CASE SessionArrives \/ CapabilitiesArrive \/ ServeList \/ ListArrives \/ ServeLoad
           \/ OpenArrives \/ OpenDialog \/ SetName \/ CancelDialog \/ StartCreating \/ BackToDialog
           \/ StartPicking \/ CancelDeletion \/ Draw \/ Save \/ AtLogin \/ UNCHANGED vars
           \/ \E b \in Boards : OthersSave(b) \/ Lock(b)
  BY <1>1, <1>5 DEF SessionArrives, CapabilitiesArrive, ServeList, ListArrives, ServeLoad,
     OpenArrives, OpenDialog, SetName, CancelDialog, StartCreating, BackToDialog, StartPicking,
     CancelDeletion, Draw, Save, AtLogin, OthersSave, Lock, vars
<1>6. CASE Begin \/ CloseBoard \/ CancelPicking \/ (\E b \in Boards : Open(b))
           \/ \E p \in DOMAIN entries : Popstate(p)
  BY <1>1, <1>2, <1>6 DEF Begin, CloseBoard, CancelPicking, Open, Popstate
<1>7. CASE LoadFails \/ ReopenArrives
  <2>1. calls' = EndOf(opening.by) /\ (opening.by = NoBoard \/ opening.by \in Calls)
    BY <1>7 DEF LoadFails, ReopenArrives, TypeOK, Load
  <2> QED
    BY <1>1, <1>3, <2>1 DEF EndOf
<1>8. ASSUME NEW c \in Calls,
             \/ SessionIsReread(c) \/ LogoutArrives(c) \/ CreateArrives(c) \/ CreateFails(c) \/ SetTargetEnds(c)
             \/ DeletionArrives(c) \/ DeleteArrives(c) \/ DeleteFails(c) \/ ReplaceArrives(c) \/ ReplaceFails(c)
      PROVE  CallStep(d)
  BY <1>3, <1>8 DEF SessionIsReread, LogoutArrives, CreateArrives, CreateFails, SetTargetEnds, DeletionArrives,
     DeleteArrives, DeleteFails, ReplaceArrives, ReplaceFails
<1>9. ASSUME NEW c \in Calls,
             Logout(c) \/ ChangeTarget(c) \/ AskDeletion(c) \/ ConfirmDeletion(c) \/ Replace(c)
      PROVE  CallStep(d)
  <2>1. /\ Logout(c) => calls[c] = Idle /\ InvalidateAll(Put(c, NewCall("logout", NoBoard)))
        /\ ChangeTarget(c) => calls[c] = Idle /\ \E b \in Boards : OnPicker(b) /\ InvalidateAll(Put(c, NewCall("setTarget", b)))
        /\ AskDeletion(c) => calls[c] = Idle /\ \E b \in Boards : calls' = Put(c, NewCall("deletion", b))
        /\ Replace(c) => calls[c] = Idle /\ \E b \in Boards : OnCanvas(b) /\ calls' = Put(c, NewCall("replace", b))
    BY DEF Logout, ChangeTarget, AskDeletion, Replace
  <2>2. ConfirmDeletion(c) => /\ calls[c] = Idle /\ calls' = Put(c, NewCall("delete", app.current))
                              /\ app.current \in Boards \cup {NoBoard}
    BY <1>0 DEF ConfirmDeletion, App
  <2>s. {"logout", "setTarget", "deletion", "replace", "delete", "session"} \subseteq CallKinds \ {"create"}
    BY DEF CallKinds
  <2>3. CASE Logout(c)
    <3>1. calls[c] = Idle /\ InvalidateAll(Put(c, NewCall("logout", NoBoard)))
      BY <2>1, <2>3
    <3> QED
      BY <1>4, <2>s, <3>1
  <2>4. CASE ChangeTarget(c)
    <3>1. PICK b \in Boards : calls[c] = Idle /\ OnPicker(b) /\ InvalidateAll(Put(c, NewCall("setTarget", b)))
      BY <2>1, <2>4
    <3> QED
      BY <1>4, <2>s, <3>1
  <2>5. CASE AskDeletion(c)
    <3>1. PICK b \in Boards : calls[c] = Idle /\ calls' = Put(c, NewCall("deletion", b))
      BY <2>1, <2>5
    <3> QED
      BY <1>4, <2>s, <3>1
  <2>6. CASE Replace(c)
    <3>1. PICK b \in Boards : calls[c] = Idle /\ OnCanvas(b) /\ calls' = Put(c, NewCall("replace", b))
      BY <2>1, <2>6
    <3> QED
      BY <1>4, <2>s, <3>1
  <2>7. CASE ConfirmDeletion(c)
    BY <1>4, <2>2, <2>7, <2>s
  <2> QED
    BY <1>9, <2>3, <2>4, <2>5, <2>6, <2>7
<1>10. ASSUME NEW c \in Calls, CreateWithTarget(c) \/ CreateWithoutTarget(c) PROVE CallStep(d)
  <2>1. /\ calls[c] = Idle /\ calls' = [Overtaken(calls) EXCEPT ![c] = NewCall("create", NoBoard)]
        /\ OnList \/ OnPicker(NoBoard)
    BY <1>10 DEF CreateWithTarget, CreateWithoutTarget
  <2>2. Overtaken(calls) \in [Calls -> Call \cup {Idle}]
    BY <1>0, OvertakenFacts
  <2>3. CASE d = c
    <3>1. Begins(d, "create", NoBoard) /\ "create" \in CallKinds
      BY <2>1, <2>2, <2>3 DEF Begins, CallKinds
    <3> QED
      BY <3>1 DEF CallStep
  <2>4. CASE d # c
    BY <2>1, <2>2, <2>4 DEF CallStep, AfterGeneration
  <2> QED
    BY <2>3, <2>4
<1>11. ASSUME NEW c \in Calls, SetTargetArrives(c) PROVE CallStep(d)
  <2> DEFINE cs == Put(c, NewCall("reopen", calls[c].board))
  <2>1. calls[c].kind = "setTarget" /\ calls' = [e \in Calls |-> IF e = c THEN cs[e] ELSE Overtaken(cs)[e]]
    BY <1>11 DEF SetTargetArrives, LoadBoard
  <2>2. CASE d = c
    <3>1. calls'[d] = NewCall("reopen", calls[d].board)
      BY <2>1, <2>2, SlotFacts
    <3> QED
      BY <2>1, <2>2, <3>1 DEF CallStep
  <2>3. CASE d # c
    <3>1. AfterGeneration(d)
      BY <2>1, <2>3, SlotFacts DEF AfterGeneration
    <3> QED
      BY <3>1 DEF CallStep
  <2> QED
    BY <2>2, <2>3
<1>12. ASSUME NEW c \in Calls, ServeCall(c) PROVE CallStep(d)
  <2>1. CASE d = c
    BY <1>12, <2>1 DEF CallStep
  <2>2. CASE d # c
    <3>1. calls'[d] = calls[d]
      BY <1>0, <1>12, <2>2 DEF ServeCall, Served
    <3> QED
      BY <3>1 DEF CallStep
  <2> QED
    BY <2>1, <2>2
<1>13. CASE ListFails
  <2>1. PICK c \in Calls : calls' = calls \/ (calls[c] = Idle /\ calls' = Put(c, NewCall("session", NoBoard)))
    BY <1>13 DEF ListFails
  <2>2. "session" \in CallKinds \ {"create"} /\ "session" \notin {"setTarget", "deletion", "replace"}
    BY DEF CallKinds
  <2> QED
    BY <1>1, <1>4, <2>1, <2>2
<1> QED
  BY <1>5, <1>6, <1>7, <1>8, <1>9, <1>10, <1>11, <1>12, <1>13 DEF Next

(* What the server does with a call, and what its answer says. *)
LEMMA ServedFacts ==
    ASSUME TypeOK, NEW c \in Calls, ServeCall(c)
    PROVE  /\ calls[c] \in Call /\ calls'[c].kind = calls[c].kind
           /\ calls'[c].overtaken = calls[c].overtaken /\ calls'[c].state = "served"
           /\ \A d \in Calls : d # c => calls'[d] = calls[d]
           /\ calls[c].kind # "create" => calls'[c].board = calls[c].board
           /\ calls[c].kind = "create" => calls'[c].board \in made' \ made
           /\ calls[c].kind = "delete" => calls'[c].board \in removed'
           /\ calls[c].kind # "logout" =>
                calls'[c].board \in Boards /\ calls'[c].targeted = targeted'[calls'[c].board]
           /\ calls[c].kind = "logout" => calls'[c].targeted = calls[c].targeted
<1>0. /\ calls \in [Calls -> Call \cup {Idle}] /\ made \subseteq Boards /\ removed \subseteq made
      /\ calls[c] \in Call /\ calls[c].kind \in {"create", "setTarget", "reopen", "deletion", "delete",
                                                 "replace", "logout", "session"}
  BY DEF TypeOK, ServeCall, Call
<1>1. ASSUME NEW b \in Boards, Served(c, b)
      PROVE  /\ calls'[c].kind = calls[c].kind /\ calls'[c].overtaken = calls[c].overtaken
             /\ calls'[c].state = "served" /\ calls'[c].board = b /\ calls'[c].targeted = targeted'[b]
             /\ \A d \in Calls : d # c => calls'[d] = calls[d]
  BY <1>0, <1>1 DEF Served, Call
<1>2. CASE calls[c].kind = "create"
  <2>1. PICK new \in Boards \ made : made' = made \cup {new} /\ Served(c, new)
    BY <1>2 DEF ServeCall
  <2> QED
    BY <1>0, <1>1, <1>2, <2>1
<1>3. CASE calls[c].kind \in {"setTarget", "deletion", "delete", "replace"}
  <2>1. /\ calls[c].board \in Boards /\ Served(c, calls[c].board)
        /\ calls[c].kind = "delete" => removed' = removed \cup {calls[c].board}
    BY <1>0, <1>3 DEF ServeCall, Exists
  <2> QED
    BY <1>0, <1>1, <1>3, <2>1
<1>4. CASE calls[c].kind = "logout"
  <2>1. calls' = [calls EXCEPT ![c].state = "served"]
    BY <1>4 DEF ServeCall
  <2> QED
    BY <1>0, <1>4, <2>1 DEF Call
<1>5. calls[c].kind \notin {"reopen", "session"}
  BY DEF ServeCall
<1> QED
  BY <1>0, <1>2, <1>3, <1>4, <1>5

(* On the server boards come to be, are deleted, and get a target, for good. *)
LEMMA ServerGrows ==
    ASSUME TypeOK, [Next]_vars
    PROVE  /\ made \subseteq made' /\ removed \subseteq removed'
           /\ \A b \in made : targeted[b] => targeted'[b]
           /\ \A b \in made' \ made : b \notin removed'
           /\ (\A b \in Boards : targeted[b] => b \in made) => \A b \in Boards : targeted'[b] => b \in made'
<1>0. made \subseteq Boards /\ removed \subseteq made /\ targeted \in [Boards -> BOOLEAN]
  BY DEF TypeOK
<1> DEFINE Grows == /\ made \subseteq made' /\ removed \subseteq removed'
                    /\ \A b \in made : targeted[b] => targeted'[b]
                    /\ \A b \in made' \ made : b \notin removed'
                    /\ (\A b \in Boards : targeted[b] => b \in made) =>
                            \A b \in Boards : targeted'[b] => b \in made'
<1>1. CASE UNCHANGED <<made, removed, targeted>>
  BY <1>1
<1>2. ASSUME NEW c \in Calls, ServeCall(c) PROVE Grows
  <2>1. CASE calls[c].kind = "create"
    <3>1. PICK new \in Boards \ made : /\ made' = made \cup {new} /\ removed' = removed
                                       /\ targeted' = [targeted EXCEPT ![new] = app.choosesTarget]
      BY <1>2, <2>1 DEF ServeCall
    <3> QED
      BY <1>0, <3>1
  <2>2. CASE calls[c].kind = "setTarget"
    BY <1>0, <1>2, <2>2 DEF ServeCall, Exists
  <2>3. CASE calls[c].kind = "delete"
    BY <1>0, <1>2, <2>3 DEF ServeCall, Exists
  <2>4. CASE calls[c].kind \notin {"create", "setTarget", "delete"}
    BY <1>1, <1>2, <2>4 DEF ServeCall, server
  <2> QED
    BY <2>1, <2>2, <2>3, <2>4
<1> HIDE DEF Grows
<1>3. CASE ~ \E c \in Calls : ServeCall(c)
  <2>1. UNCHANGED <<made, removed, targeted>>
    <3>1. CASE Save \/ \E b \in Boards : OthersSave(b) \/ Lock(b)
      BY <3>1 DEF Save, OthersSave, Lock
    <3>2. CASE ~(Save \/ \E b \in Boards : OthersSave(b) \/ Lock(b))
      <4>1. UNCHANGED server
        BY <1>3, <3>2 DEF Next, SessionArrives, Begin, CapabilitiesArrive, ServeList, ListArrives, ListFails,
           ServeLoad, LoadFails, OpenArrives, ReopenArrives, CloseBoard, Open, Popstate, OpenDialog, SetName,
           CancelDialog, StartCreating, BackToDialog, StartPicking, CancelPicking, CancelDeletion, Draw,
           AtLogin, SessionIsReread, Logout, LogoutArrives, CreateWithTarget, CreateWithoutTarget, CreateArrives, CreateFails,
           ChangeTarget, SetTargetArrives, SetTargetEnds, AskDeletion, DeletionArrives, ConfirmDeletion,
           DeleteArrives, DeleteFails, Replace, ReplaceArrives, ReplaceFails, vars
      <4> QED
        BY <4>1 DEF server
    <3> QED
      BY <3>1, <3>2
  <2> QED
    BY <1>1, <2>1 DEF Grows
<1> QED
  BY <1>2, <1>3 DEF Grows

(* What is called for goes on existing. *)
LEMMA CallsFitKept ==
    ASSUME TypeOK, CallsFit, [Next]_vars
    PROVE  CallsFit'
<1>0. calls \in [Calls -> Call \cup {Idle}] /\ made \subseteq made' /\ removed \subseteq removed'
  BY ServerGrows DEF TypeOK
<1>1. ASSUME NEW d \in Calls
      PROVE  /\ calls'[d].kind \in {"setTarget", "reopen", "deletion", "replace"} => calls'[d].board \in Boards
             /\ calls'[d].kind = "create" /\ calls'[d].state = "served" => calls'[d].board \in made'
             /\ calls'[d].kind = "delete" /\ calls'[d].state = "served" => calls'[d].board \in removed'
  <2>0. /\ calls[d].kind \in {"setTarget", "reopen", "deletion", "replace"} => calls[d].board \in Boards
        /\ calls[d].kind = "create" /\ calls[d].state = "served" => calls[d].board \in made
        /\ calls[d].kind = "delete" /\ calls[d].state = "served" => calls[d].board \in removed
    BY DEF CallsFit
  <2>1. CASE calls'[d] = calls[d]
    BY <1>0, <2>0, <2>1
  <2>2. CASE AfterGeneration(d)
    BY <1>0, <2>0, <2>2, OvertakenFacts DEF AfterGeneration
  <2>3. CASE calls'[d] = Idle
    BY <2>3 DEF Idle
  <2>4. ASSUME NEW kind \in CallKinds, NEW b \in Boards \cup {NoBoard}, Begins(d, kind, b)
        PROVE  /\ calls'[d].kind = kind /\ calls'[d].state = "sent" /\ calls'[d].board = b
               /\ kind \in {"setTarget", "deletion", "replace"} => b \in Boards /\ kind # "reopen"
    BY <2>4 DEF Begins, NewCall, CallKinds
  <2>5. CASE calls[d].kind = "setTarget" /\ calls'[d] = NewCall("reopen", calls[d].board)
    BY <2>0, <2>5 DEF NewCall
  <2>6. CASE ServeCall(d)
    BY <1>0, <2>0, <2>6, ServedFacts
  <2> QED
    BY <2>1, <2>2, <2>3, <2>4, <2>5, <2>6, CallSteps DEF CallStep, CallKinds
<1> QED
  BY <1>1 DEF CallsFit

(* What a load keeps while it is on its way: all but its answer. *)
SameLoad ==
    /\ Loading /\ Loading'
    /\ opening'.kind = opening.kind /\ opening'.board = opening.board /\ opening'.by = opening.by
    /\ opening'.here = opening.here

(* The slots of the load and of whatever came after it stay as they are. *)
LEMMA SlotOfOthers ==
    ASSUME TypeOK, CallInv, SameLoad, NEW c \in Calls, NEW r,
           calls' = Put(c, r), r.kind \notin {"create", "reopen"},
           calls[c].kind = "reopen" => calls[c].overtaken
    PROVE  LoadOfCall' /\ LoadIsLatest'
<1>1. \A d \in Calls : calls'[d] = IF d = c THEN r ELSE calls[d]
  BY SlotFacts
<1>2. LoadOfCall'
  BY <1>1 DEF LoadOfCall, CallInv, SameLoad
<1>3. LoadIsLatest'
  BY <1>1 DEF LoadIsLatest, CallInv, SameLoad
<1> QED
  BY <1>2, <1>3

(* Every load overtakes what could open a board, except the call it belongs to. *)
LEMMA LoadsKept ==
    ASSUME TypeOK, CallInv, [Next]_vars
    PROVE  LoadOfCall' /\ LoadIsLatest'
<1>0. calls \in [Calls -> Call \cup {Idle}]
  BY DEF TypeOK
<1>f. Overtaken(calls) \in [Calls -> Call \cup {Idle}]
      /\ \A c \in Calls : Overtaken(calls)[c].kind \in {"create", "reopen"} => Overtaken(calls)[c].overtaken
  BY <1>0, OvertakenFacts
<1>i. Idle.kind \notin {"create", "reopen"}
  BY DEF Idle
<1> USE DEF ui, url, server, notes
<1>1. CASE opening' = NoLoad
  BY <1>1 DEF LoadOfCall, LoadIsLatest, Loading
<1>2. ASSUME NEW kind, NEW b, NEW push, NEW picking, kind # "reopen",
             LoadBoard(kind, b, push, picking, NoBoard, calls)
      PROVE  LoadOfCall' /\ LoadIsLatest'
  <2>1. opening'.kind = kind /\ opening'.by = NoBoard
        /\ \A c \in Calls : c # NoBoard => calls'[c] = Overtaken(calls)[c]
    BY <1>2 DEF LoadBoard
  <2> QED
    BY <1>2, <1>f, <2>1 DEF LoadOfCall, LoadIsLatest
<1>3. CASE Begin \/ CancelPicking \/ (\E b \in Boards : Open(b)) \/ \E p \in DOMAIN entries : Popstate(p)
  <2>1. \/ UNCHANGED <<opening, calls>> \/ opening' = NoLoad
        \/ \E kind \in {"open", "cancel", "history"} : \E b, push, picking :
                LoadBoard(kind, b, push, picking, NoBoard, calls)
    BY <1>3 DEF Begin, CancelPicking, Open, Popstate, InvalidateAll
  <2>2. CASE UNCHANGED <<opening, calls>>
    BY <2>2 DEF CallInv, LoadOfCall, LoadIsLatest, Loading
  <2> QED
    BY <1>1, <1>2, <2>1, <2>2
<1>4. CASE OpenArrives \/ ReopenArrives \/ LoadFails \/ CloseBoard
           \/ \E c \in Calls : Logout(c) \/ CreateWithTarget(c) \/ CreateWithoutTarget(c) \/ ChangeTarget(c) \/ DeleteArrives(c)
  BY <1>1, <1>4 DEF OpenArrives, ReopenArrives, LoadFails, CloseBoard, Logout, CreateWithTarget,
     CreateWithoutTarget, ChangeTarget, DeleteArrives, InvalidateAll
<1>5. CASE SessionArrives \/ CapabilitiesArrive \/ ServeList \/ ListArrives
           \/ OpenDialog \/ SetName \/ CancelDialog \/ StartCreating \/ BackToDialog
           \/ StartPicking \/ CancelDeletion \/ Draw \/ Save \/ AtLogin \/ UNCHANGED vars
           \/ \E b \in Boards : OthersSave(b) \/ Lock(b)
  <2>1. UNCHANGED <<opening, calls>>
    BY <1>5 DEF SessionArrives, CapabilitiesArrive, ServeList, ListArrives,
       OpenDialog, SetName, CancelDialog, StartCreating, BackToDialog, StartPicking,
       CancelDeletion, Draw, Save, AtLogin, OthersSave, Lock, vars
  <2> QED
    BY <2>1 DEF CallInv, LoadOfCall, LoadIsLatest, Loading
<1>6. CASE ServeLoad
  <2>1. UNCHANGED calls /\ SameLoad
    <3>1. opening \in Load /\ Loading
      BY <1>6 DEF ServeLoad, Loading, TypeOK
    <3>2. UNCHANGED calls /\ opening'.kind = opening.kind /\ opening'.board = opening.board
          /\ opening'.by = opening.by /\ opening'.here = opening.here
          /\ opening'.kind \in {"open", "history", "cancel", "reopen"}
      BY <1>6, <3>1 DEF ServeLoad, Load
    <3> QED
      BY <3>1, <3>2 DEF SameLoad, Loading, NoLoad
  <2> QED
    BY <2>1 DEF CallInv, LoadOfCall, LoadIsLatest, SameLoad
<1>b. ASSUME Loading, opening' = opening, NEW c \in Calls, calls[c] = Idle,
             NEW kind \in CallKinds \ {"create"}, NEW b, calls' = Put(c, NewCall(kind, b))
      PROVE  LoadOfCall' /\ LoadIsLatest'
  <2>1. NewCall(kind, b).kind \notin {"create", "reopen"} /\ calls[c].kind # "reopen"
    BY <1>i, <1>b DEF NewCall, CallKinds
  <2> QED
    BY <1>b, <2>1, SlotOfOthers DEF SameLoad, Loading
<1>7. ASSUME NEW c \in Calls,
             \/ SessionIsReread(c) \/ LogoutArrives(c) \/ CreateArrives(c) \/ CreateFails(c) \/ SetTargetEnds(c)
             \/ DeletionArrives(c) \/ DeleteFails(c) \/ ReplaceArrives(c) \/ ReplaceFails(c)
             \/ AskDeletion(c) \/ ConfirmDeletion(c) \/ Replace(c)
      PROVE  LoadOfCall' /\ LoadIsLatest'
  <2>1. CASE ~Loading
    <3>1. opening' = NoLoad
      BY <1>7, <2>1 DEF Loading, SessionIsReread, LogoutArrives, CreateArrives, CreateFails, SetTargetEnds, DeletionArrives,
         DeleteFails, ReplaceArrives, ReplaceFails, AskDeletion, ConfirmDeletion, Replace, InvalidateAll
    <3> QED
      BY <1>1, <3>1
  <2>2. CASE Loading
    <3>1. \/ opening' = NoLoad
          \/ /\ opening' = opening
             /\ \/ calls' = Put(c, Idle) /\ (calls[c].kind = "reopen" => calls[c].overtaken)
                \/ /\ calls[c] = Idle
                   /\ \E kind \in CallKinds \ {"create"} : \E b : calls' = Put(c, NewCall(kind, b))
      <4>1. CASE SessionIsReread(c) \/ LogoutArrives(c) \/ CreateArrives(c) \/ CreateFails(c) \/ SetTargetEnds(c)
                 \/ DeletionArrives(c) \/ DeleteFails(c) \/ ReplaceArrives(c) \/ ReplaceFails(c)
        BY <4>1 DEF SessionIsReread, LogoutArrives, CreateArrives, CreateFails, SetTargetEnds, DeletionArrives,
           DeleteFails, ReplaceArrives, ReplaceFails, InvalidateAll
      <4>2. CASE AskDeletion(c) \/ ConfirmDeletion(c) \/ Replace(c)
        BY <4>2 DEF AskDeletion, ConfirmDeletion, Replace, CallKinds
      <4> QED
        BY <1>7, <4>1, <4>2
    <3>2. CASE opening' = opening /\ calls' = Put(c, Idle) /\ (calls[c].kind = "reopen" => calls[c].overtaken)
      BY <1>i, <2>2, <3>2, SlotOfOthers DEF SameLoad, Loading
    <3> QED
      BY <1>1, <1>b, <2>2, <3>1, <3>2
  <2> QED
    BY <2>1, <2>2
<1>8. ASSUME NEW c \in Calls, ServeCall(c) PROVE LoadOfCall' /\ LoadIsLatest'
  <2>1. opening' = opening /\ calls[c].kind # "reopen" /\ calls'[c].kind = calls[c].kind
        /\ calls'[c].overtaken = calls[c].overtaken /\ \A d \in Calls : d # c => calls'[d] = calls[d]
    BY <1>8, ServedFacts DEF ServeCall
  <2> QED
    BY <2>1 DEF CallInv, LoadOfCall, LoadIsLatest, Loading
<1>9. ASSUME NEW c \in Calls, SetTargetArrives(c) PROVE LoadOfCall' /\ LoadIsLatest'
  <2> DEFINE r == NewCall("reopen", calls[c].board)
  <2>1. /\ opening'.kind = "reopen" /\ opening'.by = c /\ opening'.board = calls[c].board
        /\ calls' = [d \in Calls |-> IF d = c THEN Put(c, r)[d] ELSE Overtaken(Put(c, r))[d]]
    BY <1>9 DEF SetTargetArrives, LoadBoard
  <2>2. calls'[c] = r /\ \A d \in Calls : d # c => calls'[d] = Overtaken(calls)[d]
    <3> HIDE DEF r
    <3> QED
      BY <2>1, SlotFacts
  <2>3. r.kind = "reopen" /\ ~r.overtaken /\ r.board = calls[c].board
    BY DEF NewCall
  <2> QED
    BY <1>f, <2>1, <2>2, <2>3 DEF LoadOfCall, LoadIsLatest
<1>10. CASE ListFails
  <2>1. /\ opening' = opening
        /\ calls' = calls \/ \E c \in Calls : calls[c] = Idle /\ calls' = Put(c, NewCall("session", NoBoard))
    BY <1>10 DEF ListFails
  <2>2. CASE calls' = calls
    BY <2>1, <2>2 DEF CallInv, LoadOfCall, LoadIsLatest, Loading
  <2>3. "session" \in CallKinds \ {"create"}
    BY DEF CallKinds
  <2> QED
    BY <1>1, <1>b, <2>1, <2>2, <2>3 DEF Loading
<1> QED
  BY <1>3, <1>4, <1>5, <1>6, <1>7, <1>8, <1>9, <1>10 DEF Next

-----------------------------------------------------------------------------
(* Screens that change *)

(* Most steps leave what is on the screen. *)
ScreenStays ==
    /\ UNCHANGED <<app, lost>> /\ late' \in {late, late \cup {"url"}}
    /\ UNCHANGED url \/ ReplaceLocation(shown)
    /\ UNCHANGED <<unsaved, base, drawnOn>> \/ Draw \/ Save
    /\ \A c \in mine' : c \in mine \/ calls[c] = Idle

ScreenChanges ==
    \/ SessionArrives \/ Begin \/ CapabilitiesArrive
    \/ OpenArrives \/ ReopenArrives \/ CloseBoard
    \/ \E p \in DOMAIN entries : Popstate(p)
    \/ StartCreating \/ BackToDialog \/ StartPicking
    \/ \E c \in Calls : \/ SessionIsReread(c) \/ Logout(c) \/ LogoutArrives(c)
                        \/ CreateArrives(c) \/ DeleteArrives(c) \/ ReplaceArrives(c)

(* A step that is not listed above leaves the screen as it is. *)
LEMMA ScreenSteps ==
    ASSUME [Next]_vars
    PROVE  ScreenStays \/ ScreenChanges
<1> USE DEF ui, url, notes
<1>1. CASE ServeList \/ ListArrives \/ ListFails \/ ServeLoad \/ LoadFails \/ OpenDialog \/ SetName \/ CancelDialog
           \/ CancelPicking \/ CancelDeletion \/ Draw \/ Save \/ AtLogin \/ UNCHANGED vars
           \/ \E b \in Boards : Open(b) \/ OthersSave(b) \/ Lock(b)
  BY <1>1 DEF ScreenStays, ServeList, ListArrives, ListFails, ServeLoad, LoadFails, OpenDialog, SetName, CancelDialog,
     CancelPicking, CancelDeletion, Draw, Save, AtLogin, Open, OthersSave, Lock, vars
<1>2. ASSUME NEW c \in Calls,
             \/ CreateWithTarget(c) \/ CreateWithoutTarget(c) \/ CreateFails(c) \/ ChangeTarget(c)
             \/ SetTargetArrives(c) \/ SetTargetEnds(c) \/ AskDeletion(c) \/ DeletionArrives(c)
             \/ ConfirmDeletion(c) \/ DeleteFails(c) \/ Replace(c) \/ ReplaceFails(c) \/ ServeCall(c)
      PROVE  ScreenStays
  BY <1>2 DEF ScreenStays, CreateWithTarget, CreateWithoutTarget, CreateFails, ChangeTarget, SetTargetArrives,
     SetTargetEnds, AskDeletion, DeletionArrives, ConfirmDeletion, DeleteFails, Replace, ReplaceFails, ServeCall,
     NoteUrl
<1> QED
  BY <1>1, <1>2 DEF Next, ScreenChanges

(* What rendering does: a screen that goes takes everything with it. *)
Renders(asked) ==
    /\ unsaved' => unsaved /\ Screen(app') = Screen(app)
    /\ lost' => lost \/ (unsaved /\ ~asked /\ Screen(app') # Screen(app))
    /\ \/ base' = drawnOn'
       \/ Screen(app') = Screen(app) /\ drawnOn' = drawnOn /\ (app'.version = app.version => base' = base)
    /\ mine' # {} => Screen(app') = Screen(app)

(* Show does what rendering does. *)
LEMMA ShowRenders ==
    ASSUME NEW a, NEW asked, NEW m, Show(a, asked, m)
    PROVE  Renders(asked) /\ app' = a /\ mine' \subseteq m
  BY DEF Show, Renders

(* Whatever changes the screen renders it, and asks or not. *)
LEMMA ChangesRender ==
    ASSUME TypeOK, BeginsFirst, ScreenChanges
    PROVE  /\ Renders(FALSE) \/ (unsaved' = unsaved /\ SessionArrives)
           /\ \A c \in mine' : c \in mine /\ Screen(app') = Screen(app)
           /\ late \subseteq late'
           /\ \/ Renders(TRUE) \/ SessionArrives
              \/ CapabilitiesArrive \/ BackToDialog \/ ReopenArrives \/ StartPicking
              \/ \E c \in Calls : \/ SessionIsReread(c) \/ LogoutArrives(c)
                                  \/ CreateArrives(c) \/ DeleteArrives(c) \/ ReplaceArrives(c)
<1> USE DEF ui, notes
<1> DEFINE Changes == /\ Renders(FALSE) \/ (unsaved' = unsaved /\ SessionArrives)
                      /\ \A c \in mine' : c \in mine /\ Screen(app') = Screen(app)
           Asks == Renders(TRUE)
<1>1. \A a, m : Show(a, TRUE, m) => Renders(TRUE) /\ mine' \subseteq m
  BY ShowRenders
<1>2. \A a, m : Show(a, FALSE, m) => Renders(FALSE) /\ mine' \subseteq m
  BY ShowRenders
<1>3. Renders(TRUE) => Renders(FALSE)
  BY DEF Renders
<1>4. UNCHANGED <<app, unsaved, base, drawnOn, mine, lost>> => Renders(TRUE) /\ mine' \subseteq mine
  BY DEF Renders
<1>5. mine' \subseteq mine /\ Renders(FALSE) => Changes
  BY DEF Renders
<1> HIDE DEF Changes
<1>6. CASE SessionArrives
  <2>1. mine' = {} /\ UNCHANGED <<unsaved, late>>
    BY <1>6 DEF SessionArrives, BeginsFirst
  <2> QED
    BY <1>6, <2>1 DEF Changes
<1>7. CASE Begin
  <2>1. Screen(app') = Screen(app) /\ app'.version = app.version
    BY <1>7 DEF Begin, Screen, TypeOK, App
  <2>2. Renders(TRUE) /\ mine' \subseteq mine /\ UNCHANGED late
    BY <1>7, <2>1 DEF Begin, Renders
  <2> QED
    BY <1>3, <1>5, <2>2 DEF Changes
<1>8. CASE \/ OpenArrives \/ CloseBoard \/ StartCreating
           \/ (\E p \in DOMAIN entries : Popstate(p)) \/ \E c \in Calls : Logout(c)
  <2>1. (\E a : Show(a, TRUE, mine)) \/ UNCHANGED <<ui, lost>>
    BY <1>8 DEF OpenArrives, CloseBoard, StartCreating, Popstate, Logout
  <2>2. late \subseteq late'
    BY <1>8 DEF OpenArrives, CloseBoard, StartCreating, Popstate, Logout
  <2> QED
    BY <1>1, <1>3, <1>4, <1>5, <2>1, <2>2 DEF Changes
<1>9. CASE CapabilitiesArrive \/ BackToDialog \/ ReopenArrives \/ StartPicking
           \/ \E c \in Calls : \/ SessionIsReread(c) \/ LogoutArrives(c) \/ CreateArrives(c) \/ ReplaceArrives(c)
  <2>1. (\E a, m : Show(a, FALSE, m) /\ m \subseteq mine) \/ UNCHANGED <<ui, lost>>
    BY <1>9 DEF CapabilitiesArrive, BackToDialog, ReopenArrives, StartPicking, SessionIsReread, LogoutArrives,
       ReplaceSession, CreateArrives, ReplaceArrives
  <2>2. late \subseteq late'
    BY <1>9 DEF CapabilitiesArrive, BackToDialog, ReopenArrives, StartPicking, SessionIsReread, LogoutArrives,
       ReplaceSession, CreateArrives, ReplaceArrives
  <2> QED
    BY <1>2, <1>3, <1>4, <1>5, <1>9, <2>1, <2>2 DEF Changes
<1>10. ASSUME NEW c \in Calls, DeleteArrives(c)
       PROVE  Changes /\ late \subseteq late'
  <2>1. Show(Closed(app), c \in mine, mine \ {c}) /\ late \subseteq late'
    BY <1>10 DEF DeleteArrives
  <2>2. Renders(FALSE) /\ mine' \subseteq mine
    BY <2>1 DEF Show, Renders
  <2> QED
    BY <1>5, <2>1, <2>2
<1> QED
  BY <1>6, <1>7, <1>8, <1>9, <1>10 DEF ScreenChanges, Changes

(* Nothing can be done before the first rendering, and it stays behind. *)
LEMMA BeginsKept ==
    ASSUME TypeOK, BeginsFirst, [Next]_vars
    PROVE  BeginsFirst' /\ (app'.begun => app.begun \/ Begin)
<1>0. app \in App /\ calls \in [Calls -> Call \cup {Idle}] /\ NoBoard \notin Boards
  BY NavigationAssumption DEF TypeOK
<1> USE DEF ui, notes
<1>1. CASE ~app.begun
  <2>1. /\ app.current = NoBoard /\ ~app.creating /\ mine = {} /\ deletion = "none"
        /\ opening = NoLoad /\ listing.state = "none"
        /\ \A c \in Calls : calls[c] = Idle /\ calls[c].kind = "idle"
    BY <1>1 DEF BeginsFirst, Loading, Idle
  <2>2. /\ ~OnList /\ Screen(app) \notin Canvases
        /\ \A b \in Boards \cup {NoBoard} : ~OnCanvas(b) /\ ~OnPicker(b)
    <3>1. ~OnList /\ Screen(app) \notin Canvases
      BY <1>0, <1>1, <2>1, ScreenFacts DEF OnList
    <3>2. \A b \in Boards : ~OnCanvas(b) /\ ~OnPicker(b)
      BY <1>0, <2>1, ScreenFacts DEF OnCanvas, OnPicker
    <3>3. ~OnCanvas(NoBoard) /\ ~OnPicker(NoBoard)
      BY <1>0, <2>1, ScreenFacts DEF OnCanvas, OnPicker, Screen
    <3> QED
      BY <3>1, <3>2, <3>3
  <2> HIDE DEF OnList, OnCanvas, OnPicker
  <2>3. CASE SessionArrives
    BY <1>0, <1>1, <2>1, <2>3 DEF SessionArrives, App, BeginsFirst, Loading
  <2>4. CASE Begin
    BY <1>0, <2>4 DEF Begin, App, BeginsFirst
  <2>5. CASE ~SessionArrives /\ ~Begin
    <3>1. \A c \in Calls : ~(\/ SessionIsReread(c) \/ Logout(c) \/ LogoutArrives(c) \/ CreateWithTarget(c)
                             \/ CreateWithoutTarget(c)
                             \/ CreateArrives(c) \/ CreateFails(c) \/ ChangeTarget(c) \/ SetTargetArrives(c)
                             \/ SetTargetEnds(c) \/ AskDeletion(c) \/ DeletionArrives(c)
                             \/ DeleteArrives(c) \/ DeleteFails(c) \/ Replace(c) \/ ReplaceArrives(c)
                             \/ ReplaceFails(c) \/ ServeCall(c))
      BY <2>1, <2>2, ZenonT(40) DEF SessionIsReread, Logout, LogoutArrives, CreateWithTarget, CreateWithoutTarget,
         CreateArrives, CreateFails,
         ChangeTarget, SetTargetArrives, SetTargetEnds, AskDeletion, DeletionArrives, DeleteArrives,
         DeleteFails, Replace, ReplaceArrives, ReplaceFails, ServeCall
    <3>2. ~(\/ CapabilitiesArrive \/ ServeList \/ ListArrives \/ ListFails \/ ServeLoad \/ LoadFails
            \/ OpenArrives \/ ReopenArrives \/ CloseBoard \/ (\E b \in Boards : Open(b))
            \/ (\E p \in DOMAIN entries : Popstate(p)) \/ OpenDialog \/ SetName \/ CancelDialog
            \/ StartCreating \/ BackToDialog \/ StartPicking \/ CancelPicking \/ Draw \/ Save)
      BY <1>1, <2>1, <2>2 DEF CapabilitiesArrive, ServeList, ListArrives, ListFails, ServeLoad, LoadFails,
         OpenArrives, ReopenArrives, CloseBoard, Open, Popstate, OpenDialog, SetName, CancelDialog,
         StartCreating, BackToDialog, StartPicking, CancelPicking, Draw, Save
    <3>3. \/ CancelDeletion \/ AtLogin \/ UNCHANGED vars \/ (\E b \in Boards : OthersSave(b) \/ Lock(b))
          \/ \E c \in Calls : ConfirmDeletion(c)
      BY <2>5, <3>1, <3>2 DEF Next
    <3>4. ~ \E c \in Calls : ConfirmDeletion(c)
      BY <2>1 DEF ConfirmDeletion
    <3>5. UNCHANGED <<app, mine, deletion, opening, listing, calls>>
      BY <2>1, <3>3, <3>4 DEF CancelDeletion, AtLogin, OthersSave, Lock, vars
    <3> QED
      BY <3>5 DEF BeginsFirst, Loading
  <2> QED
    BY <2>3, <2>4, <2>5
<1>2. CASE app.begun
  <2>0. app.session # "asking"
    BY <1>2 DEF BeginsFirst
  <2>1. app'.session # "asking"
    <3>1. CASE ScreenStays
      BY <1>2, <2>0, <3>1 DEF ScreenStays
    <3>2. CASE ScreenChanges
      <4>2. CASE SessionArrives \/ Begin \/ CapabilitiesArrive \/ StartPicking \/ BackToDialog
        BY <1>0, <1>2, <2>0, <4>2 DEF SessionArrives, Begin, CapabilitiesArrive, StartPicking, BackToDialog, Show, App
      <4>3. CASE OpenArrives \/ ReopenArrives
        BY <1>0, <1>2, <2>0, <4>3 DEF OpenArrives, ReopenArrives, Show, Opened, App
      <4>4. CASE CloseBoard \/ StartCreating \/ \E p \in DOMAIN entries : Popstate(p)
        BY <1>0, <1>2, <2>0, <4>4 DEF CloseBoard, StartCreating, Popstate, Show, Closed, App
      <4>5. ASSUME NEW c \in Calls, \/ SessionIsReread(c) \/ Logout(c) \/ LogoutArrives(c) \/ CreateArrives(c)
                                    \/ DeleteArrives(c) \/ ReplaceArrives(c)
            PROVE  app'.session # "asking"
        BY <1>0, <1>2, <2>0, <4>5 DEF SessionIsReread, Logout, LogoutArrives, ReplaceSession, CreateArrives,
           DeleteArrives, ReplaceArrives, Show, Closed, Opened, App
      <4> QED
        BY <3>2, <4>2, <4>3, <4>4, <4>5 DEF ScreenChanges
    <3> QED
      BY <3>1, <3>2, ScreenSteps
  <2>2. app.begun = TRUE
    BY <1>0, <1>2 DEF App
  <2>3. app'.begun = TRUE
    <3>1. CASE ScreenStays
      BY <2>2, <3>1 DEF ScreenStays
    <3>2. CASE ScreenChanges
      <4>1. /\ Closed(app).begun = TRUE /\ Closed(app) \in App
            /\ \A b, r, p : /\ Opened(b, r, p).begun = TRUE
                           /\ [Opened(b, r, p) EXCEPT !.creating = FALSE].begun = TRUE
        <5>1. Closed(app).begun = TRUE /\ Closed(app) \in App
          BY <1>0, <2>2, AppTypes DEF Closed, App
        <5>2. ASSUME NEW b, NEW r, NEW p
              PROVE  /\ Opened(b, r, p).begun = TRUE
                     /\ [Opened(b, r, p) EXCEPT !.creating = FALSE].begun = TRUE
          BY <1>0, <2>2 DEF Opened, App
        <5> QED
          BY <5>1, <5>2
      <4>2. \A a, asked, m : Show(a, asked, m) => app' = a
        BY DEF Show
      <4>3. CASE SessionArrives \/ Begin \/ CapabilitiesArrive \/ StartPicking \/ BackToDialog
        BY <1>0, <2>2, <4>3 DEF SessionArrives, Begin, CapabilitiesArrive, StartPicking, BackToDialog, Show, App
      <4>4. CASE OpenArrives \/ ReopenArrives
        <5>1. \/ UNCHANGED app
              \/ \E b, p : \/ app' = [Opened(b, opening, p) EXCEPT !.creating = FALSE]
                          \/ app' = Opened(b, opening, p)
          BY <4>2, <4>4 DEF OpenArrives, ReopenArrives
        <5> QED
          BY <2>2, <4>1, <5>1
      <4>5. CASE CloseBoard \/ StartCreating \/ \E p \in DOMAIN entries : Popstate(p)
        <5>1. \/ UNCHANGED app
              \/ app' = [Closed(app) EXCEPT !.picking = FALSE, !.creating = FALSE]
              \/ app' = [Closed(app) EXCEPT !.creating = TRUE, !.picking = FALSE]
          BY <4>2, <4>5 DEF CloseBoard, StartCreating, Popstate
        <5> QED
          BY <2>2, <4>1, <5>1 DEF App
      <4>6. ASSUME NEW c \in Calls, \/ SessionIsReread(c) \/ Logout(c) \/ LogoutArrives(c) \/ CreateArrives(c)
                                    \/ DeleteArrives(c) \/ ReplaceArrives(c)
            PROVE  app'.begun = TRUE
        <5>1. CASE SessionIsReread(c) \/ LogoutArrives(c)
          <6>1. UNCHANGED app \/ \E x : app' = [app EXCEPT !.session = x]
            BY <4>2, <5>1 DEF SessionIsReread, LogoutArrives, ReplaceSession
          <6> QED
            BY <1>0, <2>2, <6>1 DEF App
        <5>2. CASE Logout(c) \/ DeleteArrives(c)
          BY <4>1, <4>2, <5>2 DEF Logout, DeleteArrives
        <5>3. CASE CreateArrives(c)
          <6>1. \/ app' = [app EXCEPT !.creating = FALSE]
                \/ \E b, r, p : app' = [Opened(b, r, p) EXCEPT !.creating = FALSE]
            BY <4>2, <5>3 DEF CreateArrives
          <6> QED
            BY <1>0, <2>2, <4>1, <6>1 DEF App
        <5>4. CASE ReplaceArrives(c)
          <6>1. \/ UNCHANGED app
                \/ app' = [app EXCEPT !.version = ReplacedVersion(calls[c].version),
                                      !.targeted = calls[c].targeted, !.fixed = calls[c].fixed]
            BY <4>2, <5>4 DEF ReplaceArrives
          <6> QED
            BY <1>0, <2>2, <6>1 DEF App
        <5> QED
          BY <4>6, <5>1, <5>2, <5>3, <5>4
      <4> QED
        BY <3>2, <4>3, <4>4, <4>5, <4>6 DEF ScreenChanges
    <3> QED
      BY <3>1, <3>2, ScreenSteps
  <2> QED
    BY <1>2, <2>1, <2>3 DEF BeginsFirst
<1> QED
  BY <1>1, <1>2

(* Edits go with the canvas they were made on. *)
LEMMA EditsKept ==
    ASSUME TypeOK, BeginsFirst, EditsOnCanvas, [Next]_vars
    PROVE  EditsOnCanvas'
<1>1. CASE ScreenStays
  BY <1>1 DEF ScreenStays, EditsOnCanvas, Draw, Save
<1>2. CASE ScreenChanges
  <2>1. CASE Renders(FALSE)
    BY <2>1 DEF Renders, EditsOnCanvas
  <2>2. CASE unsaved' = unsaved /\ SessionArrives
    <3>1. Screen(app) \notin Canvases
      BY <2>2, ScreenFacts DEF TypeOK, SessionArrives
    <3> QED
      BY <2>2, <3>1 DEF EditsOnCanvas
  <2> QED
    BY <1>2, <2>1, <2>2, ChangesRender
<1> QED
  BY <1>1, <1>2, ScreenSteps

(* The picker that has sent a target stays on the screen, or forgets about it. *)
LEMMA TargetingKept ==
    ASSUME TypeOK, CallsFit, BeginsFirst, TargetingOnScreen, [Next]_vars
    PROVE  TargetingOnScreen'
<1>0. calls \in [Calls -> Call \cup {Idle}] /\ mine \subseteq Calls /\ mine' \subseteq Calls
  BY TypesKept DEF TypeOK
<1>1. \A c \in mine' : (c \in mine \/ calls[c] = Idle) /\ Screen(app') = Screen(app)
  BY ScreenSteps, ChangesRender DEF ScreenStays
<1>2. ASSUME NEW c \in mine', calls'[c].kind \in {"setTarget", "reopen"}
      PROVE  Screen(app') = <<"picker", calls'[c].board>>
  <2>1. c \in Calls /\ (c \in mine \/ calls[c] = Idle) /\ Screen(app') = Screen(app)
    BY <1>0, <1>1
  <2>2. c \in mine /\ calls[c].kind \in {"setTarget", "reopen"} => Screen(app) = <<"picker", calls[c].board>>
    BY DEF TargetingOnScreen, OnPicker
  <2>3. CASE calls'[c] = calls[c]
    BY <1>2, <2>1, <2>2, <2>3 DEF Idle
  <2>4. CASE AfterGeneration(c)
    <3>1. calls'[c].kind = calls[c].kind /\ (calls[c].kind # "idle" => calls'[c].board = calls[c].board)
      BY <1>0, <2>1, <2>4, OvertakenFacts DEF AfterGeneration
    <3> QED
      BY <1>2, <2>1, <2>2, <3>1 DEF Idle
  <2>5. CASE calls'[c] = Idle
    BY <1>2, <2>5 DEF Idle
  <2>6. ASSUME NEW kind \in CallKinds, NEW b \in Boards \cup {NoBoard}, Begins(c, kind, b)
        PROVE  Screen(app') = <<"picker", calls'[c].board>>
    BY <1>2, <2>1, <2>6 DEF Begins, NewCall, CallKinds, OnPicker
  <2>7. CASE calls[c].kind = "setTarget" /\ calls'[c] = NewCall("reopen", calls[c].board)
    BY <2>1, <2>2, <2>7 DEF NewCall, Idle
  <2>8. CASE ServeCall(c)
    <3>1. calls'[c].kind = calls[c].kind /\ calls'[c].board = calls[c].board
      BY <1>2, <2>1, <2>8, ServedFacts
    <3> QED
      BY <1>2, <2>1, <2>2, <2>8, <3>1 DEF ServeCall
  <2> QED
    BY <2>1, <2>3, <2>4, <2>5, <2>6, <2>7, <2>8, CallSteps DEF CallStep
<1> QED
  BY <1>2 DEF TargetingOnScreen, OnPicker

-----------------------------------------------------------------------------
(* Who gives up the choice of a target *)

SamePlace == app'.current = app.current /\ app'.creating = app.creating /\ app'.picking = app.picking

(* While a board is being read the place changes only by the user's own hand. *)
LEMMA PlaceSteps ==
    ASSUME TypeOK, [Next]_vars
    PROVE  \/ SamePlace
           \/ opening' = NoLoad
           \/ StartPicking \/ StartCreating \/ BackToDialog
           \/ \E c \in Calls : CreateArrives(c) /\ calls[c].overtaken
<1>0. app \in App
  BY DEF TypeOK
<1> USE DEF ui
<1>1. CASE ScreenStays
  BY <1>1 DEF ScreenStays, SamePlace
<1>2. CASE SessionArrives \/ Begin \/ CapabilitiesArrive
  BY <1>0, <1>2 DEF SessionArrives, Begin, CapabilitiesArrive, Show, SamePlace, App
<1>3. CASE OpenArrives \/ ReopenArrives \/ CloseBoard
  BY <1>3 DEF OpenArrives, ReopenArrives, CloseBoard, InvalidateAll
<1>4. CASE \E p \in DOMAIN entries : Popstate(p)
  BY <1>4 DEF Popstate, InvalidateAll, SamePlace
<1>5. ASSUME NEW c \in Calls, Logout(c) \/ CreateArrives(c) \/ DeleteArrives(c)
      PROVE  opening' = NoLoad \/ (CreateArrives(c) /\ calls[c].overtaken)
  BY <1>5 DEF Logout, CreateArrives, DeleteArrives, InvalidateAll
<1>6. ASSUME NEW c \in Calls, SessionIsReread(c) \/ LogoutArrives(c) \/ ReplaceArrives(c) PROVE SamePlace
  BY <1>0, <1>6 DEF SessionIsReread, LogoutArrives, ReplaceSession, ReplaceArrives, Show, SamePlace, App
<1> QED
  BY <1>1, <1>2, <1>3, <1>4, <1>5, <1>6, ScreenSteps DEF ScreenChanges

(* A load goes on, ends, or begins. *)
LEMMA LoadSteps ==
    ASSUME TypeOK, [Next]_vars
    PROVE  \/ ~Loading'
           \/ SameLoad /\ (opening' = opening \/ ServeLoad)
           \/ /\ opening'.state = "sent" /\ ~opening'.targeted
              /\ opening'.kind = "cancel" => CancelPicking
              /\ opening'.kind = "open" => Begin \/ \E b \in Boards : Open(b)
              /\ opening'.here = shown /\ shown' = shown /\ SamePlace
<1> USE DEF ui, url, server, notes
<1>1. CASE UNCHANGED opening
  BY <1>1 DEF Loading, SameLoad
<1>2. CASE opening' = NoLoad
  BY <1>2 DEF Loading
<1>3. CASE ServeLoad
  <2>1. opening \in Load /\ Loading
    BY <1>3 DEF ServeLoad, Loading, TypeOK
  <2>2. opening'.kind = opening.kind /\ opening'.board = opening.board
        /\ opening'.by = opening.by /\ opening'.here = opening.here
        /\ opening'.kind \in {"open", "history", "cancel", "reopen"}
    BY <1>3, <2>1 DEF ServeLoad, Load
  <2> QED
    BY <1>3, <2>1, <2>2 DEF SameLoad, Loading, NoLoad
<1>5. CASE Begin \/ CancelPicking \/ (\E b \in Boards : Open(b)) \/ (\E p \in DOMAIN entries : Popstate(p))
           \/ \E c \in Calls : SetTargetArrives(c)
  <2>1. CASE Begin
    <3>1. \/ UNCHANGED opening
          \/ /\ \E b, picking : LoadBoard("open", b, FALSE, picking, NoBoard, calls)
             /\ shown' = shown /\ SamePlace
      BY <2>1 DEF Begin, SamePlace, TypeOK, App
    <3> QED
      BY <1>1, <2>1, <3>1 DEF LoadBoard
  <2>2. CASE CancelPicking
    <3>1. (\E b : LoadBoard("cancel", b, FALSE, FALSE, NoBoard, calls)) /\ shown' = shown /\ SamePlace
      BY <2>2 DEF CancelPicking, SamePlace
    <3> QED
      BY <2>2, <3>1 DEF LoadBoard
  <2>3. CASE \E b \in Boards : Open(b)
    <3>1. (\E b : LoadBoard("open", b, TRUE, FALSE, NoBoard, calls)) /\ shown' = shown /\ SamePlace
      BY <2>3 DEF Open, SamePlace
    <3> QED
      BY <2>3, <3>1 DEF LoadBoard
  <2>4. CASE \E p \in DOMAIN entries : Popstate(p)
    <3>1. \/ opening' = NoLoad
          \/ /\ \E b, picking : LoadBoard("history", b, FALSE, picking, NoBoard, calls)
             /\ shown' = shown /\ SamePlace
      BY <2>4 DEF Popstate, InvalidateAll, SamePlace
    <3> QED
      BY <1>2, <3>1 DEF LoadBoard
  <2>5. CASE \E c \in Calls : SetTargetArrives(c)
    <3>1. (\E b, c, cs : LoadBoard("reopen", b, FALSE, FALSE, c, cs)) /\ shown' = shown /\ SamePlace
      BY <2>5 DEF SetTargetArrives, SamePlace
    <3> QED
      BY <3>1 DEF LoadBoard
  <2> QED
    BY <1>5, <2>1, <2>2, <2>3, <2>4, <2>5
<1>6. CASE OpenArrives \/ ReopenArrives \/ LoadFails \/ CloseBoard
           \/ \E c \in Calls : Logout(c) \/ CreateWithTarget(c) \/ CreateWithoutTarget(c) \/ ChangeTarget(c) \/ DeleteArrives(c)
  BY <1>2, <1>6 DEF OpenArrives, ReopenArrives, LoadFails, CloseBoard, Logout, CreateWithTarget,
     CreateWithoutTarget, ChangeTarget, DeleteArrives, InvalidateAll
<1>7. CASE SessionArrives \/ CapabilitiesArrive \/ ServeList \/ ListArrives \/ ListFails
           \/ OpenDialog \/ SetName \/ CancelDialog \/ StartCreating \/ BackToDialog
           \/ StartPicking \/ CancelDeletion \/ Draw \/ Save \/ AtLogin \/ UNCHANGED vars
           \/ \E b \in Boards : OthersSave(b) \/ Lock(b)
  BY <1>1, <1>7 DEF SessionArrives, CapabilitiesArrive, ServeList, ListArrives, ListFails,
     OpenDialog, SetName, CancelDialog, StartCreating, BackToDialog, StartPicking,
     CancelDeletion, Draw, Save, AtLogin, OthersSave, Lock, vars
<1>8. ASSUME NEW c \in Calls,
             \/ SessionIsReread(c) \/ LogoutArrives(c) \/ CreateArrives(c) \/ CreateFails(c) \/ SetTargetEnds(c)
             \/ DeletionArrives(c) \/ DeleteFails(c) \/ ReplaceArrives(c) \/ ReplaceFails(c)
             \/ AskDeletion(c) \/ ConfirmDeletion(c) \/ Replace(c) \/ ServeCall(c)
      PROVE  UNCHANGED opening \/ opening' = NoLoad
  BY <1>8 DEF SessionIsReread, LogoutArrives, CreateArrives, CreateFails, SetTargetEnds, DeletionArrives, DeleteFails,
     ReplaceArrives, ReplaceFails, AskDeletion, ConfirmDeletion, Replace, ServeCall, InvalidateAll
<1> QED
  BY <1>1, <1>2, <1>3, <1>5, <1>6, <1>7, <1>8 DEF Next

(* Nothing but an answer takes away the picker that was given up. *)
LEMMA CancelKept ==
    ASSUME TypeOK, CancelStaysHere, [Next]_vars
    PROVE  CancelStaysHere'
<1>0. app \in App /\ opening \in Load \cup {NoLoad} /\ NoBoard \notin Boards
  BY NavigationAssumption DEF TypeOK
<1> SUFFICES ASSUME Loading', opening'.kind = "cancel"
             PROVE  app'.picking /\ ~app'.creating /\ app'.current = opening'.board
  BY DEF CancelStaysHere
<1>1. CASE CancelPicking
  <2>1. PICK b \in Boards : OnPicker(b) /\ opening'.board = b /\ app' = app /\ app.picking
    BY <1>1 DEF CancelPicking, LoadBoard, ui
  <2> QED
    BY <1>0, <2>1, ScreenFacts DEF OnPicker
<1>2. CASE SameLoad
  <2>1. app.picking /\ ~app.creating /\ app.current = opening.board /\ opening.board \in Boards
    BY <1>0, <1>2 DEF SameLoad, CancelStaysHere, Loading, Load
  <2>2. CASE SamePlace
    BY <1>2, <2>1, <2>2 DEF SamePlace, SameLoad
  <2>3. CASE StartPicking
    BY <1>0, <1>2, <2>1, <2>3 DEF StartPicking, Show, App, SameLoad
  <2>4. ~StartCreating
    BY <1>0, <2>1, ScreenFacts DEF StartCreating, OnList
  <2>5. ~BackToDialog
    BY <1>0, <2>1, ScreenFacts DEF BackToDialog, OnPicker
  <2>6. ASSUME NEW c \in Calls, CreateArrives(c), calls[c].overtaken
        PROVE  app'.picking /\ ~app'.creating /\ app'.current = opening.board
    BY <1>0, <2>1, <2>6 DEF CreateArrives, Show, App
  <2> QED
    BY <1>2, <2>2, <2>3, <2>4, <2>5, <2>6, PlaceSteps DEF SameLoad, Loading
<1> QED
  BY <1>1, <1>2, LoadSteps DEF SameLoad

-----------------------------------------------------------------------------
(* The place on the screen *)

(* The answers that end the choice of a target find its picker on the      *)
(* screen, or are noted as late.                                           *)
LEMMA ReopenFacts ==
    ASSUME TypeOK, CallInv, CancelStaysHere, TargetingOnScreen, ReopenArrives
    PROVE  /\ opening \in Load /\ opening.board \in Boards
           /\ "target" \in late' \/ (Screen(app) \notin Canvases /\ ~app.creating /\ app.current = opening.board)
<1>0. opening \in Load /\ Loading /\ app \in App /\ opening.board \in Boards
  BY DEF TypeOK, ReopenArrives, Loading, Load
<1>1. CASE opening.kind = "cancel"
  <2>1. app.picking /\ ~app.creating /\ app.current = opening.board
    BY <1>0, <1>1 DEF CancelStaysHere
  <2>2. Screen(app) \notin Canvases
    BY <1>0, <2>1, ScreenFacts
  <2> QED
    BY <1>0, <2>1, <2>2
<1>2. CASE opening.kind = "reopen" /\ opening.by \in mine
  <2>1. calls[opening.by].kind = "reopen" /\ calls[opening.by].board = opening.board
    BY <1>0, <1>2 DEF CallInv, LoadOfCall
  <2>2. OnPicker(opening.board)
    BY <1>2, <2>1 DEF TargetingOnScreen
  <2> QED
    BY <1>0, <2>2, ScreenFacts DEF OnPicker
<1>3. CASE opening.kind = "reopen" /\ opening.by \notin mine
  BY <1>0, <1>3 DEF ReopenArrives
<1> QED
  BY <1>0, <1>1, <1>2, <1>3 DEF ReopenArrives

(* Whatever puts another board on the screen notes it, and an answer that is
   turned down goes back to the board that is still there. *)
LEMMA PlaceKept ==
    ASSUME TypeOK, CallInv, CancelStaysHere, TargetingOnScreen, PlaceInv, [Next]_vars
    PROVE  PlaceInv'
<1>0. /\ app \in App /\ opening \in Load \cup {NoLoad} /\ shown \in Location /\ NoBoard \notin Boards
      /\ entries \in Seq(Location) /\ position \in DOMAIN entries
      /\ \A p \in DOMAIN entries : entries[p] \in Location
  BY NavigationAssumption, LenProperties DEF TypeOK
<1>l. /\ \A l \in Location : l.board \in Boards \cup {NoBoard} /\ (l.board = NoBoard => ~l.picking)
      /\ NoLocation \in Location /\ NoLocation.board = NoBoard /\ ~NoLocation.picking
      /\ \A b \in Boards, p \in BOOLEAN :
            [board |-> b, picking |-> p] \in Location /\ [board |-> b, picking |-> p].board = b
            /\ [board |-> b, picking |-> p].picking = p
  <2>1. ASSUME NEW l \in [board : Boards, picking : BOOLEAN]
        PROVE  l.board \in Boards /\ l.board # NoBoard
    BY <1>0
  <2>2. ASSUME NEW l, l = [board |-> NoBoard, picking |-> FALSE]
        PROVE  l.board = NoBoard /\ ~l.picking
    BY <2>2
  <2> QED
    BY <2>1, <2>2 DEF Location, NoLocation
<1>n. ASSUME NEW l \in Location, PushLocation(l) \/ ReplaceLocation(l)
      PROVE  shown' = l /\ entries'[position'] = l
  BY <1>n, LocationNoted DEF HistoryAt
<1> DEFINE AsShown(l) == shown' = l /\ entries'[position'] = l
<1>p. /\ "target" \notin late =>
            /\ app.creating => app.current = NoBoard
            /\ shown.board = IF app.creating THEN NoBoard ELSE app.current
            /\ shown.picking => app.picking
            /\ Loading => opening.here.board = shown.board /\ (opening.here.picking => app.picking)
      /\ entries[position].board = NoBoard => shown.board = NoBoard
  BY DEF PlaceInv, PlaceIsNoted, HereIsNoted
\* What each step has to show.
<1> DEFINE Noted == "target" \notin late' =>
                       /\ app'.creating => app'.current = NoBoard
                       /\ shown'.board = IF app'.creating THEN NoBoard ELSE app'.current
                       /\ shown'.picking => app'.picking
           There == entries'[position'].board = NoBoard => shown'.board = NoBoard
           Back == Loading' /\ "target" \notin late' =>
                       opening'.here.board = shown'.board /\ (opening'.here.picking => app'.picking)
<1>q. Noted /\ There /\ Back => PlaceInv'
  BY DEF PlaceInv, PlaceIsNoted, HereIsNoted
<1>e. opening' = NoLoad => Back
  BY DEF Loading
<1>h. Loading => opening.here \in Location
  BY <1>0 DEF Loading, Load
<1> HIDE DEF Noted, There, Back
<1> USE DEF ui, url, server, notes
\* The place stays: so does what is noted of it.
<1>1. ASSUME SamePlace, shown'.board = shown.board, shown' = shown \/ ~shown'.picking, late \subseteq late',
             There, \/ shown' = shown \/ opening' = opening \/ opening' = NoLoad
      PROVE  PlaceInv'
  <2>1. Noted
    BY <1>1, <1>p DEF Noted, SamePlace
  <2>2. CASE SameLoad
    <3>1. Back
      BY <1>1, <1>p, <2>2 DEF Back, SameLoad, SamePlace
    <3> QED
      BY <1>1, <1>q, <2>1, <3>1
  <2>3. CASE opening'.here = shown /\ shown' = shown
    <3>1. Back
      BY <1>1, <1>p, <2>3 DEF Back, SamePlace
    <3> QED
      BY <1>1, <1>q, <2>1, <3>1
  <2>4. CASE ~Loading'
    BY <1>1, <1>q, <2>1, <2>4 DEF Back
  <2> QED
    BY <2>2, <2>3, <2>4, LoadSteps
<1>2. CASE ScreenStays
  <2>1. SamePlace /\ shown' = shown /\ late \subseteq late'
    BY <1>2 DEF ScreenStays, SamePlace, ReplaceLocation
  <2>2. There
    <3>1. CASE UNCHANGED url
      BY <1>p, <3>1 DEF There
    <3>2. CASE ReplaceLocation(shown)
      BY <1>0, <1>n, <3>2 DEF There
    <3> QED
      BY <1>2, <3>1, <3>2 DEF ScreenStays
  <2> QED
    BY <1>1, <2>1, <2>2
<1>3. CASE SessionArrives \/ CapabilitiesArrive
           \/ \E c \in Calls : SessionIsReread(c) \/ LogoutArrives(c) \/ ReplaceArrives(c)
  <2>1. SamePlace
    BY <1>0, <1>3, ZenonT(40) DEF SessionArrives, CapabilitiesArrive, SessionIsReread, LogoutArrives, ReplaceSession,
       ReplaceArrives, Show, SamePlace, App
  <2>2. UNCHANGED url /\ late \subseteq late'
    BY <1>3 DEF SessionArrives, CapabilitiesArrive, SessionIsReread, LogoutArrives, ReplaceSession, ReplaceArrives
  <2>3. There
    BY <1>p, <2>2 DEF There
  <2> QED
    BY <1>1, <2>1, <2>2, <2>3
<1>4. CASE Begin
  <2>1. SamePlace /\ late' = late
    BY <1>0, <1>4 DEF Begin, SamePlace, App
  <2>2. CASE entries[position].board = NoBoard
    <3>1. ReplaceLocation(NoLocation) /\ opening' = opening
      BY <1>4, <2>2 DEF Begin
    <3>2. shown' = NoLocation /\ entries'[position'] = NoLocation /\ shown.board = NoBoard
      BY <1>l, <1>n, <1>p, <2>2, <3>1
    <3>3. There
      BY <1>l, <3>2 DEF There
    <3> QED
      BY <1>1, <1>l, <2>1, <3>1, <3>2, <3>3
  <2>3. CASE entries[position].board # NoBoard
    <3>1. UNCHANGED url
      BY <1>4, <2>3 DEF Begin
    <3>2. There
      BY <1>p, <3>1 DEF There
    <3> QED
      BY <1>1, <2>1, <3>1, <3>2
  <2> QED
    BY <2>2, <2>3
\* The place is another one, and is noted as it is shown.
<1>5. ASSUME NEW l \in Location, PushLocation(l) \/ ReplaceLocation(l), opening' = NoLoad,
             "target" \notin late' =>
                /\ app'.creating => app'.current = NoBoard
                /\ l.board = IF app'.creating THEN NoBoard ELSE app'.current
                /\ l.picking => app'.picking
      PROVE  PlaceInv'
  <2>1. shown' = l /\ entries'[position'] = l
    BY <1>5, <1>n
  <2> QED
    BY <1>5, <1>e, <1>q, <2>1 DEF Noted, There
<1>6. CASE OpenArrives
  <2> DEFINE b == opening.board
             p == opening.picking /\ CanOpenTargetPicker(opening)
             l == [board |-> b, picking |-> p]
  <2>1. opening' = NoLoad /\ opening \in Load /\ b \in Boards /\ p \in BOOLEAN /\ late \subseteq late'
    BY <1>0, <1>6 DEF OpenArrives, Load
  <2>2. \/ Show([Opened(b, opening, p) EXCEPT !.creating = FALSE], TRUE, mine) /\ ShowLocation(l, opening.push)
        \/ UNCHANGED <<ui, lost>> /\ PushLocation(opening.here)
        \/ UNCHANGED <<ui, lost>> /\ UNCHANGED url
    BY <1>6 DEF OpenArrives
  <2>3. CASE Show([Opened(b, opening, p) EXCEPT !.creating = FALSE], TRUE, mine) /\ ShowLocation(l, opening.push)
    <3>1. ~app'.creating /\ app'.current = b /\ app'.picking = p
      BY <1>0, <2>1, <2>3 DEF Show, Opened, App
    <3>2. l \in Location /\ l.board = b /\ l.picking = p
      BY <1>l, <2>1
    <3> HIDE DEF b, p, l
    <3> QED
      BY <1>0, <1>5, <2>1, <2>3, <3>1, <3>2 DEF ShowLocation
  <2>4. CASE UNCHANGED <<ui, lost>> /\ PushLocation(opening.here)
    <3>1. /\ opening.here \in Location /\ app' = app
          /\ "target" \notin late => /\ opening.here.board = shown.board
                                     /\ opening.here.picking => app.picking
      BY <1>h, <1>p, <1>6, <2>4 DEF OpenArrives, Loading
    <3> QED
      BY <1>5, <1>p, <2>1, <2>4, <3>1
  <2>5. CASE UNCHANGED <<ui, lost>> /\ UNCHANGED url
    <3>1. There
      BY <1>p, <2>5 DEF There
    <3> QED
      BY <1>1, <2>1, <2>5, <3>1 DEF SamePlace
  <2> QED
    BY <2>2, <2>3, <2>4, <2>5
<1>7. CASE ReopenArrives
  <2> DEFINE l == [board |-> opening.board, picking |-> FALSE]
  <2>1. opening \in Load /\ opening.board \in Boards /\ ("target" \in late' \/ ~app.creating)
    BY <1>7, ReopenFacts
  <2>2. app' = Opened(opening.board, opening, FALSE) /\ ReplaceLocation(l) /\ opening' = NoLoad
    BY <1>7 DEF ReopenArrives, Show
  <2>3. app'.creating = app.creating /\ app'.current = opening.board
    BY <1>0, <2>2 DEF Opened, App
  <2>4. l \in Location /\ l.board = opening.board /\ ~l.picking
    BY <1>l, <2>1
  <2> HIDE DEF l
  <2> QED
    BY <1>5, <2>1, <2>2, <2>3, <2>4
<1>8. CASE CloseBoard
  <2>1. /\ app' = [Closed(app) EXCEPT !.picking = FALSE, !.creating = FALSE]
        /\ PushLocation(NoLocation) /\ opening' = NoLoad
    BY <1>8 DEF CloseBoard, Show, InvalidateAll
  <2>2. ~app'.creating /\ app'.current = NoBoard
    BY <1>0, <2>1 DEF Closed, App
  <2> QED
    BY <1>5, <1>l, <2>1, <2>2
<1>9. ASSUME NEW p \in DOMAIN entries, Popstate(p) PROVE PlaceInv'
  <2> DEFINE next == entries[p]
  <2>1. late' = late
    BY <1>9 DEF Popstate
  <2>2. CASE next = shown
    <3>1. UNCHANGED <<ui, lost, entries, shown>> /\ position' = p /\ opening' = NoLoad
      BY <1>9, <2>2 DEF Popstate, InvalidateAll
    <3>2. There
      BY <2>2, <3>1 DEF There
    <3> QED
      BY <1>1, <2>1, <3>1, <3>2 DEF SamePlace
  <2>3. CASE next # shown /\ next.board # NoBoard
    <3>1. UNCHANGED <<ui, lost, entries, shown>> /\ position' = p
      BY <1>9, <2>3 DEF Popstate
    <3>2. There
      BY <2>3, <3>1 DEF There
    <3> QED
      BY <1>1, <2>1, <3>1, <3>2 DEF SamePlace
  <2>4. CASE next # shown /\ next.board = NoBoard
    <3>1. /\ opening' = NoLoad
          /\ \/ /\ app' = [Closed(app) EXCEPT !.picking = FALSE, !.creating = FALSE]
                /\ position' = p /\ shown' = NoLocation
                /\ entries' = [entries EXCEPT ![p] = NoLocation]
             \/ /\ p < MaxHistory /\ entries' = Append(SubSeq(entries, 1, p), shown)
                /\ position' = p + 1 /\ UNCHANGED <<ui, lost, shown>>
      BY <1>9, <2>4 DEF Popstate, InvalidateAll, Show
    <3>2. CASE /\ app' = [Closed(app) EXCEPT !.picking = FALSE, !.creating = FALSE]
               /\ position' = p /\ shown' = NoLocation
               /\ entries' = [entries EXCEPT ![p] = NoLocation]
      <4>1. Noted
        <5>1. ~app'.creating /\ app'.current = NoBoard
          BY <1>0, <3>2 DEF Closed, App
        <5> QED
          BY <1>l, <3>2, <5>1 DEF Noted
      <4>2. There
        BY <1>l, <3>2 DEF There
      <4> QED
        BY <1>e, <1>q, <3>1, <4>1, <4>2
    <3>3. CASE /\ p < MaxHistory /\ entries' = Append(SubSeq(entries, 1, p), shown)
               /\ position' = p + 1 /\ UNCHANGED <<ui, lost, shown>>
      <4>1. entries'[position'] = shown
        BY <1>0, <3>3, HistoryGrows DEF HistoryAt
      <4>2. There
        BY <3>3, <4>1 DEF There
      <4> QED
        BY <1>1, <2>1, <3>1, <3>3, <4>2 DEF SamePlace
    <3> QED
      BY <3>1, <3>2, <3>3
  <2> QED
    BY <2>2, <2>3, <2>4
\* A board is being read and the place changes all the same.
<1>10. ASSUME NEW l \in Location, ReplaceLocation(l), opening' = opening, late' = late,
              "target" \notin late =>
                 /\ app'.creating => app'.current = NoBoard
                 /\ l.board = IF app'.creating THEN NoBoard ELSE app'.current
                 /\ l.picking => app'.picking
                 /\ l.board = shown.board
                 /\ Loading => (opening.here.picking => app'.picking)
       PROVE  PlaceInv'
  <2>1. shown' = l /\ entries'[position'] = l
    BY <1>10, <1>n
  <2> QED
    BY <1>10, <1>p, <1>q, <2>1 DEF Noted, There, Back, Loading
<1>11. CASE StartCreating
  <2>1. /\ app' = [Closed(app) EXCEPT !.creating = TRUE, !.picking = FALSE]
        /\ ReplaceLocation(NoLocation) /\ opening' = opening /\ late' = late
        /\ app.current = NoBoard /\ ~app.creating
    BY <1>0, <1>11, ScreenFacts DEF StartCreating, Show, OnList
  <2>2. app'.creating /\ app'.current = NoBoard
    BY <1>0, <2>1 DEF Closed, App
  <2>3. "target" \notin late => shown.board = NoBoard /\ (Loading => ~opening.here.picking)
    BY <1>h, <1>l, <1>p, <2>1
  <2> QED
    BY <1>10, <1>l, <2>1, <2>2, <2>3
<1>12. CASE BackToDialog
  <2>1. /\ app' = [app EXCEPT !.creating = FALSE] /\ UNCHANGED url /\ opening' = opening /\ late' = late
        /\ app.creating
    BY <1>0, <1>12, ScreenFacts DEF BackToDialog, Show, OnPicker
  <2>2. ~app'.creating /\ app'.current = app.current /\ app'.picking = app.picking
    BY <1>0, <2>1 DEF App
  <2>3. Noted /\ There /\ Back
    BY <1>p, <2>1, <2>2 DEF Noted, There, Back, Loading
  <2> QED
    BY <1>q, <2>3
<1>13. CASE StartPicking
  <2>1. PICK b \in Boards : /\ OnCanvas(b) /\ app' = [app EXCEPT !.picking = TRUE]
                            /\ ReplaceLocation([board |-> b, picking |-> TRUE])
    BY <1>13 DEF StartPicking, Show
  <2>2. opening' = opening /\ late' = late
    BY <1>13 DEF StartPicking
  <2>3. app.current = b /\ ~app.creating
    BY <1>0, <2>1, ScreenFacts DEF OnCanvas
  <2>4. ~app'.creating /\ app'.current = b /\ app'.picking
    BY <1>0, <2>1, <2>3 DEF App
  <2>5. "target" \notin late => shown.board = b
    BY <1>p, <2>3
  <2> DEFINE l == [board |-> b, picking |-> TRUE]
  <2>6. l \in Location /\ l.board = b
    BY <1>l
  <2>7. ReplaceLocation(l)
    BY <2>1
  <2> HIDE DEF l
  <2> QED
    BY <1>0, <1>10, <2>2, <2>4, <2>5, <2>6, <2>7
<1>14. ASSUME NEW c \in Calls, Logout(c) \/ DeleteArrives(c) PROVE PlaceInv'
  <2>1. /\ app' = Closed(app) /\ ReplaceLocation(NoLocation) /\ opening' = NoLoad
    BY <1>14 DEF Logout, DeleteArrives, Show, InvalidateAll
  <2>2. app'.current = NoBoard
    BY <1>0, <2>1 DEF Closed, App
  <2> QED
    BY <1>5, <1>l, <2>1, <2>2
<1>15. ASSUME NEW c \in Calls, CreateArrives(c) PROVE PlaceInv'
  <2>1. late' = late
    BY <1>15 DEF CreateArrives
  <2>2. CASE calls[c].overtaken
    <3>1. /\ app' = [app EXCEPT !.creating = FALSE] /\ UNCHANGED url /\ opening' = opening
      BY <1>15, <2>2 DEF CreateArrives, Show
    <3>2. ~app'.creating /\ app'.current = app.current /\ app'.picking = app.picking
      BY <1>0, <3>1 DEF App
    <3>3. Noted /\ There /\ Back
      BY <1>p, <2>1, <3>1, <3>2 DEF Noted, There, Back, Loading
    <3> QED
      BY <1>q, <3>3
  <2>3. CASE ~calls[c].overtaken
    <3> DEFINE b == calls[c].board
               l == [board |-> b, picking |-> FALSE]
    <3>1. /\ app' = [Opened(b, calls[c], app.picking) EXCEPT !.creating = FALSE]
          /\ PushLocation(l) /\ opening' = NoLoad
      BY <1>15, <2>3 DEF CreateArrives, Show, InvalidateAll
    <3>2. ~app'.creating /\ app'.current = b
      BY <1>0, <3>1 DEF Opened, App
    <3>3. b \in Boards
      BY <1>15 DEF CreateArrives, CallInv, CallsFit, TypeOK
    <3>4. l \in Location /\ l.board = b /\ ~l.picking
      BY <1>l, <3>3
    <3> HIDE DEF l, b
    <3> QED
      BY <1>5, <3>1, <3>2, <3>4
  <2> QED
    BY <2>2, <2>3
<1> QED
  BY <1>2, <1>3, <1>4, <1>6, <1>7, <1>8, <1>9, <1>11, <1>12, <1>13, <1>14, <1>15, ScreenSteps DEF ScreenChanges

-----------------------------------------------------------------------------
(* Boards that are being made *)

(* Another board gets onto the screen by three answers only. *)
LEMMA CurrentSteps ==
    ASSUME TypeOK, [Next]_vars
    PROVE  \/ app'.current = app.current /\ app'.version = app.version
           \/ app'.current = NoBoard
           \/ OpenArrives \/ ReopenArrives
           \/ \E c \in Calls : CreateArrives(c) /\ ~calls[c].overtaken
<1>0. app \in App
  BY DEF TypeOK
<1> USE DEF ui
<1>1. CASE ScreenStays
  BY <1>1 DEF ScreenStays
<1>2. CASE SessionArrives \/ Begin \/ CapabilitiesArrive \/ BackToDialog \/ StartPicking
  BY <1>0, <1>2 DEF SessionArrives, Begin, CapabilitiesArrive, BackToDialog, StartPicking, Show, App
<1>3. CASE CloseBoard \/ StartCreating \/ \E p \in DOMAIN entries : Popstate(p)
  BY <1>0, <1>3 DEF CloseBoard, StartCreating, Popstate, Show, Closed, App
<1>4. ASSUME NEW c \in Calls, Logout(c) \/ DeleteArrives(c) PROVE app'.current = NoBoard
  BY <1>0, <1>4 DEF Logout, DeleteArrives, Show, Closed, App
<1>5. ASSUME NEW c \in Calls, SessionIsReread(c) \/ LogoutArrives(c) \/ ReplaceArrives(c)
      PROVE  app'.current = app.current /\ app'.version = app.version
  BY <1>0, <1>5 DEF SessionIsReread, LogoutArrives, ReplaceSession, ReplaceArrives, ReplacedVersion, Show, App
<1>6. ASSUME NEW c \in Calls, CreateArrives(c), calls[c].overtaken PROVE app'.current = app.current /\ app'.version = app.version
  BY <1>0, <1>6 DEF CreateArrives, Show, App
<1> QED
  BY <1>1, <1>2, <1>3, <1>4, <1>5, <1>6, ScreenSteps DEF ScreenChanges

(* What was applied too late is remembered. *)
LEMMA LateGrows ==
    ASSUME TypeOK, BeginsFirst, [Next]_vars
    PROVE  late \subseteq late'
  BY ScreenSteps, ChangesRender DEF ScreenStays

(* Opening a board overtakes the ones that are being made. *)
LEMMA CreationsWaitKept ==
    ASSUME TypeOK, CallInv, BeginsFirst, PlaceInv, CreationsWait, [Next]_vars
    PROVE  CreationsWait'
<1>0. app \in App /\ calls \in [Calls -> Call \cup {Idle}]
  BY DEF TypeOK
<1> SUFFICES ASSUME "target" \notin late', NEW d \in Calls, calls'[d].kind = "create", ~calls'[d].overtaken
             PROVE  app'.current = NoBoard
  BY DEF CreationsWait
<1>1. "target" \notin late
  BY LateGrows
<1>2. calls[d].kind = "create" /\ ~calls[d].overtaken => app.current = NoBoard
  BY <1>1 DEF CreationsWait
<1>3. app.current = NoBoard
  <2>1. CASE calls'[d] = calls[d]
    BY <1>2, <2>1
  <2>2. CASE AfterGeneration(d)
    <3>1. calls'[d].kind = calls[d].kind /\ (calls[d].kind = "create" => calls'[d].overtaken)
      BY <1>0, <2>2, OvertakenFacts DEF AfterGeneration
    <3> QED
      BY <3>1
  <2>3. CASE calls'[d] = Idle
    BY <2>3 DEF Idle
  <2>4. ASSUME NEW kind \in CallKinds, NEW b \in Boards \cup {NoBoard}, Begins(d, kind, b)
        PROVE  app.current = NoBoard
    <3>1. OnList \/ OnPicker(NoBoard)
      BY <2>4 DEF Begins, NewCall
    <3>2. CASE OnList
      BY <1>0, <3>2, ScreenFacts DEF OnList
    <3>3. CASE OnPicker(NoBoard)
      BY <1>0, <1>1, <3>3, ScreenFacts DEF OnPicker, PlaceInv, PlaceIsNoted
    <3> QED
      BY <3>1, <3>2, <3>3
  <2>5. CASE calls[d].kind = "setTarget" /\ calls'[d] = NewCall("reopen", calls[d].board)
    BY <2>5 DEF NewCall
  <2>6. CASE ServeCall(d)
    BY <1>2, <2>6, ServedFacts
  <2> QED
    BY <2>1, <2>2, <2>3, <2>4, <2>5, <2>6, CallSteps DEF CallStep, CallInv
<1>4. CASE OpenArrives \/ ReopenArrives
  <2>1. Loading /\ \A c \in Calls : calls[c].kind = "create" => calls[c].overtaken
    <3>1. Loading
      BY <1>4 DEF OpenArrives, ReopenArrives, Loading
    <3>2. opening.by \in Calls => calls[opening.by].kind = "reopen"
      BY <3>1, NavigationAssumption DEF CallInv, LoadOfCall
    <3> QED
      BY <3>1, <3>2 DEF CallInv, LoadIsLatest
  <2>2. calls' = calls \/ \E c \in Calls : calls' = Put(c, Idle)
    BY <1>0, <1>4 DEF OpenArrives, ReopenArrives, EndOf, TypeOK, Load
  <2>3. calls'[d] = calls[d]
    <3>1. ASSUME NEW c \in Calls, calls' = Put(c, Idle) PROVE calls'[d] = calls[d]
      BY <1>0, <3>1 DEF Put, Idle
    <3> QED
      BY <2>2, <3>1
  <2> QED
    BY <2>1, <2>3
<1>5. ASSUME NEW c \in Calls, CreateArrives(c), ~calls[c].overtaken PROVE FALSE
  <2>1. calls' = Overtaken(Put(c, Idle)) /\ Put(c, Idle) \in [Calls -> Call \cup {Idle}]
    BY <1>5, PutTypes DEF CreateArrives, InvalidateAll
  <2> QED
    BY <2>1, OvertakenFacts
<1> QED
  BY <1>3, <1>4, <1>5, CurrentSteps

-----------------------------------------------------------------------------
(* Targets *)

(* Where the screen has from that a board has a target. *)
ToldOfTarget ==
    \/ app.targeted /\ app'.current = app.current
    \/ Loading /\ opening.targeted /\ app'.current = opening.board
    \/ \E c \in Calls : /\ calls[c].kind \in {"create", "replace"} /\ calls[c].targeted
                        /\ app'.current = calls[c].board

(* The screen has it from itself, from a load or from a call that a board has a
   target; GitHub does not come to be set up. *)
LEMMA TargetSteps ==
    ASSUME TypeOK, CallsFit, [Next]_vars
    PROVE  /\ app'.targeted => ToldOfTarget
           /\ app'.choosesTarget => app.choosesTarget
<1>0. app \in App /\ opening \in Load \cup {NoLoad} /\ calls \in [Calls -> Call \cup {Idle}]
  BY DEF TypeOK
<1> USE DEF ui
<1> DEFINE Says == (app'.targeted => ToldOfTarget) /\ (app'.choosesTarget => app.choosesTarget)
<1>a. app' = app => Says
  BY DEF ToldOfTarget
<1>1. CASE ScreenStays
  BY <1>1, <1>a DEF ScreenStays
<1>2. CASE SessionArrives \/ Begin \/ CapabilitiesArrive \/ BackToDialog \/ StartPicking
  BY <1>0, <1>2 DEF SessionArrives, Begin, CapabilitiesArrive, BackToDialog, StartPicking, Show, App, ToldOfTarget
<1>3. CASE CloseBoard \/ StartCreating \/ \E p \in DOMAIN entries : Popstate(p)
  <2>1. app' = app \/ (app'.choosesTarget = app.choosesTarget /\ ~app'.targeted)
    BY <1>0, <1>3 DEF CloseBoard, StartCreating, Popstate, Show, Closed, App
  <2> QED
    BY <1>a, <2>1
<1>4. ASSUME NEW c \in Calls, Logout(c) \/ DeleteArrives(c) PROVE Says
  <2>1. app'.choosesTarget = app.choosesTarget /\ ~app'.targeted
    BY <1>0, <1>4 DEF Logout, DeleteArrives, Show, Closed, App
  <2> QED
    BY <2>1
<1>5. ASSUME NEW c \in Calls, SessionIsReread(c) \/ LogoutArrives(c) PROVE Says
  BY <1>0, <1>5 DEF SessionIsReread, LogoutArrives, ReplaceSession, Show, App, ToldOfTarget
<1>6. ASSUME NEW c \in Calls, ReplaceArrives(c) PROVE Says
  <2>1. CASE app.current = calls[c].board
    <3>1. /\ calls[c].kind = "replace" /\ app'.choosesTarget = app.choosesTarget
          /\ app'.current = app.current /\ app'.targeted = calls[c].targeted
      BY <1>0, <1>6, <2>1 DEF ReplaceArrives, Show, App
    <3> QED
      BY <2>1, <3>1 DEF ToldOfTarget
  <2>2. CASE app.current # calls[c].board
    BY <1>6, <1>a, <2>2 DEF ReplaceArrives
  <2> QED
    BY <2>1, <2>2
<1>7. ASSUME NEW c \in Calls, CreateArrives(c) PROVE Says
  <2>1. CASE calls[c].overtaken
    BY <1>0, <1>7, <2>1 DEF CreateArrives, Show, App, ToldOfTarget
  <2>2. CASE ~calls[c].overtaken
    <3>1. /\ calls[c].kind = "create" /\ app'.choosesTarget = app.choosesTarget
          /\ app'.current = calls[c].board /\ app'.targeted = calls[c].targeted
      BY <1>0, <1>7, <2>2 DEF CreateArrives, Show, Opened, App
    <3> QED
      BY <3>1 DEF ToldOfTarget
  <2> QED
    BY <2>1, <2>2
<1>8. CASE OpenArrives \/ ReopenArrives
  <2>1. \/ app' = app
        \/ /\ Loading /\ app'.choosesTarget = app.choosesTarget
           /\ app'.current = opening.board /\ app'.targeted = opening.targeted
    BY <1>0, <1>8 DEF OpenArrives, ReopenArrives, Show, Opened, App, Loading
  <2> QED
    BY <1>a, <2>1 DEF ToldOfTarget
<1> QED
  BY <1>1, <1>2, <1>3, <1>4, <1>5, <1>6, <1>7, <1>8, ScreenSteps DEF ScreenChanges

(* The server takes no target away, so what was told of one stays true. *)
LEMMA TargetsKept ==
    ASSUME TypeOK, CallsFit, TargetInv, [Next]_vars
    PROVE  TargetInv'
<1>0. /\ app \in App /\ opening \in Load \cup {NoLoad} /\ calls \in [Calls -> Call \cup {Idle}]
      /\ \A b \in Boards : targeted[b] => b \in made
  BY DEF TypeOK, TargetInv, TargetsTold
<1>g. \A b \in Boards : targeted[b] => targeted'[b]
  BY <1>0, ServerGrows
<1>1. \A b \in Boards : targeted'[b] => b \in made'
  BY <1>0, ServerGrows
<1>c. \A c \in Calls : calls[c].kind # "idle" /\ calls[c].targeted =>
          calls[c].board \in Boards /\ targeted[calls[c].board]
  BY DEF TargetInv, TargetsTold
<1>2. ASSUME app'.targeted PROVE app'.current \in Boards /\ targeted'[app'.current]
  <2>1. CASE app.targeted /\ app'.current = app.current
    BY <1>g, <2>1 DEF TargetInv, TargetsTold
  <2>2. CASE Loading /\ opening.targeted /\ app'.current = opening.board
    BY <1>0, <1>g, <2>2 DEF TargetInv, TargetsTold, Loading, Load
  <2>3. ASSUME NEW c \in Calls, calls[c].kind \in {"create", "replace"}, calls[c].targeted,
               app'.current = calls[c].board
        PROVE  app'.current \in Boards /\ targeted'[app'.current]
    BY <1>c, <1>g, <2>3
  <2> QED
    BY <1>2, <2>1, <2>2, <2>3, TargetSteps DEF ToldOfTarget
<1>3. ASSUME Loading', opening'.targeted PROVE targeted'[opening'.board]
  <2>1. CASE Loading /\ opening' = opening
    BY <1>0, <1>3, <1>g, <2>1 DEF TargetInv, TargetsTold, Loading, Load
  <2>2. CASE ServeLoad
    <3>1. opening \in Load /\ opening'.targeted = targeted[opening.board] /\ opening'.board = opening.board
          /\ opening.board \in Boards
      BY <1>0, <2>2 DEF ServeLoad, Load
    <3> QED
      BY <1>3, <1>g, <3>1
  <2> QED
    BY <1>3, <2>1, <2>2, LoadSteps DEF SameLoad
<1>4. ASSUME NEW c \in Calls
      PROVE  /\ calls'[c].kind # "idle" /\ calls'[c].targeted =>
                    calls'[c].board \in Boards /\ targeted'[calls'[c].board]
             /\ calls'[c].kind = "replace" /\ app'.choosesTarget =>
                    /\ targeted'[calls'[c].board]
                    /\ calls'[c].state = "served" => calls'[c].targeted
  <2>r. /\ app'.choosesTarget => app.choosesTarget
        /\ calls[c].kind = "replace" => calls[c].board \in Boards
        /\ calls[c].kind = "replace" /\ app.choosesTarget =>
              targeted[calls[c].board] /\ (calls[c].state = "served" => calls[c].targeted)
    BY TargetSteps DEF CallsFit, TargetInv, ReplacedHasTarget
  <2>1. CASE calls'[c] = calls[c]
    BY <1>c, <1>g, <2>1, <2>r
  <2>2. CASE AfterGeneration(c)
    <3>1. /\ calls'[c].kind = calls[c].kind
          /\ calls[c].kind # "idle" => /\ calls'[c].board = calls[c].board /\ calls'[c].state = calls[c].state
                                       /\ calls'[c].targeted = calls[c].targeted
      BY <1>0, <2>2, OvertakenFacts DEF AfterGeneration
    <3> QED
      BY <1>c, <1>g, <2>r, <3>1
  <2>3. CASE calls'[c] = Idle
    BY <2>3 DEF Idle
  <2>4. ASSUME NEW kind \in CallKinds, NEW b \in Boards \cup {NoBoard}, Begins(c, kind, b)
        PROVE  /\ ~calls'[c].targeted /\ calls'[c].state = "sent"
               /\ calls'[c].kind = "replace" /\ app'.choosesTarget => targeted'[calls'[c].board]
    <3>1. calls'[c].kind = kind /\ calls'[c].board = b /\ ~calls'[c].targeted /\ calls'[c].state = "sent"
      BY <2>4 DEF Begins, NewCall
    <3>2. ASSUME kind = "replace", app.choosesTarget PROVE targeted[b] /\ b \in Boards
      <4>1. OnCanvas(b) /\ b \in Boards
        BY <2>4, <3>2 DEF Begins
      <4>2. app.current = b /\ app.targeted
        BY <1>0, <3>2, <4>1, ScreenFacts DEF OnCanvas
      <4> QED
        BY <4>1, <4>2 DEF TargetInv, TargetsTold
    <3> QED
      BY <1>g, <2>r, <3>1, <3>2
  <2>5. CASE calls[c].kind = "setTarget" /\ calls'[c] = NewCall("reopen", calls[c].board)
    BY <2>5 DEF NewCall
  <2>6. CASE ServeCall(c)
    <3>1. CASE calls[c].kind # "logout"
      BY <1>g, <2>6, <2>r, <3>1, ServedFacts
    <3>2. CASE calls[c].kind = "logout"
      <4>1. calls'[c].kind = "logout" /\ calls'[c].board = calls[c].board /\ calls'[c].targeted = calls[c].targeted
        BY <2>6, <3>2, ServedFacts
      <4> QED
        BY <1>c, <1>g, <3>2, <4>1
    <3> QED
      BY <3>1, <3>2
  <2> QED
    BY <2>1, <2>2, <2>3, <2>4, <2>5, <2>6, CallSteps DEF CallStep
<1> QED
  BY <1>1, <1>2, <1>3, <1>4 DEF TargetInv, TargetsTold, ReplacedHasTarget

-----------------------------------------------------------------------------
(* Boards that are deleted *)

(* Lists are read, and boards are told to be gone. *)
ListStep ==
    /\ gone' = gone
    /\ listing' = listing \/ ServeList \/ listing'.boards = {}
    /\ listed' = listed \/ listed' = Unread \/ listed'.boards = listing.boards

(* Boards are told to be gone by one answer; lists come from the server or are dropped. *)
LEMMA ListSteps ==
    ASSUME TypeOK, [Next]_vars
    PROVE  ListStep \/ \E c \in Calls : DeleteArrives(c)
<1> USE DEF ui, url, server, notes, NoListing, ListStep, NoteUrl
<1>1. CASE \/ SessionArrives \/ ServeList \/ ServeLoad \/ LoadFails
           \/ OpenArrives \/ ReopenArrives \/ (\E b \in Boards : Open(b))
  BY <1>1 DEF SessionArrives, ServeLoad, LoadFails, OpenArrives, ReopenArrives, Open, ServeList
<1>5. CASE Begin \/ CapabilitiesArrive \/ ListFails \/ CloseBoard
  <2>1. gone' = gone /\ listed' = listed /\ (listing' = listing \/ Reload \/ listing' = NoListing)
    BY <1>5 DEF Begin, CapabilitiesArrive, ListFails, CloseBoard
  <2> QED
    BY <2>1 DEF Reload
<1>6. ASSUME NEW p \in DOMAIN entries, Popstate(p) PROVE ListStep
  <2>1. gone' = gone /\ listed' = listed /\ (listing' = listing \/ Reload)
    BY <1>6 DEF Popstate
  <2> QED
    BY <2>1 DEF Reload
<1>2. CASE ListArrives
  BY <1>2 DEF ListArrives
<1>3. CASE OpenDialog \/ SetName \/ CancelDialog \/ StartCreating \/ BackToDialog
           \/ StartPicking \/ CancelPicking \/ CancelDeletion \/ Draw \/ Save \/ AtLogin \/ UNCHANGED vars
           \/ \E b \in Boards : OthersSave(b) \/ Lock(b)
  BY <1>3 DEF OpenDialog, SetName, CancelDialog, StartCreating, BackToDialog, StartPicking, CancelPicking,
     CancelDeletion, Draw, Save, AtLogin, OthersSave, Lock, vars
<1>4. ASSUME NEW c \in Calls,
             \/ CreateWithTarget(c) \/ CreateWithoutTarget(c) \/ CreateFails(c) \/ ChangeTarget(c)
             \/ SetTargetArrives(c) \/ SetTargetEnds(c) \/ AskDeletion(c) \/ DeletionArrives(c)
             \/ ConfirmDeletion(c) \/ DeleteFails(c) \/ Replace(c) \/ ReplaceFails(c) \/ ServeCall(c)
      PROVE  ListStep
  BY <1>4 DEF CreateWithTarget, CreateWithoutTarget, CreateFails, ChangeTarget, SetTargetArrives,
     SetTargetEnds, AskDeletion, DeletionArrives, ConfirmDeletion, DeleteFails, Replace, ReplaceFails, ServeCall
<1>7. ASSUME NEW c \in Calls,
             SessionIsReread(c) \/ Logout(c) \/ LogoutArrives(c) \/ CreateArrives(c) \/ ReplaceArrives(c)
      PROVE  ListStep
  <2>1. /\ gone' = gone /\ (listed' = listed \/ listed' = Unread)
        /\ listing' = listing \/ Reload \/ listing' = NoListing
    BY <1>7 DEF SessionIsReread, Logout, LogoutArrives, CreateArrives, ReplaceArrives
  <2> QED
    BY <2>1 DEF Reload
<1> QED
  BY <1>1, <1>2, <1>3, <1>4, <1>5, <1>6, <1>7 DEF Next

(* The answer that tells of a deletion overtakes all that could show the board again. *)
LEMMA GoneKept ==
    ASSUME TypeOK, CallsFit, GoneInv, [Next]_vars
    PROVE  GoneInv'
<1>0. /\ app \in App /\ opening \in Load \cup {NoLoad} /\ calls \in [Calls -> Call \cup {Idle}]
      /\ gone \subseteq removed /\ removed \subseteq made /\ made \subseteq Boards /\ NoBoard \notin Boards
      /\ removed \subseteq removed' /\ listing.boards \cap gone = {}
      /\ app.current \notin gone /\ listed.boards \cap gone = {}
  BY NavigationAssumption, ServerGrows DEF TypeOK, GoneInv, DeletedInNoAnswer, DeletedStaysAway
<1>c. \A c \in Calls : calls[c].kind = "create" /\ calls[c].state = "served" /\ ~calls[c].overtaken =>
          calls[c].board \notin gone
  BY DEF GoneInv, DeletedInNoAnswer
<1>1. ASSUME NEW c \in Calls, DeleteArrives(c) PROVE GoneInv'
  <2>1. /\ calls[c].board \in removed /\ gone' = gone \cup {calls[c].board}
        /\ listing'.boards = {} /\ opening' = NoLoad /\ app' = Closed(app)
        /\ calls' = Overtaken(Put(c, Idle)) /\ Put(c, Idle) \in [Calls -> Call \cup {Idle}]
        /\ listed' = [listed EXCEPT !.boards = listed.boards \ {calls[c].board}]
    BY <1>1, PutTypes DEF DeleteArrives, CallsFit, InvalidateAll, Reload, Show
  <2>2. gone' \subseteq removed' /\ listing'.boards \cap gone' = {} /\ ~Loading'
    BY <1>0, <2>1 DEF Loading
  <2>3. \A d \in Calls : calls'[d].kind = "create" => calls'[d].overtaken
    BY <2>1, OvertakenFacts
  <2>4. app'.current = NoBoard
    BY <1>0, <2>1 DEF Closed, App
  <2>5. listed'.boards = listed.boards \ {calls[c].board}
    BY <2>1 DEF TypeOK
  <2>6. app'.current \notin gone' /\ listed'.boards \cap gone' = {}
    BY <1>0, <2>1, <2>4, <2>5
  <2> QED
    BY <2>2, <2>3, <2>6 DEF GoneInv, DeletedInNoAnswer, DeletedStaysAway
<1>2. CASE ListStep
  <2>1. gone' = gone /\ gone' \subseteq removed'
    BY <1>0, <1>2 DEF ListStep
  <2>2. listing'.boards \cap gone' = {} /\ listed'.boards \cap gone' = {}
    <3>1. ServeList => listing'.boards = Exists
      BY DEF ServeList
    <3> QED
      BY <1>0, <1>2, <2>1, <3>1 DEF ListStep, Exists, Unread
  <2>3. ASSUME Loading', opening'.state = "served" PROVE opening'.board \notin gone'
    <3>1. CASE Loading /\ opening' = opening
      BY <2>1, <2>3, <3>1 DEF GoneInv, DeletedInNoAnswer
    <3>2. CASE ServeLoad
      <4>1. opening \in Load /\ opening'.board = opening.board /\ opening.board \in Exists
        BY <1>0, <3>2 DEF ServeLoad, Load
      <4> QED
        BY <1>0, <2>1, <4>1 DEF Exists
    <3> QED
      BY <2>3, <3>1, <3>2, LoadSteps DEF SameLoad
  <2>4. ASSUME NEW d \in Calls, calls'[d].kind = "create", calls'[d].state = "served", ~calls'[d].overtaken
        PROVE  calls'[d].board \notin gone'
    <3>1. CASE calls'[d] = calls[d]
      BY <1>c, <2>1, <2>4, <3>1
    <3>2. CASE AfterGeneration(d)
      BY <1>0, <2>4, <3>2, OvertakenFacts DEF AfterGeneration
    <3>3. CASE calls'[d] = Idle
      BY <2>4, <3>3 DEF Idle
    <3>4. ASSUME NEW kind \in CallKinds, NEW b \in Boards \cup {NoBoard}, Begins(d, kind, b) PROVE FALSE
      BY <2>4, <3>4 DEF Begins, NewCall
    <3>5. ~(calls[d].kind = "setTarget" /\ calls'[d] = NewCall("reopen", calls[d].board))
      BY <2>4 DEF NewCall
    <3>6. CASE ServeCall(d)
      <4>1. calls'[d].board \notin made
        BY <2>4, <3>6, ServedFacts
      <4> QED
        BY <1>0, <2>1, <4>1
    <3> QED
      BY <3>1, <3>2, <3>3, <3>4, <3>5, <3>6, CallSteps DEF CallStep
  <2>5. app'.current \notin gone'
    <3>1. CASE app'.current = app.current \/ app'.current = NoBoard
      BY <1>0, <2>1, <3>1
    <3>2. CASE OpenArrives \/ ReopenArrives
      <4>1. opening # NoLoad /\ opening.state = "served" /\ app'.current \in {app.current, opening.board}
        BY <1>0, <3>2 DEF OpenArrives, ReopenArrives, Show, Opened, App, ui
      <4>2. opening.board \notin gone
        BY <4>1 DEF GoneInv, DeletedInNoAnswer, Loading
      <4> QED
        BY <1>0, <2>1, <4>1, <4>2
    <3>3. ASSUME NEW c \in Calls, CreateArrives(c), ~calls[c].overtaken PROVE app'.current \notin gone'
      <4>1. calls[c].kind = "create" /\ calls[c].state = "served" /\ app'.current = calls[c].board
        BY <1>0, <3>3 DEF CreateArrives, Show, Opened, App
      <4> QED
        BY <1>c, <2>1, <3>3, <4>1
    <3> QED
      BY <3>1, <3>2, <3>3, CurrentSteps
  <2> QED
    BY <2>1, <2>2, <2>3, <2>4, <2>5 DEF GoneInv, DeletedInNoAnswer, DeletedStaysAway
<1> QED
  BY <1>1, <1>2, ListSteps

-----------------------------------------------------------------------------
(* Edits and saves *)

(* Edits are lost only by the four answers that ask nothing and find a canvas they were
   not sent from: the others ask, find no canvas, or leave the one that is there. *)
LEMMA LostKept ==
    ASSUME TypeOK, CallInv, BeginsFirst, CancelStaysHere, EditsOnCanvas, TargetingOnScreen, CreationsWait,
           TargetInv, PlaceInv, NothingLost, [Next]_vars
    PROVE  NothingLost'
<1>0. app \in App /\ late \subseteq late' /\ (lost => late' \cap {"delete", "target", "logout", "session"} # {})
      /\ (unsaved => Screen(app) \in Canvases)
  BY LateGrows DEF TypeOK, NothingLost, EditsOnCanvas
<1> SUFFICES ASSUME lost', ~lost PROVE late' \cap {"delete", "target", "logout", "session"} # {}
  BY <1>0 DEF NothingLost
<1>1. ~ScreenStays /\ ~SessionArrives /\ ~Renders(TRUE)
  BY DEF ScreenStays, SessionArrives, Renders, notes
<1>2. unsaved /\ Screen(app') # Screen(app)
  BY <1>1, ScreenSteps, ChangesRender DEF Renders, SessionArrives, notes
<1>3. Screen(app) \in Canvases /\ ~app.creating /\ ~app.picking /\ app.current \in Boards
      /\ Screen(app) = <<"canvas", app.current>> /\ (app.targeted \/ ~app.choosesTarget)
  BY <1>0, <1>2, ScreenFacts
<1>4. CASE ReopenArrives
  BY <1>0, <1>3, <1>4, ReopenFacts
<1>5. CASE StartPicking
  BY <1>2, <1>5 DEF StartPicking
<1>6. ASSUME NEW c \in Calls, CreateArrives(c) PROVE "target" \in late'
  <2>1. CASE calls[c].overtaken
    <3>1. app' = [app EXCEPT !.creating = FALSE]
      BY <1>6, <2>1 DEF CreateArrives, Show
    <3>2. app' = app
      BY <1>0, <1>3, <3>1 DEF App
    <3> QED
      BY <1>2, <3>2
  <2>2. CASE ~calls[c].overtaken
    <3>1. calls[c].kind = "create"
      BY <1>6 DEF CreateArrives
    <3>2. "target" \in late
      BY <1>3, <2>2, <3>1, NavigationAssumption DEF CreationsWait
    <3> QED
      BY <1>0, <3>2
  <2> QED
    BY <2>1, <2>2
<1>7. ASSUME NEW c \in Calls, DeleteArrives(c) PROVE "delete" \in late'
  <2>1. CASE c \in mine
    <3>1. Show(Closed(app), TRUE, mine \ {c})
      BY <1>7, <2>1 DEF DeleteArrives, Show
    <3> QED
      BY <1>1, <3>1, ShowRenders
  <2>2. CASE c \notin mine
    BY <1>7, <2>2 DEF DeleteArrives
  <2> QED
    BY <2>1, <2>2
<1>8. ASSUME NEW c \in Calls, ReplaceArrives(c) PROVE FALSE
  <2>1. calls[c].kind = "replace" /\ calls[c].state = "served"
    BY <1>8 DEF ReplaceArrives
  <2>2. app.choosesTarget => calls[c].targeted
    BY <2>1 DEF TargetInv, ReplacedHasTarget
  <2>3. \/ app' = app
        \/ app' = [app EXCEPT !.version = ReplacedVersion(calls[c].version),
                              !.targeted = calls[c].targeted, !.fixed = calls[c].fixed]
    BY <1>8 DEF ReplaceArrives, Show, ui
  <2>4. Screen(app') = Screen(app)
    BY <1>0, <1>3, <2>2, <2>3 DEF Screen, App
  <2> QED
    BY <1>2, <2>4
<1>9. ASSUME NEW c \in Calls, SessionIsReread(c) \/ LogoutArrives(c)
      PROVE  late' \cap {"logout", "session"} # {}
  <2>1. UNCHANGED <<ui, lost>> \/ \E s \in {"in", "out"}, reason \in {"logout", "session"} : ReplaceSession(s, reason)
    BY <1>9 DEF SessionIsReread, LogoutArrives
  <2>2. PICK s \in {"in", "out"}, reason \in {"logout", "session"} : ReplaceSession(s, reason)
    BY <1>2, <2>1 DEF ui
  <2>3. CASE s = "out"
    BY <1>3, <2>2, <2>3 DEF ReplaceSession
  <2>4. CASE s = "in"
    <3>1. app' = [app EXCEPT !.session = "in"]
      BY <2>2, <2>4 DEF ReplaceSession, Show
    <3>2. /\ app' \in App /\ app'.session = "in" /\ ~app'.creating /\ app'.current = app.current
          /\ ~app'.picking /\ (app'.targeted \/ ~app'.choosesTarget)
      BY <1>0, <1>3, <3>1 DEF App
    <3>3. Screen(app') = Screen(app)
      BY <1>3, <3>2, ScreenFacts
    <3> QED
      BY <1>2, <3>3
  <2> QED
    BY <2>3, <2>4
<1>10. CASE CapabilitiesArrive
  <2>1. app' = [app EXCEPT !.choosesTarget = FALSE] /\ app.session = "in"
    BY <1>10 DEF CapabilitiesArrive, Show
  <2>2. /\ app' \in App /\ app'.session = "in" /\ ~app'.creating /\ app'.current = app.current
        /\ ~app'.picking /\ ~app'.choosesTarget
    BY <1>0, <1>3, <2>1 DEF App
  <2>3. Screen(app') = Screen(app)
    BY <1>3, <2>2, ScreenFacts
  <2> QED
    BY <1>2, <2>3
<1>11. CASE BackToDialog
  BY <1>0, <1>3, <1>11, ScreenFacts DEF BackToDialog, OnPicker
<1> QED
  BY <1>1, <1>4, <1>5, <1>6, <1>7, <1>8, <1>9, <1>10, <1>11, ScreenSteps, ChangesRender

(* A canvas that stays takes no other version, but by an answer noted as late. *)
LEMMA SeenKept ==
    ASSUME TypeOK, CallInv, BeginsFirst, CancelStaysHere, TargetingOnScreen, CreationsWait,
           SavesWhatIsSeen, [Next]_vars
    PROVE  SavesWhatIsSeen'
<1>0. app \in App /\ app' \in App /\ late \subseteq late' /\ NoBoard \notin Boards
  BY TypesKept, LateGrows, NavigationAssumption DEF TypeOK, CallInv
<1> SUFFICES ASSUME Screen(app') \in Canvases, late' \cap {"target", "again"} = {}
             PROVE  base' = drawnOn'
  BY DEF SavesWhatIsSeen
<1>1. Screen(app) \in Canvases => base = drawnOn
  BY <1>0 DEF SavesWhatIsSeen
<1>c. app'.current \in Boards
  BY <1>0, ScreenFacts
<1>2. CASE ScreenStays
  BY <1>1, <1>2 DEF ScreenStays, Draw, Save
<1>3. CASE SessionArrives
  <2>1. app'.current = NoBoard
    BY <1>0, <1>3 DEF SessionArrives, BeginsFirst, App
  <2> QED
    BY <1>0, <1>c, <2>1
<1>4. CASE ScreenChanges /\ ~SessionArrives
  <2>1. SUFFICES ASSUME Screen(app') = Screen(app), drawnOn' = drawnOn,
                        app'.version = app.version => base' = base
                 PROVE  base' = drawnOn'
    BY <1>4, ChangesRender DEF Renders
  <2>2. Screen(app) \in Canvases /\ app.current \in Boards
    BY <1>0, <2>1, ScreenFacts
  <2>3. CASE app'.version = app.version
    BY <1>1, <2>1, <2>2, <2>3
  <2>4. CASE OpenArrives
    <3>1. app' = app \/ app'.version = app.version
      BY <1>4, <2>1, <2>4 DEF OpenArrives
    <3> QED
      BY <2>3, <3>1
  <2>5. CASE ReopenArrives
    BY <2>2, <2>5, ReopenFacts
  <2>6. ASSUME NEW c \in Calls, CreateArrives(c), ~calls[c].overtaken PROVE FALSE
    <3>1. calls[c].kind = "create" /\ "target" \notin late
      BY <1>0, <2>6 DEF CreateArrives
    <3> QED
      BY <1>0, <2>2, <2>6, <3>1 DEF CreationsWait
  <2> QED
    BY <1>0, <1>c, <2>3, <2>4, <2>5, <2>6, CurrentSteps
<1> QED
  BY <1>2, <1>3, <1>4, ScreenSteps

-----------------------------------------------------------------------------
(* The URL *)

(* Where a board is opened none is, until it is read. *)
LEMMA OpensKept ==
    ASSUME TypeOK, BeginsFirst, OpensWhereNoneIs, [Next]_vars
    PROVE  OpensWhereNoneIs'
<1>0. app \in App
  BY DEF TypeOK
<1> SUFFICES ASSUME Loading', opening'.kind = "open" PROVE app'.current = NoBoard
  BY DEF OpensWhereNoneIs
<1>1. CASE SameLoad
  <2>1. app.current = NoBoard
    BY <1>1 DEF SameLoad, OpensWhereNoneIs
  <2>2. ~OpenArrives /\ ~ReopenArrives
    BY DEF OpenArrives, ReopenArrives, Loading
  <2>3. \A c \in Calls : CreateArrives(c) => calls[c].overtaken
    BY DEF CreateArrives, InvalidateAll, Loading
  <2> QED
    BY <2>1, <2>2, <2>3, CurrentSteps
<1>2. CASE Begin
  BY <1>0, <1>2 DEF Begin, BeginsFirst, App
<1>3. CASE \E b \in Boards : Open(b)
  BY <1>0, <1>3, ScreenFacts DEF Open, OnList, ui
<1> QED
  BY <1>1, <1>2, <1>3, LoadSteps

(* A place that is noted is the URL. *)
LEMMA NotedFits ==
    ASSUME TypeOK, NEW l \in Location, PushLocation(l) \/ ReplaceLocation(l)
    PROVE  UrlFits'
  BY LocationNoted DEF HistoryAt, UrlFits

(* Closing, going back and failing each note the place, and so does an answer. *)
LEMMA PlacesNoted ==
    ASSUME TypeOK, CallsFit, EditsOnCanvas, OpensWhereNoneIs,
           \/ LoadFails \/ OpenArrives \/ ReopenArrives \/ CloseBoard \/ StartCreating \/ StartPicking
           \/ \E c \in Calls : \/ Logout(c) \/ DeleteArrives(c)
                               \/ (CreateArrives(c) /\ ~calls[c].overtaken)
    PROVE  UrlFits'
<1>0. app \in App /\ shown \in Location /\ made \subseteq Boards
  BY DEF TypeOK
<1>l. NoLocation \in Location /\ \A b \in Boards, p \in BOOLEAN : [board |-> b, picking |-> p] \in Location
  BY DEF NoLocation, Location
<1>1. CASE LoadFails \/ CloseBoard \/ StartCreating \/ StartPicking \/ \E c \in Calls : Logout(c) \/ DeleteArrives(c)
  <2>1. \E l \in Location : PushLocation(l) \/ ReplaceLocation(l)
    BY <1>0, <1>1, <1>l DEF LoadFails, CloseBoard, StartCreating, StartPicking, Logout, DeleteArrives
  <2> QED
    BY <2>1, NotedFits
<1>2. CASE OpenArrives \/ ReopenArrives
  <2>1. opening \in Load /\ opening.board \in Boards /\ opening.here \in Location /\ Loading
        /\ opening.picking \in BOOLEAN /\ opening.fixed \in BOOLEAN
    BY <1>2 DEF OpenArrives, ReopenArrives, TypeOK, Load, Loading
  <2>2. CASE ReopenArrives
    BY <1>l, <2>1, <2>2, NotedFits DEF ReopenArrives
  <2>3. CASE OpenArrives
    <3> DEFINE p == opening.picking /\ CanOpenTargetPicker(opening)
    <3>1. p \in BOOLEAN
      BY <2>1 DEF CanOpenTargetPicker
    <3>2. CASE unsaved /\ opening.kind = "open"
      <4>1. app.current = NoBoard /\ Screen(app) \in Canvases
        BY <2>1, <3>2 DEF OpensWhereNoneIs, EditsOnCanvas
      <4> QED
        BY <1>0, <4>1, ScreenFacts
    <3>3. CASE ~(unsaved /\ opening.kind = "open")
      <4>1. \/ ShowLocation([board |-> opening.board, picking |-> p], opening.push)
            \/ PushLocation(opening.here)
        BY <2>3, <3>3 DEF OpenArrives, ConfirmDiscard
      <4> HIDE DEF p
      <4> QED
        BY <1>l, <2>1, <3>1, <4>1, NotedFits DEF ShowLocation
    <3> QED
      BY <3>2, <3>3
  <2> QED
    BY <1>2, <2>2, <2>3
<1>3. ASSUME NEW c \in Calls, CreateArrives(c), ~calls[c].overtaken PROVE UrlFits'
  <2>1. calls[c].board \in Boards
    BY <1>0, <1>3 DEF CreateArrives, CallsFit
  <2> QED
    BY <1>3, <1>l, <2>1, NotedFits DEF CreateArrives
<1> QED
  BY <1>1, <1>2, <1>3

(* Going back and forward leaves the URL where it is read, or puts it back. *)
LEMMA PopstateFits ==
    ASSUME TypeOK, NEW p \in DOMAIN entries, Popstate(p)
    PROVE  UrlFits' \/ Underway'
<1>0. shown \in Location /\ NoLocation \in Location
  BY DEF TypeOK, NoLocation, Location
<1>1. CASE entries[p] = shown
  BY <1>1 DEF Popstate, UrlFits
<1>2. CASE entries[p] # shown /\ entries[p].board # NoBoard
  BY <1>2 DEF Popstate, LoadBoard, Underway, NoLoad
<1>3. CASE entries[p] # shown /\ entries[p].board = NoBoard
  <2>1. \/ /\ entries' = [entries EXCEPT ![p] = NoLocation] /\ position' = p /\ shown' = NoLocation
        \/ /\ p < MaxHistory /\ entries' = Append(SubSeq(entries, 1, p), shown)
           /\ position' = p + 1 /\ shown' = shown
    BY <1>3 DEF Popstate
  <2> QED
    BY <1>0, <2>1, HistoryReplaced, HistoryGrows DEF HistoryAt, UrlFits
<1> QED
  BY <1>1, <1>2, <1>3

(* What the user waits for is waited for until it is answered. *)
LEMMA StillUnderway ==
    ASSUME TypeOK, opening' = opening, UNCHANGED url,
           \A c \in Calls :
               (calls[c].kind = "create" /\ ~calls[c].overtaken) \/ calls[c].kind = "setTarget" =>
                   calls'[c].kind = calls[c].kind /\ calls'[c].overtaken = calls[c].overtaken
    PROVE  UrlFits \/ Underway => UrlFits' \/ Underway'
  BY DEF UrlFits, Underway, url

(* Each step notes the place, goes on waiting, or is a failure that does neither. *)
LEMMA UrlKept ==
    ASSUME TypeOK, CallInv, BeginsFirst, EditsOnCanvas, OpensWhereNoneIs, UrlInv, [Next]_vars
    PROVE  UrlInv'
<1>0. calls \in [Calls -> Call \cup {Idle}] /\ NoLocation \in Location
  BY DEF TypeOK, NoLocation, Location
<1>i. Idle.kind = "idle" /\ \A kind, b : NewCall(kind, b).kind = kind /\ ~NewCall(kind, b).overtaken
  BY DEF Idle, NewCall
<1>b. app'.begun => app.begun \/ Begin
  BY BeginsKept
<1>l. late \subseteq late'
  BY LateGrows
<1> DEFINE Told == UrlFits' \/ Underway'
           Goes == UrlFits \/ Underway => Told
<1> SUFFICES \/ Told \/ "url" \in late'
             \/ Goes /\ ~Begin
  BY <1>b, <1>l DEF UrlInv
<1> USE DEF ui, url, server, notes
<1>1. CASE \/ LoadFails \/ OpenArrives \/ ReopenArrives \/ CloseBoard \/ StartCreating \/ StartPicking
           \/ \E c \in Calls : Logout(c) \/ DeleteArrives(c) \/ (CreateArrives(c) /\ ~calls[c].overtaken)
  <2>1. UrlFits'
    BY <1>1, PlacesNoted DEF CallInv
  <2> QED
    BY <2>1
<1>2. CASE \E p \in DOMAIN entries : Popstate(p)
  BY <1>2, PopstateFits
<1>3. ASSUME Begin PROVE Told
  <2>1. ASSUME ReplaceLocation(NoLocation) PROVE Told
    BY <1>0, <2>1, NotedFits
  <2>2. ASSUME ~ReplaceLocation(NoLocation) PROVE Told
    BY <1>3, <2>2 DEF Begin, LoadBoard, Underway, NoLoad
  <2> QED
    BY <2>1, <2>2
<1>4. CASE ServeLoad \/ CancelPicking \/ (\E b \in Boards : Open(b)) \/ \E c \in Calls : SetTargetArrives(c)
  <2>1. opening' # NoLoad
    <3>1. CASE ServeLoad
      BY <3>1, LoadSteps, TypesKept DEF SameLoad, Loading, ServeLoad, Load, NoLoad, TypeOK
    <3>2. CASE ~ServeLoad
      BY <1>4, <3>2 DEF CancelPicking, Open, SetTargetArrives, LoadBoard, NoLoad
    <3> QED
      BY <3>1, <3>2
  <2> QED
    BY <2>1 DEF Underway
<1>5. ASSUME NEW c \in Calls, CreateWithTarget(c) \/ CreateWithoutTarget(c) \/ ChangeTarget(c) PROVE Told
  <2>1. CASE CreateWithTarget(c) \/ CreateWithoutTarget(c)
    <3>1. calls' = [Overtaken(calls) EXCEPT ![c] = NewCall("create", NoBoard)]
      BY <2>1 DEF CreateWithTarget, CreateWithoutTarget
    <3>2. calls'[c] = NewCall("create", NoBoard)
      BY <1>0, <3>1, OvertakenFacts
    <3> QED
      BY <1>i, <3>2 DEF Underway
  <2>2. CASE ChangeTarget(c)
    <3>1. PICK b \in Boards : InvalidateAll(Put(c, NewCall("setTarget", b)))
      BY <2>2 DEF ChangeTarget
    <3>2. NewCall("setTarget", b).kind \notin {"create", "reopen"}
      BY <1>i
    <3>3. calls'[c] = NewCall("setTarget", b)
      BY <3>1, <3>2, SlotFacts, ZenonT(40) DEF InvalidateAll
    <3> QED
      BY <1>i, <3>3 DEF Underway
  <2> QED
    BY <1>5, <2>1, <2>2
<1>6. ASSUME NEW c \in Calls, CreateFails(c) \/ SetTargetEnds(c) PROVE Told \/ "url" \in late'
  <2>1. NoteUrl /\ UNCHANGED url
    BY <1>6 DEF CreateFails, SetTargetEnds
  <2> QED
    BY <2>1 DEF NoteUrl, UrlFits
<1>7. CASE SessionArrives \/ CapabilitiesArrive \/ ServeList \/ ListArrives
           \/ OpenDialog \/ SetName \/ CancelDialog \/ BackToDialog
           \/ CancelDeletion \/ Draw \/ Save \/ AtLogin \/ UNCHANGED vars
           \/ \E b \in Boards : OthersSave(b) \/ Lock(b)
  <2>1. UNCHANGED <<opening, calls, url>>
    BY <1>7 DEF SessionArrives, CapabilitiesArrive, ServeList, ListArrives,
       OpenDialog, SetName, CancelDialog, BackToDialog, CancelDeletion, Draw, Save, AtLogin, OthersSave, Lock, vars
  <2>2. Goes
    BY <2>1, StillUnderway
  <2> QED
    BY <1>3, <2>2
<1>p. ASSUME opening' = opening, UNCHANGED url, NEW c \in Calls, NEW r, calls' = Put(c, r),
             ~(calls[c].kind = "create" /\ ~calls[c].overtaken), calls[c].kind # "setTarget"
      PROVE  Goes
  <2>1. \A d \in Calls : calls'[d] = IF d = c THEN r ELSE calls[d]
    BY <1>0, <1>p DEF Put
  <2> QED
    BY <1>p, <2>1, StillUnderway
<1>8. ASSUME NEW c \in Calls,
             \/ SessionIsReread(c) \/ LogoutArrives(c) \/ (CreateArrives(c) /\ calls[c].overtaken)
             \/ DeletionArrives(c) \/ DeleteFails(c) \/ ReplaceArrives(c) \/ ReplaceFails(c)
             \/ AskDeletion(c) \/ ConfirmDeletion(c) \/ Replace(c)
      PROVE  Goes
  <2>1. /\ opening' = opening /\ UNCHANGED url
        /\ \E r : calls' = Put(c, r)
        /\ ~(calls[c].kind = "create" /\ ~calls[c].overtaken) /\ calls[c].kind # "setTarget"
    <3>1. CASE \/ SessionIsReread(c) \/ LogoutArrives(c) \/ (CreateArrives(c) /\ calls[c].overtaken)
               \/ DeletionArrives(c) \/ DeleteFails(c) \/ ReplaceArrives(c) \/ ReplaceFails(c)
      BY <3>1 DEF SessionIsReread, LogoutArrives, CreateArrives, DeletionArrives, DeleteFails,
         ReplaceArrives, ReplaceFails
    <3>2. CASE AskDeletion(c) \/ ConfirmDeletion(c) \/ Replace(c)
      BY <1>i, <3>2 DEF AskDeletion, ConfirmDeletion, Replace
    <3> QED
      BY <1>8, <3>1, <3>2
  <2> QED
    BY <1>p, <2>1
<1>9. CASE ListFails
  <2>1. /\ opening' = opening /\ UNCHANGED url
        /\ calls' = calls \/ \E c \in Calls : calls[c] = Idle /\ calls' = Put(c, NewCall("session", NoBoard))
    BY <1>9 DEF ListFails
  <2>2. ASSUME calls' = calls PROVE Goes
    BY <2>1, <2>2, StillUnderway
  <2>3. ASSUME NEW c \in Calls, calls[c] = Idle, calls' = Put(c, NewCall("session", NoBoard)) PROVE Goes
    BY <1>i, <1>p, <2>1, <2>3
  <2>4. Goes
    BY <2>1, <2>2, <2>3
  <2> QED
    BY <1>3, <2>4
<1>10. ASSUME NEW c \in Calls, ServeCall(c) PROVE Goes
  <2>1. opening' = opening /\ UNCHANGED url
    BY <1>10 DEF ServeCall
  <2>2. \A d \in Calls : calls'[d] = calls[d] \/ (calls'[d].kind = calls[d].kind /\ calls'[d].overtaken = calls[d].overtaken)
    BY <1>10, ServedFacts
  <2> QED
    BY <2>1, <2>2, StillUnderway
<1> HIDE DEF Told, Goes
<1>11. ASSUME NEW c \in Calls,
              \/ SessionIsReread(c) \/ Logout(c) \/ LogoutArrives(c)
              \/ CreateWithTarget(c) \/ CreateWithoutTarget(c) \/ CreateArrives(c) \/ CreateFails(c)
              \/ ChangeTarget(c) \/ SetTargetArrives(c) \/ SetTargetEnds(c)
              \/ AskDeletion(c) \/ DeletionArrives(c) \/ ConfirmDeletion(c)
              \/ DeleteArrives(c) \/ DeleteFails(c) \/ Replace(c) \/ ReplaceArrives(c)
              \/ ReplaceFails(c) \/ ServeCall(c)
       PROVE  \/ Told \/ "url" \in late'
              \/ Goes /\ ~Begin
  <2>1. CASE Logout(c) \/ DeleteArrives(c) \/ (CreateArrives(c) /\ ~calls[c].overtaken)
    BY <1>1, <2>1
  <2>2. CASE SetTargetArrives(c)
    BY <1>4, <2>2
  <2>3. CASE CreateWithTarget(c) \/ CreateWithoutTarget(c) \/ ChangeTarget(c) \/ CreateFails(c) \/ SetTargetEnds(c)
    BY <1>5, <1>6, <2>3
  <2>4. ASSUME \/ SessionIsReread(c) \/ LogoutArrives(c) \/ (CreateArrives(c) /\ calls[c].overtaken)
               \/ DeletionArrives(c) \/ DeleteFails(c) \/ ReplaceArrives(c) \/ ReplaceFails(c)
               \/ AskDeletion(c) \/ ConfirmDeletion(c) \/ Replace(c) \/ ServeCall(c)
        PROVE  Goes
    BY <1>8, <1>10, <2>4
  <2> QED
    BY <1>3, <1>11, <2>1, <2>2, <2>3, <2>4
<1> QED
  BY <1>1, <1>2, <1>3, <1>4, <1>7, <1>9, <1>11 DEF Next

-----------------------------------------------------------------------------
(* The invariant and what it is for *)

(* The page that is loaded satisfies the invariant, whatever its URL names. *)
LEMMA NavInvInit ==
    ASSUME Init
    PROVE  NavInv
<1>0. /\ NoLoad.kind = "none" /\ NoLoad = NoLoad /\ opening = NoLoad /\ ~Loading
      /\ \A c \in Calls : calls[c] = Idle /\ calls[c].kind = "idle"
  BY DEF Init, Loading, NoLoad, Idle
<1>a. /\ app \in App /\ app.session = "asking" /\ app.current = NoBoard /\ ~app.creating
      /\ ~app.targeted /\ ~app.picking
  BY NavigationAssumption DEF Init, App
<1>l. NoLocation \in Location /\ NoLocation.board = NoBoard /\ ~NoLocation.picking
  BY DEF NoLocation, Location
<1>h. PICK l \in Location : entries = <<l>> /\ position = 1 /\ shown = NoLocation
  BY DEF Init
<1>1. TypeOK
  <2>1. /\ entries \in Seq(Location) /\ Len(entries) = 1 /\ DOMAIN entries = 1 .. 1
    BY <1>h
  <2>2. Len(entries) \in 1 .. MaxHistory /\ position \in DOMAIN entries
    BY <1>h, <2>1, NavigationAssumption
  <2>3. /\ calls \in [Calls -> Call \cup {Idle}] /\ saved \in [Boards -> 0 .. MaxVersion]
        /\ 0 \in 0 .. MaxVersion
    BY NavigationAssumption DEF Init
  <2> QED
    BY <1>0, <1>a, <1>h, <1>l, <2>1, <2>2, <2>3, NavigationAssumption DEF Init, TypeOK, NoListing, Unread
<1>2. CallInv /\ CancelStaysHere /\ CreationsWait
  BY <1>0, <1>a DEF CallInv, CallsFit, LoadOfCall, LoadIsLatest, CancelStaysHere, CreationsWait
<1>3. BeginsFirst /\ EditsOnCanvas /\ TargetingOnScreen
  BY <1>0, <1>a DEF Init, BeginsFirst, EditsOnCanvas, TargetingOnScreen, NoListing
<1>4. TargetInv
  BY <1>0, <1>a DEF Init, TargetInv, TargetsTold, ReplacedHasTarget
<1>5. PlaceInv /\ OpensWhereNoneIs
  BY <1>0, <1>a, <1>h, <1>l DEF PlaceInv, PlaceIsNoted, HereIsNoted, OpensWhereNoneIs
<1>8. UrlInv
  BY DEF Init, UrlInv
<1>6. GoneInv
  BY <1>0, <1>a DEF Init, GoneInv, DeletedInNoAnswer, DeletedStaysAway, NoListing, Unread
<1>7. NothingLost /\ SavesWhatIsSeen
  BY DEF Init, NothingLost, SavesWhatIsSeen
<1> QED
  BY <1>1, <1>2, <1>3, <1>4, <1>5, <1>6, <1>7, <1>8 DEF NavInv

(* Every step keeps the invariant: the lemmas above, put together. *)
LEMMA NavInvStep ==
    ASSUME NavInv, [Next]_vars
    PROVE  NavInv'
<1>1. TypeOK' /\ CallInv'
  BY TypesKept, CallsFitKept, LoadsKept DEF NavInv, CallInv
<1>2. BeginsFirst' /\ CancelStaysHere' /\ EditsOnCanvas' /\ TargetingOnScreen'
  BY BeginsKept, CancelKept, EditsKept, TargetingKept DEF NavInv, CallInv
<1>3. CreationsWait' /\ TargetInv' /\ PlaceInv' /\ GoneInv'
  BY CreationsWaitKept, TargetsKept, PlaceKept, GoneKept DEF NavInv, CallInv
<1>4. OpensWhereNoneIs' /\ UrlInv'
  BY OpensKept, UrlKept DEF NavInv
<1>5. NothingLost' /\ SavesWhatIsSeen'
  BY LostKept, SeenKept DEF NavInv
<1> QED
  BY <1>1, <1>2, <1>3, <1>4, <1>5 DEF NavInv

(* The invariant all the others follow from, the types of the state among them. *)
THEOREM NavInvariant == Spec => []NavInv
<1>1. NavInv /\ UNCHANGED vars => NavInv'
  BY NavInvStep
<1> QED
  BY <1>1, NavInvInit, NavInvStep, PTL DEF Spec

(* Edits are never dropped without a question, whichever way the canvas is left *)
(* and whatever arrives meanwhile, but for four answers that ask nothing: a      *)
(* deletion and a target that find another screen than they were sent from, a    *)
(* logout that finds a canvas, and a session that has expired (confirmDiscard,   *)
(* the generations of useBoardNavigation).                                       *)
THEOREM NothingIsLost == Spec => []NothingLost
<1>1. NavInv => NothingLost
  BY DEF NavInv
<1> QED
  BY <1>1, NavInvariant, PTL

(* The next save stands on what the user sees, on the version the canvas was    *)
(* built from or last saved as, never on somebody else's that was only read      *)
(* (replaceBoard keeps the version, OpenArrives builds the canvas anew).         *)
THEOREM SavesStandOnWhatIsSeen == Spec => []SavesWhatIsSeen
<1>1. NavInv => SavesWhatIsSeen
  BY DEF NavInv
<1> QED
  BY <1>1, NavInvariant, PTL

(* The note of where the user is names the board on the screen, and the URL is   *)
(* that note unless a board is being read, made or given a target, or one of     *)
(* these failed after it had overtaken a reading (showLocation, loadBoard).      *)
THEOREM PlaceIsOnTheScreen == Spec => []LocationTellsTheScreen
<1>1. NavInv => LocationTellsTheScreen
  BY DEF NavInv, PlaceInv, PlaceIsNoted, UrlInv, LocationTellsTheScreen
<1> QED
  BY <1>1, NavInvariant, PTL

(* A board the user was told is deleted is never listed or opened again, by no  *)
(* answer that was on its way (handleDeleted, the generation of the list).       *)
THEOREM DeletedStayAway == Spec => []DeletedStaysAway
<1>1. NavInv => DeletedStaysAway
  BY DEF NavInv, GoneInv
<1> QED
  BY <1>1, NavInvariant, PTL
=============================================================================
