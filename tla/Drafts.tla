------------------------------- MODULE Drafts -------------------------------
(***************************************************************************)
(* The interpretations of one annotation, the draft made of the selected   *)
(* one, what the user may change in it, and the creation of draft issues   *)
(* from it (web/src/board/annotations).                                    *)
(*                                                                         *)
(* A draft is rebuilt whenever another interpretation is shown; what was   *)
(* created is kept beside the interpretation and marked in the draft.  A   *)
(* draft issue cannot be deleted, so what is known to have been sent must  *)
(* not be sent as new again.                                               *)
(*                                                                         *)
(* Bodies, the summary and the order of the items are left out.  Whose     *)
(* interpretation it is and how jobs run is Ekidoki; here an answer just   *)
(* arrives.  Issues are numbered in the order GitHub makes them, and name  *)
(* their parent by its title.                                              *)
(***************************************************************************)
EXTENDS Naturals, Sequences, FiniteSets

CONSTANTS
    LocalIds,           \* names of items within one interpretation
    Titles, Blank,      \* what an item may be called, and no title at all
    Answers,            \* what the language model may propose
    None,
    MaxInterpretations, \* MAX_INTERPRETATIONS
    MaxAnswers,         \* bound on interpretations
    MaxIssues,          \* bound on draft issues
    MaxActs             \* bound on what the user does

Kinds    == {"epic", "issue"}
Granularities == {"auto", "epic", "issue"}
Issues   == 1 .. MaxIssues
Proposal == [kind : Kinds, title : Titles, parent : LocalIds \cup {None}, again : BOOLEAN]
Propose  == UNION {[I -> Proposal] : I \in SUBSET LocalIds \ {{}}}

ASSUME DraftsAssumption ==
    /\ Answers \subseteq Propose /\ \A a \in Answers : IsFiniteSet(DOMAIN a)
    /\ None \notin Issues
    /\ MaxInterpretations \in Nat \ {0} /\ MaxAnswers \in Nat
    /\ MaxIssues \in Nat /\ MaxActs \in Nat

VARIABLES
    granularity,    \* of the annotation
    runs,           \* its interpretations, newest first
    selectedId,     \* the one that is shown
    draft,          \* DraftEditor: of each of its items
    creation,       \* useCreation
    saving,         \* whether a save runs
    previous,       \* the items the page believes GitHub shows
    issues,         \* GitHub
    folded,         \* the items etoki's history says GitHub shows
    answers, acts   \* numbers of interpretations, and of all the user did, so far

drafts == <<granularity, runs, selectedId, draft, creation, saving, previous,
            issues, folded, answers, acts>>

Item   == [kind : Kinds, title : Titles, parent : LocalIds \cup {None},
           previous : Issues \cup {None}]
Report == [id : LocalIds, item : Issues \cup {None}, confirmed : BOOLEAN]
Run    == [id : 1 .. MaxAnswers, items : UNION {[I -> Item] : I \in SUBSET LocalIds},
           created : Seq(SUBSET Report)]
DraftItem == [selected : BOOLEAN, kind : Kinds, title : Titles \cup {Blank},
              updates : BOOLEAN, made : Issues \cup {None}, unconfirmed : BOOLEAN]
Folded == [kind : Kinds, title : Titles]
Sent   == [kind : Kinds, title : Titles \cup {Blank}, parent : LocalIds \cup {None},
           previous : Issues \cup {None}]
NoDraft    == << >>
NoCreation == [step |-> "idle"]

DraftsTyped ==
    /\ granularity \in Granularities
    /\ Len(runs) <= MaxInterpretations
    /\ \A n \in DOMAIN runs : runs[n] \in Run
    /\ selectedId \in 0 .. MaxAnswers
    /\ \A x \in DOMAIN draft : x \in LocalIds /\ draft[x] \in DraftItem
    /\ creation.step \in {"idle", "sent", "served", "refreshing"}
    /\ saving \in BOOLEAN
    /\ previous \in UNION {[I -> Folded] : I \in SUBSET Issues}
    /\ folded \in UNION {[I -> Folded] : I \in SUBSET Issues}
    /\ answers \in 0 .. MaxAnswers /\ acts \in 0 .. MaxActs

DraftsInit ==
    /\ granularity \in Granularities
    /\ runs = << >> /\ selectedId = 0 /\ draft = NoDraft
    /\ creation = NoCreation /\ saving = FALSE
    /\ previous = << >> /\ issues = << >> /\ folded = << >> /\ answers = 0 /\ acts = 0

Act == acts < MaxActs /\ acts' = acts + 1

-----------------------------------------------------------------------------
(* The draft *)

Shown   == CHOOSE n \in DOMAIN runs : runs[n].id = selectedId
Items   == runs[Shown].items
Frozen  == creation.step # "idle" \/ saving
Chosen  == {x \in DOMAIN draft : draft[x].selected}

CreateDraft(items) == [x \in DOMAIN items |->
    [selected |-> TRUE, kind |-> items[x].kind, title |-> items[x].title,
     updates |-> items[x].previous # None, made |-> None, unconfirmed |-> FALSE]]

\* Reported items are taken out of the selection.  One that was sent and not answered
\* stays without an issue of its own.
Mark(d, r) ==
    IF r.item = None
      THEN [d EXCEPT !.selected = FALSE, !.unconfirmed = TRUE]
      ELSE [d EXCEPT !.selected = FALSE, !.made = r.item, !.unconfirmed = ~r.confirmed]

MarkCreated(d, report) == [x \in DOMAIN d |->
    IF \E r \in report : r.id = x THEN Mark(d[x], CHOOSE r \in report : r.id = x) ELSE d[x]]

(* Fault: what was created is not marked in a draft that is built again. *)
DraftUnmarked(run) == CreateDraft(run.items)

\* created.reduce(markCreated, createDraft(result)).
DraftOf(run) ==
    LET after[n \in 0 .. Len(run.created)] ==
            IF n = 0 THEN CreateDraft(run.items)
                     ELSE MarkCreated(after[n - 1], run.created[n])
    IN  after[Len(run.created)]

(* Fault: an item may always be sent again. *)
CanResendAlways(d) == TRUE

CanResend(d) == ~d.unconfirmed \/ d.made # None

Target(x) ==
    IF draft[x].made # None THEN draft[x].made
    ELSE IF draft[x].updates THEN Items[x].previous ELSE None

(* Fault: the epic is not looked for among what is selected. *)
ParentUnselected(x) ==
    IF draft[x].kind = "epic" \/ Items[x].parent = None THEN None ELSE Items[x].parent

EffectiveParent(x) ==
    LET p == Items[x].parent
    IN  IF draft[x].kind = "epic" \/ p \notin Chosen THEN None
        ELSE IF draft[p].kind = "epic" THEN p ELSE None

\* blockingReasons is empty.
Ready ==
    /\ Chosen # {}
    /\ \A x \in Chosen : draft[x].title # Blank
    /\ granularity = "epic" => \E x \in Chosen : draft[x].kind = "epic"

BuildInterpretation == [x \in Chosen |->
    [kind |-> draft[x].kind, title |-> draft[x].title,
     parent |-> EffectiveParent(x), previous |-> Target(x)]]

LeftBehind ==
    DOMAIN previous \ ({draft[x].made : x \in DOMAIN draft} \cup {Target(x) : x \in Chosen})

(* Fault: the kind the draft has now is asked, not the kind it was created as. *)
RenamedByDraft ==
    {previous[Target(x)].title : x \in
        {y \in Chosen : /\ draft[y].made = None
                        /\ draft[y].kind = "epic"
                        /\ Target(y) \in DOMAIN previous
                        /\ previous[Target(y)].title # draft[y].title}}

RenamedEpics ==
    {previous[Target(x)].title : x \in
        {y \in Chosen : /\ draft[y].made = None
                        /\ Target(y) \in DOMAIN previous
                        /\ previous[Target(y)].kind = "epic"
                        /\ previous[Target(y)].title # draft[y].title}}

\* leftBehindParentNote: the titles whose children lose them.
Announced ==
    IF \E i \in LeftBehind : previous[i].kind = "issue" THEN RenamedEpics ELSE {}

-----------------------------------------------------------------------------
(* Interpretations *)

\* With granularity "issue" there are no epics, with "epic" there is one.
GranularityKept(items) ==
    LET epics == {x \in DOMAIN items : items[x].kind = "epic"}
    IN  /\ granularity = "issue" => epics = {}
        /\ granularity = "epic" => epics # {}

\* An answer arrives; items it takes up again name an issue of the annotation each.
Interpret(a, link) ==
    /\ answers < MaxAnswers /\ Act
    /\ GranularityKept(a)
    /\ \A x, y \in DOMAIN a : x # y /\ link[x] # None => link[x] # link[y]
    /\ \A x \in DOMAIN a : link[x] # None <=> a[x].again /\ DOMAIN folded # {}
    /\ LET items == [x \in DOMAIN a |->
                        [kind |-> a[x].kind, title |-> a[x].title,
                         parent |-> a[x].parent, previous |-> link[x]]]
           run   == [id |-> answers + 1, items |-> items, created |-> << >>]
       IN  /\ runs' = SubSeq(<<run>> \o runs, 1,
                             IF Len(runs) < MaxInterpretations THEN Len(runs) + 1
                                                               ELSE MaxInterpretations)
           /\ draft' = DraftOf(run)
    /\ answers' = answers + 1 /\ selectedId' = answers + 1
    /\ UNCHANGED <<granularity, creation, saving, previous, issues, folded>>

\* The draft of what is left is gone; the one of what is chosen is built again.
Select(n) ==
    /\ runs[n].id # selectedId /\ Act
    /\ selectedId' = runs[n].id /\ draft' = DraftOf(runs[n])
    /\ UNCHANGED <<granularity, runs, creation, saving, previous, issues, folded, answers>>

-----------------------------------------------------------------------------
(* What the user changes *)

edited == <<granularity, runs, selectedId, creation, saving, previous, issues, folded, answers>>

Editing == ~Frozen /\ Act /\ UNCHANGED edited

\* Children leave with their epic, and come back one by one.
Toggle(x) ==
    /\ Editing
    /\ draft[x].selected \/ CanResend(draft[x])
    /\ draft' = [y \in DOMAIN draft |->
            IF y = x THEN [draft[y] EXCEPT !.selected = ~@]
            ELSE IF draft[x].selected /\ draft[x].kind = "epic" /\ Items[y].parent = x
              THEN [draft[y] EXCEPT !.selected = FALSE] ELSE draft[y]]

SetKind(x, k) ==
    /\ Editing /\ granularity # "issue"
    /\ k # draft[x].kind
    /\ draft' = [draft EXCEPT ![x].kind = k]

SetTitle(x, t) ==
    /\ Editing /\ t # draft[x].title
    /\ draft' = [draft EXCEPT ![x].title = t]

\* Offered where the model named an issue and nothing was made of the item.
SetUpdatesPrevious(x) ==
    /\ Editing
    /\ Items[x].previous # None /\ draft[x].made = None /\ CanResend(draft[x])
    /\ draft' = [draft EXCEPT ![x].updates = ~@]

-----------------------------------------------------------------------------
(* Creation *)

Create ==
    /\ draft # NoDraft /\ ~Frozen /\ Ready /\ Act
    /\ creation' = [step |-> "sent", run |-> selectedId, items |-> BuildInterpretation,
                    said |-> Announced, report |-> {}]
    /\ UNCHANGED <<granularity, runs, selectedId, draft, saving, previous, issues, folded, answers>>

Numbered(new, n) == CHOOSE f \in [new -> n + 1 .. n + Cardinality(new)] :
    \A x, y \in new : x # y => f[x] # f[y]

\* The server writes epics first and stops where GitHub does not take or not answer a
\* write.  `written` was answered, `lost` was not, and may have been done.
Serve(written, lost, done) ==
    LET items   == creation.items
        epics   == {x \in DOMAIN items : items[x].kind = "epic"}
        touched == written \cup IF done THEN lost ELSE {}
        new     == {x \in touched : items[x].previous = None}
        number  == Numbered(new, Cardinality(DOMAIN issues))
        at      == [x \in touched |-> IF x \in new THEN number[x] ELSE items[x].previous]
        issueOf(x) == [kind |-> items[x].kind, title |-> items[x].title,
                       parent |-> IF items[x].parent = None THEN Blank
                                  ELSE items[items[x].parent].title]
        foldOf(x)  == [kind |-> items[x].kind, title |-> items[x].title]
        Of(i, s)   == CHOOSE x \in s : at[x] = i
        Put(f, s, G(_)) == [i \in DOMAIN f \cup {at[x] : x \in s} |->
                                IF \E x \in s : at[x] = i THEN G(Of(i, s)) ELSE f[i]]
    IN  /\ creation.step = "sent"
        /\ written \subseteq DOMAIN items /\ lost \subseteq DOMAIN items \ written
        /\ Cardinality(lost) <= 1 /\ done => lost # {}
        /\ written \ epics # {} => epics \subseteq written
        /\ lost \ epics # {} => epics \subseteq written
        /\ Cardinality(DOMAIN issues) + Cardinality(new) <= MaxIssues
        /\ issues' = Put(issues, touched, issueOf)
        /\ folded' = Put(folded, written, foldOf)
        /\ creation' = [creation EXCEPT !.step = "served", !.report =
               {[id |-> x, item |-> at[x], confirmed |-> TRUE] : x \in written} \cup
               {[id |-> x, item |-> items[x].previous, confirmed |-> FALSE] : x \in lost}]
        /\ UNCHANGED <<granularity, runs, selectedId, draft, saving, previous, answers, acts>>

(* Fault: all creations of the interpretation are marked again. *)
AppliedAll(run) ==
    LET after[n \in 0 .. Len(run.created)] ==
            IF n = 0 THEN draft ELSE MarkCreated(after[n - 1], run.created[n])
    IN  after[Len(run.created)]

(* Fault: the draft is built again from the interpretation and what was created of it. *)
AppliedToFresh(run) == DraftOf(run)

\* created.slice(appliedCreations): only what this creation added.
Applied(run) == MarkCreated(draft, run.created[Len(run.created)])

\* The answer is kept with its interpretation, if that was not dropped meanwhile, and
\* marked in the draft where it is shown.  The list is read again.
CreateArrives ==
    /\ creation.step = "served"
    /\ runs' = [n \in DOMAIN runs |->
            IF runs[n].id = creation.run
              THEN [runs[n] EXCEPT !.created = Append(@, creation.report)] ELSE runs[n]]
    /\ draft' = IF creation.run = selectedId THEN Applied(runs'[Shown]) ELSE draft
    /\ creation' = [creation EXCEPT !.step = "refreshing"]
    /\ UNCHANGED <<granularity, selectedId, saving, previous, issues, folded, answers, acts>>

\* The server refuses what does not pass its checks, or a call or its answer is lost.
CreateFails ==
    /\ creation.step \in {"sent", "served"}
    /\ creation' = NoCreation
    /\ UNCHANGED <<granularity, runs, selectedId, draft, saving, previous, issues, folded, answers, acts>>

\* The list arrives, or the page keeps the one it has.
ListArrives(list) ==
    /\ creation.step = "refreshing"
    /\ previous' = list /\ creation' = NoCreation
    /\ UNCHANGED <<granularity, runs, selectedId, draft, saving, issues, folded, answers, acts>>

-----------------------------------------------------------------------------
(* A save takes all interpretations with it, and the draft with them *)

StartSave ==
    /\ ~Frozen /\ Act /\ saving' = TRUE
    /\ UNCHANGED <<granularity, runs, selectedId, draft, creation, previous, issues, folded, answers>>

SaveArrives ==
    /\ saving
    /\ runs' = << >> /\ selectedId' = 0 /\ draft' = NoDraft
    /\ previous' = folded /\ saving' = FALSE
    /\ UNCHANGED <<granularity, creation, issues, folded, answers, acts>>

SaveFails ==
    /\ saving /\ saving' = FALSE
    /\ UNCHANGED <<granularity, runs, selectedId, draft, creation, previous, issues, folded, answers, acts>>

DraftsNext ==
    \/ \E a \in Answers : \E link \in [DOMAIN a -> DOMAIN folded \cup {None}] : Interpret(a, link)
    \/ \E n \in DOMAIN runs : Select(n)
    \/ \E x \in DOMAIN draft :
          \/ Toggle(x) \/ SetUpdatesPrevious(x)
          \/ \E k \in Kinds : SetKind(x, k)
          \/ \E t \in Titles \cup {Blank} : SetTitle(x, t)
    \/ Create \/ CreateArrives \/ CreateFails
    \/ \E written, lost \in SUBSET LocalIds, done \in BOOLEAN : Serve(written, lost, done)
    \/ \E list \in {previous, folded} : ListArrives(list)
    \/ StartSave \/ SaveArrives \/ SaveFails

-----------------------------------------------------------------------------
(* Properties *)

\* What the page was told was sent from an interpretation is never sent from it as
\* something new again, however the user goes back and forth between interpretations:
\* a draft issue cannot be deleted (targetItemIdOf, markCreated, toggleItem).
NeverTwice ==
    creation.step = "sent" =>
        \A n \in DOMAIN runs : runs[n].id = creation.run =>
            \A x \in DOMAIN creation.items, k \in DOMAIN runs[n].created :
                creation.items[x].previous = None =>
                    \A r \in runs[n].created[k] : r.id # x

\* What is sent passes the checks of the server on structure, so that whatever the user
\* did to the draft, pressing does not end in a refusal: a parent is an epic that is sent
\* too, and no issue is the target of two items (effectiveParentOf, blockingReasons).
RequestIsValid ==
    creation.step = "sent" =>
        LET items == creation.items
        IN  /\ DOMAIN items # {}
            /\ \A x \in DOMAIN items :
                  /\ items[x].title # Blank
                  /\ items[x].parent # None =>
                        /\ items[x].kind = "issue"
                        /\ items[x].parent \in DOMAIN items
                        /\ items[items[x].parent].kind = "epic"
                  /\ items[x].previous # None => items[x].previous \in DOMAIN folded
            /\ \A x, y \in DOMAIN items :
                  x # y /\ items[x].previous # None => items[x].previous # items[y].previous
            /\ GranularityKept(items)

\* As long as its interpretation is shown, what the user made of a draft is his: an item
\* changes when he edits it, or when a creation that reached it answers, which leaves the
\* title and the kind alone.  So what he chose again and a creation did not reach is still
\* chosen.  An interpretation that arrives is shown in its place, and a save shows none:
\* both take the draft with them (DraftEditor, appliedCreations).
DraftKept ==
    [][selectedId' = selectedId => \A x \in DOMAIN draft :
        /\ x \in DOMAIN draft'
        /\ draft'[x] # draft[x] =>
             \/ Editing
             \/ /\ CreateArrives /\ \E r \in creation.report : r.id = x
                /\ draft'[x].title = draft[x].title /\ draft'[x].kind = draft[x].kind]_drafts

\* No issue the creation does not send loses the title it names without the page having
\* said so before the button was pressed.  The page speaks of what it knows: that the issue
\* is one, and the epic under the title that goes.  An epic that an earlier press on the same
\* draft created is not counted (renamedEpics, leftBehindParentNote).
ParentLossIsAnnounced ==
    [][\A i \in DOMAIN issues :
        LET t == issues[i].parent
            Epic(f, j) == f[j].kind = "epic" /\ f[j].title = t
        IN  /\ issues' # issues
            /\ i \in DOMAIN previous /\ previous[i].kind = "issue"
            /\ \A x \in DOMAIN creation.items : creation.items[x].previous # i
            /\ \E j \in DOMAIN issues \cap DOMAIN previous :
                  Epic(issues, j) /\ Epic(previous, j) /\ issues'[j].title # t
            /\ \A j \in DOMAIN issues' : ~Epic(issues', j)
            /\ \E n \in DOMAIN runs : runs[n].id = creation.run /\ runs[n].created = << >>
            => t \in creation.said]_drafts
=============================================================================
