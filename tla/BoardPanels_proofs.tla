------------------------- MODULE BoardPanels_proofs -------------------------
(***************************************************************************)
(* Proofs about BoardPanels, for every answer of the language model, text, *)
(* name, project, login and grant.  There is one section for each panel:   *)
(* what it keeps of the order in which things were done, that it starts    *)
(* so, that every step keeps it, and what a step may do in such a state.   *)
(* The last section puts the panels together.                              *)
(***************************************************************************)
EXTENDS BoardPanels, WindowLemmas

-----------------------------------------------------------------------------
(* The draft *)

Interpretations == UNION {[I -> Item] : I \in SUBSET LocalIds}
Interpretation  == [id : Nat, items : Interpretations, created : Seq(SUBSET Report)]

(* All that was reported of an interpretation, and the issues its items    *)
(* have: taken up by the model, or made.                                   *)
Reports(run) == UNION {run.created[k] : k \in DOMAIN run.created}

HasIssue(items, reports, x, i) ==
    items[x].previous = i \/ \E r \in reports : r.id = x /\ r.item = i

OneItemEach(known, items, reports) ==
    /\ \A x \in DOMAIN items : items[x].previous \in known \cup {None}
    /\ \A r \in reports : r.item \in known \cup {None}
    /\ \A i \in known, x, y \in DOMAIN items :
          HasIssue(items, reports, x, i) /\ HasIssue(items, reports, y, i) => x = y

NoEpics(items) == granularity = "issue" => \A x \in DOMAIN items : items[x].kind # "epic"

RunsFit ==
    /\ runs \in Seq(Interpretation)
    /\ \A n \in DOMAIN runs :
          /\ runs[n].id \in 1 .. answers /\ IsFiniteSet(DOMAIN runs[n].items)
          /\ NoEpics(runs[n].items) /\ OneItemEach(DOMAIN folded, runs[n].items, Reports(runs[n]))
    /\ \A n, m \in DOMAIN runs : runs[n].id = runs[m].id => n = m

(* What a draft has made was reported, and what was reported is marked.    *)
Marked(d, items, reports) ==
    /\ DOMAIN d = DOMAIN items
    /\ \A x \in DOMAIN d :
          /\ d[x] \in DraftItem
          /\ d[x].made # None => \E r \in reports : r.id = x /\ r.item = d[x].made
    /\ NoEpics(d)
    /\ \A r \in reports : r.id \in DOMAIN d =>
          d[r.id].made # None \/ (d[r.id].unconfirmed /\ ~d[r.id].selected)

DraftFits ==
    /\ runs = << >> => draft = NoDraft
    /\ runs # << >> => \E n \in DOMAIN runs : runs[n].id = selectedId
    /\ \A n \in DOMAIN runs :
          runs[n].id = selectedId => Marked(draft, runs[n].items, Reports(runs[n]))

IssuesFit ==
    /\ \E m \in 0 .. MaxIssues : DOMAIN issues = 1 .. m
    /\ DOMAIN folded \subseteq DOMAIN issues /\ DOMAIN previous \subseteq DOMAIN folded

(* What is sent is of the interpretation it was pressed in.                *)
SentFits ==
    creation.step = "sent" =>
        /\ IsFiniteSet(DOMAIN creation.items)
        /\ \A n \in DOMAIN runs : runs[n].id = creation.run =>
              \A x \in DOMAIN creation.items :
                  /\ x \in DOMAIN runs[n].items
                  /\ creation.items[x].previous # None =>
                        HasIssue(runs[n].items, Reports(runs[n]), x, creation.items[x].previous)

Left(i) == /\ i \in DOMAIN previous /\ previous[i].kind = "issue"
           /\ \A x \in DOMAIN creation.items : creation.items[x].previous # i

SaidFits ==
    creation.step = "sent" =>
        \A n \in DOMAIN runs, x \in DOMAIN creation.items :
            LET j == creation.items[x].previous
            IN  /\ runs[n].id = creation.run /\ runs[n].created = << >>
                /\ j \in DOMAIN previous /\ previous[j].kind = "epic"
                /\ previous[j].title # creation.items[x].title
                /\ \E i \in DOMAIN previous : Left(i)
                => previous[j].title \in creation.said

ServedFits ==
    creation.step = "served" =>
        /\ creation.report \subseteq Report
        /\ \A n \in DOMAIN runs : runs[n].id = creation.run =>
              OneItemEach(DOMAIN folded, runs[n].items, Reports(runs[n]) \cup creation.report)

CreationFits ==
    /\ creation = NoCreation
          \/ /\ creation = [step |-> creation.step, run |-> creation.run, items |-> creation.items,
                            said |-> creation.said, report |-> creation.report]
             /\ creation.step \in {"sent", "served", "refreshing"}
             /\ creation.run \in 1 .. answers /\ runs # << >> /\ ~saving
             /\ \A x \in DOMAIN creation.items : x \in LocalIds
    /\ SentFits /\ SaidFits /\ ServedFits /\ NeverTwice /\ RequestIsValid

DraftsInv ==
    /\ granularity \in Granularities /\ answers \in Nat
    /\ RunsFit /\ DraftFits /\ IssuesFit /\ CreationFits

LEMMA NumberedIs ==
    ASSUME NEW new, IsFiniteSet(new), NEW m \in Nat
    PROVE  LET f == Numbered(new, m)
               c == Cardinality(new)
           IN  /\ c \in Nat /\ f \in [new -> m + 1 .. m + c]
               /\ \A x, y \in new : x # y => f[x] # f[y]
               /\ \A k \in m + 1 .. m + c : \E x \in new : f[x] = k
<1> DEFINE c == Cardinality(new)
           T == m + 1 .. m + c
<1>1. c \in Nat
  BY FS_CardinalityType
<1>2. IsFiniteSet(T) /\ Cardinality(T) = c
  <2>1. m + 1 \in Int /\ m + c \in Int
    BY <1>1
  <2>2. IF m + 1 > m + c THEN c = 0 ELSE (m + c) - (m + 1) + 1 = c
    BY <1>1
  <2> QED
    BY <2>1, <2>2, FS_Interval
<1>3. \E f \in [new -> T] : \A x, y \in new : x # y => f[x] # f[y]
  <2>1. PICK f \in Bijection(new, T) : TRUE
    BY <1>2, FS_SameCardinalityBij DEF ExistsBijection
  <2> QED
    BY <2>1 DEF Bijection, Injection, IsInjective
<1> DEFINE f == Numbered(new, m)
<1>4. f \in [new -> T] /\ \A x, y \in new : x # y => f[x] # f[y]
  BY <1>3 DEF Numbered
<1> HIDE DEF f
<1>5. f \in Injection(new, T)
  BY <1>4 DEF Injection, IsInjective
<1>6. f \in Surjection(new, T)
  BY <1>2, <1>5, FS_Injection
<1>7. \A k \in T : \E x \in new : f[x] = k
  BY <1>6 DEF Surjection
<1> QED
  BY <1>1, <1>4, <1>7 DEF f

(* The marking of one creation. *)
LEMMA MarkedAgain ==
    ASSUME NEW d, NEW items, NEW reports, NEW report \in SUBSET Report,
           Marked(d, items, reports)
    PROVE  Marked(MarkCreated(d, report), items, reports \cup report)
<1> DEFINE e == MarkCreated(d, report)
           Hit(x) == \E r \in report : r.id = x
<1>1. ASSUME NEW x \in DOMAIN d, Hit(x)
      PROVE  \E r \in report : r.id = x /\ e[x] = Mark(d[x], r)
  BY <1>1 DEF MarkCreated
<1>2. ASSUME NEW x \in DOMAIN d, ~Hit(x) PROVE e[x] = d[x]
  BY <1>2 DEF MarkCreated
<1>3. DOMAIN e = DOMAIN d
  BY DEF MarkCreated
<1> HIDE DEF e
<1>4. ASSUME NEW x \in DOMAIN d, NEW r \in report
      PROVE  LET q == Mark(d[x], r)
             IN  /\ q \in DraftItem /\ q.kind = d[x].kind
                 /\ q.made = IF r.item = None THEN d[x].made ELSE r.item
                 /\ q.made # None \/ (q.unconfirmed /\ ~q.selected)
  <2>1. d[x] \in DraftItem /\ r \in Report
    BY DEF Marked
  <2>2. CASE r.item = None
    BY <2>1, <2>2 DEF Mark, DraftItem, Report
  <2>3. CASE r.item # None
    BY <2>1, <2>3 DEF Mark, DraftItem, Report
  <2> QED
    BY <2>2, <2>3
<1>5. ASSUME NEW x \in DOMAIN e
      PROVE  /\ e[x] \in DraftItem /\ e[x].kind = d[x].kind
             /\ e[x].made # None => \E r \in reports \cup report : r.id = x /\ r.item = e[x].made
  <2>1. CASE Hit(x)
    BY <1>1, <1>3, <1>4, <2>1 DEF Marked
  <2>2. CASE ~Hit(x)
    BY <1>2, <1>3, <2>2 DEF Marked
  <2> QED
    BY <2>1, <2>2
<1>6. ASSUME NEW r \in reports \cup report, r.id \in DOMAIN e
      PROVE  e[r.id].made # None \/ (e[r.id].unconfirmed /\ ~e[r.id].selected)
  <2>1. CASE Hit(r.id)
    BY <1>1, <1>3, <1>4, <1>6, <2>1
  <2>2. CASE ~Hit(r.id)
    BY <1>2, <1>3, <1>6, <2>2 DEF Marked
  <2> QED
    BY <2>1, <2>2
<1>7. NoEpics(e)
  BY <1>3, <1>5 DEF Marked, NoEpics
<1>8. DOMAIN e = DOMAIN items
  BY <1>3 DEF Marked
<1> QED
  BY <1>5, <1>6, <1>7, <1>8 DEF Marked, e

LEMMA DraftIsFresh ==
    ASSUME NEW items \in Interpretations, NoEpics(items)
    PROVE  Marked(CreateDraft(items), items, {})
<1>1. \A x \in DOMAIN items : items[x] \in Item
  BY DEF Interpretations
<1>2. ASSUME NEW x \in DOMAIN items
      PROVE  /\ CreateDraft(items)[x] \in DraftItem /\ CreateDraft(items)[x].made = None
             /\ CreateDraft(items)[x].kind = items[x].kind
  BY <1>1 DEF CreateDraft, DraftItem, Item
<1>3. DOMAIN CreateDraft(items) = DOMAIN items
  BY DEF CreateDraft
<1> QED
  BY <1>2, <1>3 DEF Marked, NoEpics

(* created.reduce(markCreated, createDraft(result)): there is such a function. *)
LEMMA DraftIsBuilt ==
    ASSUME NEW run, run.created \in Seq(SUBSET Report)
    PROVE  \E f : /\ f[0] = CreateDraft(run.items)
                  /\ \A n \in 1 .. Len(run.created) :
                        f[n] = MarkCreated(f[n - 1], run.created[n])
                  /\ DraftOf(run) = f[Len(run.created)]
<1> DEFINE L == Len(run.created)
           Body(f) == [n \in 0 .. L |-> IF n = 0 THEN CreateDraft(run.items)
                                        ELSE MarkCreated(f[n - 1], run.created[n])]
           Built(f, m) == f[0] = CreateDraft(run.items)
                          /\ \A n \in 1 .. m : f[n] = MarkCreated(f[n - 1], run.created[n])
           Late == {m \in 0 .. L : ~\E f : Built(f, m)}
<1>1. L \in Nat
  BY LenProperties
<1>2. Late = {}
  <2> SUFFICES ASSUME Late # {} PROVE FALSE
    OBVIOUS
  <2>0. Late \in SUBSET Nat
    BY <1>1
  <2>1. PICK m \in Late : \A k \in Late : m <= k
    <3> HIDE DEF Late
    <3> QED
      BY <2>0, LeastNatural
  <2>2. m # 0
    <3>1. Built([n \in {0} |-> CreateDraft(run.items)], 0)
      OBVIOUS
    <3> QED
      BY <2>1, <3>1
  <2>3. m - 1 \in 0 .. L /\ m - 1 \notin Late
    <3>1. m \in 0 .. L
      BY <2>1
    <3> HIDE DEF Late, L
    <3> QED
      BY <1>1, <2>1, <2>2, <3>1
  <2>4. PICK f : Built(f, m - 1)
    BY <2>3
  <2> DEFINE g == [n \in 0 .. m |-> IF n = m THEN MarkCreated(f[m - 1], run.created[m]) ELSE f[n]]
  <2>5. g[0] = f[0] /\ g[m] = MarkCreated(f[m - 1], run.created[m])
        /\ \A n \in 0 .. m - 1 : g[n] = f[n]
    BY <1>1, <2>1, <2>2
  <2> HIDE DEF g
  <2>6. Built(g, m)
    <3>1. g[0] = CreateDraft(run.items)
      BY <2>4, <2>5
    <3>2. ASSUME NEW n \in 1 .. m PROVE g[n] = MarkCreated(g[n - 1], run.created[n])
      <4>1. m \in Nat /\ n - 1 \in 0 .. m - 1
        BY <2>0, <2>1
      <4>2. g[n - 1] = f[n - 1]
        BY <2>5, <4>1
      <4>3. CASE n = m
        BY <2>5, <4>2, <4>3
      <4>4. CASE n # m
        <5>1. n \in 1 .. m - 1 /\ n \in 0 .. m - 1
          BY <4>1, <4>4
        <5> QED
          BY <2>4, <2>5, <4>2, <5>1
      <4> QED
        BY <4>3, <4>4
    <3> QED
      BY <3>1, <3>2
  <2> QED
    BY <2>1, <2>6
<1>3. PICK f : Built(f, L)
  <2>1. L \in 0 .. L
    BY <1>1
  <2> HIDE DEF Built, L
  <2> QED
    BY <1>2, <2>1
<1> DEFINE g == [n \in 0 .. L |-> f[n]]
<1>4. g = Body(g)
  BY <1>1, <1>3
<1> DEFINE after == CHOOSE h : h = Body(h)
<1>5. after = Body(after)
  BY <1>4
<1>6. DraftOf(run) = after[L]
  BY DEF DraftOf
<1> HIDE DEF after
<1>7. Built(after, L)
  BY <1>1, <1>5
<1> QED
  BY <1>6, <1>7

LEMMA DraftIsMarked ==
    ASSUME NEW run \in Interpretation, NoEpics(run.items)
    PROVE  Marked(DraftOf(run), run.items, Reports(run))
<1> DEFINE L == Len(run.created)
           Upto(m) == UNION {run.created[k] : k \in 1 .. m}
<1>1. run.items \in Interpretations /\ run.created \in Seq(SUBSET Report)
  BY DEF Interpretation
<1>2. L \in Nat /\ DOMAIN run.created = 1 .. L /\ \A n \in 1 .. L : run.created[n] \in SUBSET Report
  BY <1>1, LenProperties, ElementOfSeq
<1>3. PICK f : /\ f[0] = CreateDraft(run.items)
               /\ \A n \in 1 .. L : f[n] = MarkCreated(f[n - 1], run.created[n])
               /\ DraftOf(run) = f[L]
  BY <1>1, DraftIsBuilt
<1> DEFINE Late == {m \in 0 .. L : ~Marked(f[m], run.items, Upto(m))}
<1>4. Late = {}
  <2> SUFFICES ASSUME Late # {} PROVE FALSE
    OBVIOUS
  <2>0. Late \in SUBSET Nat
    BY <1>2
  <2>1. PICK m \in Late : \A k \in Late : m <= k
    <3> HIDE DEF Late
    <3> QED
      BY <2>0, LeastNatural
  <2>2. m # 0
    <3>1. Upto(0) = {}
      OBVIOUS
    <3> QED
      BY <1>1, <1>3, <2>1, <3>1, DraftIsFresh
  <2>3. m - 1 \in 0 .. L /\ m - 1 \notin Late /\ m \in 1 .. L
    <3>1. m \in 0 .. L
      BY <2>1
    <3> HIDE DEF Late, L
    <3> QED
      BY <1>2, <2>1, <2>2, <3>1
  <2>4. Marked(f[m - 1], run.items, Upto(m - 1))
    BY <2>3
  <2>5. Upto(m) = Upto(m - 1) \cup run.created[m]
    <3>1. 1 .. m = (1 .. m - 1) \cup {m}
      BY <2>3
    <3> QED
      BY <3>1
  <2>6. Marked(MarkCreated(f[m - 1], run.created[m]), run.items, Upto(m - 1) \cup run.created[m])
    BY <1>2, <2>3, <2>4, MarkedAgain
  <2> QED
    BY <1>3, <2>1, <2>3, <2>5, <2>6
<1>5. Marked(f[L], run.items, Upto(L))
  <2>1. L \in 0 .. L
    <3> HIDE DEF L
    <3> QED
      BY <1>2
  <2>2. L \notin Late
    <3> HIDE DEF Late
    <3> QED
      BY <1>4
  <2> QED
    BY <2>1, <2>2
<1>6. Upto(L) = Reports(run)
  BY <1>2 DEF Reports
<1> QED
  BY <1>3, <1>5, <1>6

LEMMA DraftsStart == DraftsInit => DraftsInv
<1> SUFFICES ASSUME DraftsInit PROVE DraftsInv
  OBVIOUS
<1> USE DraftsAssumption
<1>1. /\ runs = << >> /\ draft = NoDraft /\ creation = NoCreation /\ answers = 0
      /\ issues = << >> /\ folded = << >> /\ previous = << >> /\ granularity \in Granularities
  BY DEF DraftsInit
<1>2. DOMAIN << >> = {} /\ DOMAIN << >> = 1 .. 0 /\ << >> \in Seq(Interpretation)
  OBVIOUS
<1>3. RunsFit /\ DraftFits
  BY <1>1, <1>2 DEF RunsFit, DraftFits
<1>4. IssuesFit
  BY <1>1, <1>2 DEF IssuesFit
<1>5. CreationFits
  BY <1>1 DEF CreationFits, NoCreation, SentFits, SaidFits, ServedFits, NeverTwice, RequestIsValid
<1> QED
  BY <1>1, <1>3, <1>4, <1>5 DEF DraftsInv

(* The run that is shown. *)
LEMMA ShownIs ==
    ASSUME DraftsInv
    PROVE  /\ runs # << >> => /\ Shown \in DOMAIN runs /\ runs[Shown].id = selectedId
                              /\ Marked(draft, Items, Reports(runs[Shown]))
           /\ draft # NoDraft => runs # << >>
           /\ \A n \in DOMAIN runs : runs[n].id = selectedId => n = Shown
<1>1. runs # << >> => Shown \in DOMAIN runs /\ runs[Shown].id = selectedId
  BY DEF DraftsInv, DraftFits, Shown
<1>2. ASSUME NEW n \in DOMAIN runs, runs[n].id = selectedId PROVE n = Shown
  BY <1>2 DEF DraftsInv, RunsFit, Shown
<1> QED
  BY <1>1, <1>2 DEF DraftsInv, DraftFits, Items

LEMMA RunsAre ==
    ASSUME DraftsInv
    PROVE  /\ Len(runs) \in Nat /\ DOMAIN runs = 1 .. Len(runs)
           /\ \A n \in DOMAIN runs : runs[n] \in Interpretation
           /\ runs = << >> <=> DOMAIN runs = {}
<1>1. runs \in Seq(Interpretation)
  BY DEF DraftsInv, RunsFit
<1>2. Len(runs) \in Nat /\ DOMAIN runs = 1 .. Len(runs)
  BY <1>1, LenProperties
<1>3. \A n \in DOMAIN runs : runs[n] \in Interpretation
  BY <1>1, <1>2, ElementOfSeq
<1>4. runs = << >> <=> Len(runs) = 0
  BY <1>1, EmptySeq
<1> QED
  BY <1>2, <1>3, <1>4

LEMMA NoneSent ==
    ASSUME DraftsInv, ~Frozen PROVE creation = NoCreation
BY DEF DraftsInv, CreationFits, Frozen

LEMMA IdleFits ==
    ASSUME creation' = NoCreation PROVE CreationFits'
BY DEF CreationFits, NoCreation, SentFits, SaidFits, ServedFits, NeverTwice, RequestIsValid

LEMMA RunsStill ==
    ASSUME DraftsInv, UNCHANGED <<runs, folded, granularity, answers>>
    PROVE  RunsFit'
BY DEF DraftsInv, RunsFit, OneItemEach, NoEpics

LEMMA IssuesStill ==
    ASSUME DraftsInv, UNCHANGED <<issues, folded>>, previous' \in {previous, folded}
    PROVE  IssuesFit'
BY DEF DraftsInv, IssuesFit

(* What was sent is fitted by the runs that are left of it. *)
LEMMA RunsCarried ==
    ASSUME DraftsInv,
           \A n \in DOMAIN runs' : \/ runs'[n].id # creation.run
                                   \/ \E m \in DOMAIN runs : runs'[n] = runs[m],
           runs' # << >>, answers' \in Nat, answers <= answers',
           UNCHANGED <<granularity, creation, saving, previous, folded>>
    PROVE  CreationFits'
<1>1. CASE creation = NoCreation
  BY <1>1, IdleFits
<1>2. CASE creation # NoCreation
  <2>0. ASSUME NEW n \in DOMAIN runs', runs'[n].id = creation.run
        PROVE  \E m \in DOMAIN runs :
                  /\ runs[m].id = creation.run /\ runs'[n] = runs[m]
                  /\ Reports(runs[n])' = Reports(runs[m])
    BY <2>0 DEF Reports
  <2>1. SentFits'
    BY <1>2, <2>0 DEF DraftsInv, CreationFits, SentFits, HasIssue
  <2>2. SaidFits'
    BY <1>2 DEF DraftsInv, CreationFits, SaidFits, Left
  <2>3. ServedFits'
    BY <1>2, <2>0 DEF DraftsInv, CreationFits, ServedFits, OneItemEach, HasIssue
  <2>4. NeverTwice'
    BY <1>2 DEF DraftsInv, CreationFits, NeverTwice
  <2>5. RequestIsValid'
    BY <1>2 DEF DraftsInv, CreationFits, RequestIsValid, GranularityKept
  <2>6. creation.run \in 1 .. answers'
    BY <1>2 DEF DraftsInv, CreationFits
  <2> QED
    BY <1>2, <2>1, <2>2, <2>3, <2>4, <2>5, <2>6 DEF DraftsInv, CreationFits
<1> QED
  BY <1>1, <1>2

(* What the user changes *)
LEMMA EditKeeps ==
    ASSUME DraftsInv, NEW x \in DOMAIN draft,
           \/ Toggle(x) \/ SetUpdatesPrevious(x)
           \/ \E k \in Kinds : SetKind(x, k)
           \/ \E t \in Titles \cup {Blank} : SetTitle(x, t)
    PROVE  DraftsInv'
<1>0. Editing
  BY DEF Toggle, SetUpdatesPrevious, SetKind, SetTitle
<1>1. creation = NoCreation /\ UNCHANGED edited
  BY <1>0, NoneSent DEF Editing
<1>2. runs # << >>
  BY ShownIs DEF NoDraft
<1>3. Marked(draft, Items, Reports(runs[Shown]))
  BY <1>2, ShownIs
<1> DEFINE Same(p, q) == p \in DraftItem /\ p.made = q.made /\ p.unconfirmed = q.unconfirmed
<1>4. /\ DOMAIN draft' = DOMAIN draft
      /\ \A y \in DOMAIN draft :
            /\ Same(draft'[y], draft[y])
            /\ draft'[y].selected /\ ~draft[y].selected => CanResend(draft[y])
            /\ draft'[y].kind = draft[y].kind \/ granularity # "issue"
  <2>0. \A y \in DOMAIN draft : draft[y] \in DraftItem
    BY <1>3 DEF Marked
  <2>1. CASE Toggle(x)
    <3>1. draft[x].selected \/ CanResend(draft[x])
      BY <2>1 DEF Toggle
    <3>2. draft' = [y \in DOMAIN draft |->
            IF y = x THEN [draft[y] EXCEPT !.selected = ~@]
            ELSE IF draft[x].selected /\ draft[x].kind = "epic" /\ Items[y].parent = x
              THEN [draft[y] EXCEPT !.selected = FALSE] ELSE draft[y]]
      BY <2>1 DEF Toggle
    <3>3. ASSUME NEW d \in DraftItem, NEW b \in BOOLEAN
          PROVE  LET q == [d EXCEPT !.selected = b]
                 IN  Same(q, d) /\ q.selected = b /\ q.kind = d.kind
      BY DEF DraftItem
    <3>4. DOMAIN draft' = DOMAIN draft
      BY <3>2
    <3>5. ASSUME NEW y \in DOMAIN draft
          PROVE  \/ draft'[y] = draft[y]
                 \/ \E b \in BOOLEAN : /\ draft'[y] = [draft[y] EXCEPT !.selected = b]
                                       /\ b /\ ~draft[y].selected => CanResend(draft[y])
      BY <3>1, <3>2, <2>0 DEF DraftItem
    <3> HIDE DEF Same
    <3>6. ASSUME NEW y \in DOMAIN draft
          PROVE  /\ Same(draft'[y], draft[y])
                 /\ draft'[y].selected /\ ~draft[y].selected => CanResend(draft[y])
                 /\ draft'[y].kind = draft[y].kind
      <4>1. CASE draft'[y] = draft[y]
        BY <2>0, <4>1 DEF Same
      <4>2. ASSUME NEW b \in BOOLEAN, draft'[y] = [draft[y] EXCEPT !.selected = b],
                   b /\ ~draft[y].selected => CanResend(draft[y])
            PROVE  /\ Same(draft'[y], draft[y])
                   /\ draft'[y].selected /\ ~draft[y].selected => CanResend(draft[y])
                   /\ draft'[y].kind = draft[y].kind
        BY <2>0, <3>3, <4>2
      <4> QED
        BY <3>5, <4>1, <4>2
    <3> QED
      BY <3>4, <3>6
  <2>2. CASE SetUpdatesPrevious(x)
    BY <2>0, <2>2 DEF SetUpdatesPrevious, DraftItem
  <2>3. ASSUME NEW k \in Kinds, SetKind(x, k)
        PROVE  /\ granularity # "issue"
               /\ draft' = [draft EXCEPT ![x].kind = k]
    BY <2>3 DEF SetKind
  <2>4. ASSUME NEW t \in Titles \cup {Blank}, SetTitle(x, t)
        PROVE  draft' = [draft EXCEPT ![x].title = t]
    BY <2>4 DEF SetTitle
  <2>5. CASE \E k \in Kinds : SetKind(x, k)
    BY <2>0, <2>3, <2>5 DEF DraftItem
  <2>6. CASE \E t \in Titles \cup {Blank} : SetTitle(x, t)
    BY <2>0, <2>4, <2>6 DEF DraftItem
  <2> QED
    BY <2>1, <2>2, <2>5, <2>6
<1>5. Marked(draft', Items, Reports(runs[Shown]))
  <2>1. \A y \in DOMAIN draft : draft'[y].selected \in BOOLEAN
    BY <1>4 DEF DraftItem
  <2>2. ASSUME NEW r \in Reports(runs[Shown]), r.id \in DOMAIN draft'
        PROVE  draft'[r.id].made # None \/ (draft'[r.id].unconfirmed /\ ~draft'[r.id].selected)
    BY <1>3, <1>4, <2>2 DEF Marked, CanResend
  <2>3. NoEpics(draft')
    BY <1>3, <1>4 DEF Marked, NoEpics
  <2> QED
    BY <1>3, <1>4, <2>2, <2>3 DEF Marked
<1>6. DraftFits'
  <2>1. ASSUME NEW n \in DOMAIN runs, runs[n].id = selectedId PROVE n = Shown
    BY <2>1, ShownIs
  <2>2. Items = runs[Shown].items
    BY DEF Items
  <2>3. \A n \in DOMAIN runs : runs[n].id = selectedId =>
           Marked(draft', runs[n].items, Reports(runs[n]))
    BY <1>5, <2>1, <2>2
  <2> QED
    BY <1>1, <1>2, <2>3 DEF DraftFits, DraftsInv, Marked, NoEpics, Reports, edited
<1> QED
  BY <1>1, <1>6, RunsStill, IssuesStill, IdleFits DEF DraftsInv, edited

(* Interpretations *)
LEMMA FoldedAreIssues ==
    ASSUME DraftsInv PROVE DOMAIN folded \subseteq Issues /\ None \notin DOMAIN folded
<1>1. PICK m \in 0 .. MaxIssues : DOMAIN folded \subseteq 1 .. m
  BY DEF DraftsInv, IssuesFit
<1>2. 1 .. m \subseteq Issues
  BY DraftsAssumption DEF Issues
<1> QED
  BY <1>1, <1>2, DraftsAssumption

LEMMA BeforeOthers ==
    ASSUME NEW S, NEW s \in Seq(S), NEW e \in S, NEW k \in 1 .. Len(s) + 1
    PROVE  LET t == SubSeq(<<e>> \o s, 1, k)
           IN  /\ t \in Seq(S) /\ DOMAIN t = 1 .. k
               /\ t[1] = e
               /\ \A n \in 2 .. k : n - 1 \in DOMAIN s /\ t[n] = s[n - 1]
<1> DEFINE c == <<e>> \o s
           t == SubSeq(c, 1, k)
<1>1. Len(s) \in Nat /\ DOMAIN s = 1 .. Len(s)
  BY LenProperties
<1>2. /\ c \in Seq(S) /\ Len(c) = Len(s) + 1
      /\ \A n \in 1 .. Len(s) + 1 : c[n] = IF n = 1 THEN e ELSE s[n - 1]
  BY <1>1, ConcatProperties
<1> HIDE DEF c
<1>3. t \in Seq(S) /\ Len(t) = k /\ DOMAIN t = 1 .. k /\ \A n \in 1 .. k : t[n] = c[n]
  BY <1>1, <1>2, SubSeqProperties, LenProperties
<1> HIDE DEF t
<1>4. t[1] = e /\ \A n \in 2 .. k : n - 1 \in DOMAIN s /\ t[n] = s[n - 1]
  BY <1>1, <1>2, <1>3
<1> QED
  BY <1>3, <1>4 DEF t, c

LEMMA InterpretKeeps ==
    ASSUME DraftsInv, NEW a \in Answers, NEW link \in [DOMAIN a -> DOMAIN folded \cup {None}],
           Interpret(a, link)
    PROVE  DraftsInv'
<1> DEFINE items == [x \in DOMAIN a |->
                        [kind |-> a[x].kind, title |-> a[x].title,
                         parent |-> a[x].parent, previous |-> link[x]]]
           run == [id |-> answers + 1, items |-> items, created |-> << >>]
           k == IF Len(runs) < MaxInterpretations THEN Len(runs) + 1 ELSE MaxInterpretations
<1>0. answers \in Nat /\ MaxInterpretations \in Nat \ {0} /\ IsFiniteSet(DOMAIN a) /\ a \in Propose
  BY DraftsAssumption DEF DraftsInv
<1>1. /\ GranularityKept(a)
      /\ \A x, y \in DOMAIN a : x # y /\ link[x] # None => link[x] # link[y]
      /\ runs' = SubSeq(<<run>> \o runs, 1, k) /\ draft' = DraftOf(run)
      /\ answers' = answers + 1 /\ selectedId' = answers + 1
      /\ UNCHANGED <<granularity, creation, saving, previous, issues, folded>>
  BY DEF Interpret
<1>2. DOMAIN folded \subseteq Issues /\ None \notin DOMAIN folded
  BY FoldedAreIssues
<1>3. items \in Interpretations
  <2>1. DOMAIN folded \subseteq Issues
    BY <1>2
  <2>2. PICK I \in SUBSET LocalIds \ {{}} : a \in [I -> Proposal]
    BY <1>0 DEF Propose
  <2>3. \A x \in I : a[x] \in Proposal /\ link[x] \in Issues \cup {None}
    BY <2>1, <2>2
  <2>4. items \in [I -> Item]
    BY <2>2, <2>3 DEF Proposal, Item
  <2> QED
    BY <2>2, <2>4 DEF Interpretations
<1>4. NoEpics(items)
  BY <1>1 DEF GranularityKept, NoEpics
<1>5. DOMAIN items = DOMAIN a /\ \A x \in DOMAIN a : items[x].previous = link[x]
  OBVIOUS
<1> HIDE DEF items
<1>16. OneItemEach(DOMAIN folded, items, {})
  BY <1>1, <1>2, <1>5 DEF OneItemEach, HasIssue
<1>6. run \in Interpretation /\ Reports(run) = {}
  BY <1>0, <1>3 DEF Interpretation, Reports
<1>7. k \in 1 .. Len(runs) + 1
  BY <1>0, RunsAre
<1>8. /\ runs' \in Seq(Interpretation) /\ DOMAIN runs' = 1 .. k /\ runs'[1] = run
      /\ \A n \in 2 .. k : n - 1 \in DOMAIN runs /\ runs'[n] = runs[n - 1]
  <2> HIDE DEF run, k
  <2> QED
    BY <1>1, <1>6, <1>7, BeforeOthers DEF DraftsInv, RunsFit
<1>9. run.id = answers + 1 /\ run.items = items
  OBVIOUS
<1>10. Marked(draft', run.items, Reports(run))
  BY <1>1, <1>4, <1>6, <1>9, DraftIsMarked
<1> HIDE DEF run, k
<1>11. ASSUME NEW n \in DOMAIN runs'
       PROVE  \/ n = 1 /\ runs'[n] = run
              \/ /\ n - 1 \in DOMAIN runs /\ runs'[n] = runs[n - 1]
                 /\ runs[n - 1].id \in 1 .. answers /\ runs'[n].id # answers'
  <2>1. n = 1 \/ n \in 2 .. k
    BY <1>7, <1>8, RunsAre
  <2> QED
    BY <1>0, <1>1, <1>8, <2>1 DEF DraftsInv, RunsFit
<1>12. RunsFit'
  <2>1. ASSUME NEW n \in DOMAIN runs'
        PROVE  /\ runs'[n].id \in 1 .. answers' /\ IsFiniteSet(DOMAIN runs'[n].items)
               /\ NoEpics(runs'[n].items)
               /\ OneItemEach(DOMAIN folded, runs'[n].items, Reports(runs'[n]))
    <3>1. CASE n = 1 /\ runs'[n] = run
      <4>1. run.id \in 1 .. answers' /\ IsFiniteSet(DOMAIN run.items)
        BY <1>0, <1>1, <1>5, <1>9
      <4>2. NoEpics(run.items) /\ OneItemEach(DOMAIN folded, run.items, Reports(run))
        BY <1>4, <1>6, <1>9, <1>16
      <4> QED
        BY <3>1, <4>1, <4>2
    <3>2. ASSUME n - 1 \in DOMAIN runs, runs'[n] = runs[n - 1]
          PROVE  /\ runs'[n].id \in 1 .. answers' /\ IsFiniteSet(DOMAIN runs'[n].items)
                 /\ NoEpics(runs'[n].items)
                 /\ OneItemEach(DOMAIN folded, runs'[n].items, Reports(runs'[n]))
      <4>1. /\ runs[n - 1].id \in 1 .. answers /\ IsFiniteSet(DOMAIN runs[n - 1].items)
            /\ NoEpics(runs[n - 1].items)
            /\ OneItemEach(DOMAIN folded, runs[n - 1].items, Reports(runs[n - 1]))
        BY <3>2 DEF DraftsInv, RunsFit
      <4>2. \A id \in 1 .. answers : id \in 1 .. answers'
        BY <1>0, <1>1
      <4> QED
        BY <3>2, <4>1, <4>2
    <3> QED
      BY <1>11, <3>1, <3>2
  <2>2. ASSUME NEW n \in DOMAIN runs', NEW m \in DOMAIN runs', runs'[n].id = runs'[m].id
        PROVE  n = m
    <3>1. n \in Nat /\ m \in Nat
      BY <1>7, <1>8, RunsAre
    <3>2. n = m
      <4>0. runs'[1].id = answers'
        BY <1>1, <1>8, <1>9
      <4>1. CASE n = 1 \/ m = 1
        BY <1>11, <2>2, <4>0, <4>1
      <4>2. CASE n # 1 /\ m # 1
        <5>1. n - 1 = m - 1
          BY <1>11, <2>2, <4>2 DEF DraftsInv, RunsFit
        <5> QED
          BY <3>1, <5>1
      <4> QED
        BY <4>1, <4>2
    <3> QED
      BY <3>2
  <2>3. \A n \in DOMAIN runs' :
            /\ (runs[n].id \in 1 .. answers /\ IsFiniteSet(DOMAIN runs[n].items))'
            /\ NoEpics(runs[n].items)'
    BY <1>1, <2>1 DEF NoEpics
  <2>4. \A n \in DOMAIN runs' : OneItemEach(DOMAIN folded, runs[n].items, Reports(runs[n]))'
    BY <1>1, <2>1 DEF OneItemEach, HasIssue, Reports
  <2> QED
    BY <1>8, <2>2, <2>3, <2>4 DEF RunsFit
<1>13. 1 \in DOMAIN runs' /\ runs' # << >>
  BY <1>7, <1>8, RunsAre
<1>14. DraftFits'
  <2>1. ASSUME NEW n \in DOMAIN runs', runs'[n].id = selectedId'
        PROVE  Marked(draft', runs'[n].items, Reports(runs'[n]))
    BY <1>1, <1>9, <1>10, <1>11, <2>1
  <2>2. runs'[1].id = selectedId'
    BY <1>1, <1>8, <1>9
  <2>3. UNCHANGED granularity
    BY <1>1
  <2> QED
    BY <1>13, <2>1, <2>2, <2>3 DEF DraftFits, Marked, NoEpics, Reports
<1>15. CreationFits'
  <2>1. CASE creation = NoCreation
    BY <1>1, <2>1, IdleFits
  <2>2. CASE creation # NoCreation
    <3>1. creation.run \in 1 .. answers
      BY <2>2 DEF DraftsInv, CreationFits
    <3>2. \A n \in DOMAIN runs' : \/ runs'[n].id # creation.run
                                  \/ \E m \in DOMAIN runs : runs'[n] = runs[m]
      BY <1>0, <1>9, <1>11, <3>1
    <3>3. answers' \in Nat /\ answers <= answers'
      BY <1>0, <1>1
    <3> QED
      BY <1>1, <1>13, <3>2, <3>3, RunsCarried
  <2> QED
    BY <2>1, <2>2
<1> QED
  BY <1>0, <1>1, <1>12, <1>14, <1>15, IssuesStill DEF DraftsInv

LEMMA SelectKeeps ==
    ASSUME DraftsInv, NEW n \in DOMAIN runs, Select(n) PROVE DraftsInv'
<1>1. /\ selectedId' = runs[n].id /\ draft' = DraftOf(runs[n])
      /\ UNCHANGED <<granularity, runs, creation, saving, previous, issues, folded, answers>>
  BY DEF Select
<1>2. runs[n] \in Interpretation /\ NoEpics(runs[n].items) /\ runs # << >>
  BY RunsAre DEF DraftsInv, RunsFit
<1>3. Marked(draft', runs[n].items, Reports(runs[n]))
  BY <1>1, <1>2, DraftIsMarked
<1>4. \A m \in DOMAIN runs : runs[m].id = runs[n].id => m = n
  BY DEF DraftsInv, RunsFit
<1>5. \A m \in DOMAIN runs : runs[m].id = selectedId' =>
         Marked(draft', runs[m].items, Reports(runs[m]))
  BY <1>1, <1>3, <1>4
<1>6. DraftFits'
  BY <1>1, <1>2, <1>5 DEF DraftFits, Marked, NoEpics, Reports
<1>7. CreationFits'
  BY <1>1, <1>2, RunsCarried DEF DraftsInv
<1> QED
  BY <1>1, <1>6, <1>7, RunsStill, IssuesStill DEF DraftsInv

(* Creation *)
LEMMA TargetIs ==
    ASSUME DraftsInv, runs # << >>, NEW x \in DOMAIN draft
    PROVE  /\ x \in DOMAIN Items /\ x \in LocalIds
           /\ Target(x) = None => draft[x].made = None
           /\ Target(x) # None =>
                /\ Target(x) \in DOMAIN folded
                /\ HasIssue(Items, Reports(runs[Shown]), x, Target(x))
<1>1. Marked(draft, Items, Reports(runs[Shown])) /\ Shown \in DOMAIN runs
  BY ShownIs
<1>2. OneItemEach(DOMAIN folded, Items, Reports(runs[Shown])) /\ runs[Shown] \in Interpretation
  BY <1>1, RunsAre DEF DraftsInv, RunsFit, Items
<1>3. x \in DOMAIN Items /\ x \in LocalIds
  <2>1. PICK I \in SUBSET LocalIds : Items \in [I -> Item]
    BY <1>2 DEF Interpretation, Interpretations, Items
  <2> QED
    BY <1>1, <2>1 DEF Marked
<1>4. CASE draft[x].made # None
  <2>1. Target(x) = draft[x].made
    BY <1>4 DEF Target
  <2>2. PICK r \in Reports(runs[Shown]) : r.id = x /\ r.item = draft[x].made
    BY <1>1, <1>4 DEF Marked
  <2> QED
    BY <1>2, <1>3, <1>4, <2>1, <2>2 DEF OneItemEach, HasIssue
<1>5. CASE draft[x].made = None
  BY <1>2, <1>3, <1>5 DEF Target, OneItemEach, HasIssue
<1> QED
  BY <1>3, <1>4, <1>5

LEMMA CreateKeeps ==
    ASSUME DraftsInv, Create PROVE DraftsInv'
<1> DEFINE run == runs[Shown]
           items == BuildInterpretation
<1>1. /\ ~Frozen /\ Ready /\ draft # NoDraft
      /\ creation' = [step |-> "sent", run |-> selectedId, items |-> items,
                      said |-> Announced, report |-> {}]
      /\ UNCHANGED <<granularity, runs, selectedId, draft, saving, previous, issues, folded, answers>>
  BY DEF Create
<1>2. /\ runs # << >> /\ Shown \in DOMAIN runs /\ run.id = selectedId
      /\ Marked(draft, Items, Reports(run))
      /\ \A n \in DOMAIN runs : runs[n].id = selectedId => n = Shown
  BY <1>1, ShownIs
<1>3. /\ DOMAIN items = Chosen /\ Chosen \subseteq DOMAIN draft
      /\ \A x \in Chosen : /\ items[x].kind = draft[x].kind /\ items[x].title = draft[x].title
                           /\ items[x].parent = EffectiveParent(x)
                           /\ items[x].previous = Target(x)
                           /\ draft[x].selected
  BY DEF BuildInterpretation, Chosen
<1> HIDE DEF items, run
<1>4. creation'.step = "sent" /\ creation'.run = selectedId /\ creation'.items = items
      /\ creation'.said = Announced /\ creation'.report = {}
  BY <1>1
<1>5. SentFits'
  <2>1. IsFiniteSet(Chosen)
    <3>1. IsFiniteSet(DOMAIN draft)
      BY <1>2 DEF DraftsInv, RunsFit, Marked, run, Items
    <3> QED
      BY <1>3, <3>1, FS_Subset
  <2>2. \A x \in Chosen :
          /\ x \in DOMAIN Items
          /\ items[x].previous # None => HasIssue(Items, Reports(run), x, items[x].previous)
    BY <1>2, <1>3, TargetIs DEF run
  <2>3. \A n \in DOMAIN runs : runs[n].id = selectedId => runs[n] = run
    BY <1>2 DEF run
  <2>4. Items = run.items
    BY DEF Items, run
  <2> QED
    BY <1>1, <1>3, <1>4, <2>1, <2>2, <2>3, <2>4 DEF SentFits, Reports, HasIssue
<1>6. SaidFits'
  <2> SUFFICES ASSUME NEW n \in DOMAIN runs, NEW x \in Chosen, NEW i \in DOMAIN previous,
                      runs[n].id = selectedId, runs[n].created = << >>,
                      items[x].previous \in DOMAIN previous,
                      previous[items[x].previous].kind = "epic",
                      previous[items[x].previous].title # items[x].title,
                      previous[i].kind = "issue",
                      \A y \in Chosen : items[y].previous # i
               PROVE  previous[items[x].previous].title \in Announced
    BY <1>1, <1>3, <1>4 DEF SaidFits, Left
  <2>1. Reports(run) = {}
    <3>1. runs[n] = run
      BY <1>2 DEF run
    <3> QED
      BY <3>1 DEF Reports
  <2>2. \A y \in DOMAIN draft : draft[y].made = None
    BY <1>2, <2>1 DEF Marked
  <2>3. i # None
    BY FoldedAreIssues DEF DraftsInv, IssuesFit
  <2>4. i \in LeftBehind
    BY <1>3, <2>2, <2>3 DEF LeftBehind
  <2>5. previous[items[x].previous].title \in RenamedEpics
    BY <1>3, <2>2 DEF RenamedEpics
  <2> QED
    BY <2>4, <2>5 DEF Announced
<1>7. NeverTwice'
  <2> SUFFICES ASSUME NEW n \in DOMAIN runs, runs[n].id = selectedId, NEW x \in Chosen,
                      NEW k \in DOMAIN runs[n].created, items[x].previous = None,
                      NEW r \in runs[n].created[k], r.id = x
               PROVE  FALSE
    BY <1>1, <1>3, <1>4 DEF NeverTwice
  <2>1. r \in Reports(run)
    <3>1. runs[n] = run
      BY <1>2 DEF run
    <3> QED
      BY <3>1 DEF Reports
  <2>2. draft[x].made = None /\ draft[x].selected
    BY <1>2, <1>3, TargetIs
  <2> QED
    BY <1>2, <1>3, <2>1, <2>2 DEF Marked
<1>8. RequestIsValid'
  <2>1. Chosen # {} /\ (granularity = "epic" => \E x \in Chosen : items[x].kind = "epic")
    BY <1>1, <1>3 DEF Ready
  <2>2. ASSUME NEW x \in Chosen
        PROVE  /\ items[x].title # Blank
               /\ items[x].parent # None =>
                     /\ items[x].kind = "issue" /\ items[x].parent \in Chosen
                     /\ items[items[x].parent].kind = "epic"
               /\ items[x].previous # None => items[x].previous \in DOMAIN folded
    <3>1. items[x].title # Blank
      BY <1>1, <1>3 DEF Ready
    <3>2. draft[x].kind \in Kinds
      BY <1>2, <1>3 DEF Marked, DraftItem
    <3>3. items[x].parent # None =>
             /\ items[x].kind = "issue" /\ items[x].parent \in Chosen
             /\ items[items[x].parent].kind = "epic"
      BY <1>3, <3>2 DEF EffectiveParent, Kinds
    <3> QED
      BY <1>2, <1>3, <3>1, <3>3, TargetIs
  <2>3. ASSUME NEW x \in Chosen, NEW y \in Chosen, x # y, items[x].previous # None,
               items[x].previous = items[y].previous
        PROVE  FALSE
    <3>1. OneItemEach(DOMAIN folded, Items, Reports(run))
      BY <1>2 DEF DraftsInv, RunsFit, Items, run
    <3> QED
      BY <1>2, <1>3, <2>3, <3>1, TargetIs DEF OneItemEach, run
  <2>4. GranularityKept(items)
    BY <1>2, <1>3, <2>1 DEF GranularityKept, Marked, NoEpics
  <2> QED
    BY <1>1, <1>3, <1>4, <2>1, <2>2, <2>3, <2>4 DEF RequestIsValid, GranularityKept
<1>9. CreationFits'
  <2>1. ServedFits'
    BY <1>4 DEF ServedFits
  <2>2. selectedId \in 1 .. answers
    BY <1>2 DEF DraftsInv, RunsFit, run
  <2>3. \A x \in Chosen : x \in LocalIds
    BY <1>2, <1>3, TargetIs
  <2>4. creation' = [step |-> creation'.step, run |-> creation'.run, items |-> creation'.items,
                     said |-> creation'.said, report |-> creation'.report]
    BY <1>1, <1>4
  <2> QED
    BY <1>1, <1>2, <1>3, <1>4, <1>5, <1>6, <1>7, <1>8, <2>1, <2>2, <2>3, <2>4
       DEF CreationFits, Frozen, DraftsInv
<1>10. DraftFits'
  BY <1>1 DEF DraftsInv, DraftFits, Marked, NoEpics, Reports
<1> QED
  BY <1>1, <1>9, <1>10, RunsStill, IssuesStill DEF DraftsInv

(* What the server and GitHub did with a creation: `m` issues were there,  *)
(* `c` are new, and `at` says which issue an item that was reached has.    *)
ServedAs(reached, lost, m, c, at) ==
    /\ DOMAIN issues = 1 .. m /\ DOMAIN issues' = 1 .. m + c /\ m + c <= MaxIssues
    /\ reached \subseteq DOMAIN creation.items /\ lost \subseteq DOMAIN creation.items
    /\ DOMAIN folded' = DOMAIN folded \cup {at[x] : x \in reached}
    /\ \A x \in reached :
          /\ creation.items[x].previous # None => at[x] = creation.items[x].previous
          /\ creation.items[x].previous = None => at[x] \in m + 1 .. m + c
    /\ \A x, y \in reached :
          creation.items[x].previous = None /\ creation.items[y].previous = None
          /\ at[x] = at[y] => x = y
    /\ \A j \in DOMAIN issues :
          \/ issues'[j] = issues[j]
          \/ \E y \in DOMAIN creation.items : /\ creation.items[y].previous = j
                                              /\ issues'[j].title = creation.items[y].title
    /\ creation' = [creation EXCEPT !.step = "served", !.report =
           {[id |-> x, item |-> at[x], confirmed |-> TRUE] : x \in reached} \cup
           {[id |-> x, item |-> creation.items[x].previous, confirmed |-> FALSE] : x \in lost}]

LEMMA ServeIs ==
    ASSUME DraftsInv, NEW reached \in SUBSET LocalIds, NEW lost \in SUBSET LocalIds,
           NEW done \in BOOLEAN, Serve(reached, lost, done)
    PROVE  \E m \in Nat, c \in Nat : \E at : ServedAs(reached, lost, m, c, at)
<1> DEFINE items   == creation.items
           touched == reached \cup IF done THEN lost ELSE {}
           new     == {x \in touched : items[x].previous = None}
           number  == Numbered(new, Cardinality(DOMAIN issues))
           at      == [x \in touched |-> IF x \in new THEN number[x] ELSE items[x].previous]
           issueOf(x) == [kind |-> items[x].kind, title |-> items[x].title,
                          parent |-> IF items[x].parent = None THEN Blank
                                     ELSE items[items[x].parent].title]
           foldOf(x)  == [kind |-> items[x].kind, title |-> items[x].title]
           Of(i, s)   == CHOOSE x \in s : at[x] = i
           c == Cardinality(new)
<1>1. /\ creation.step = "sent"
      /\ reached \subseteq DOMAIN items /\ lost \subseteq DOMAIN items
      /\ Cardinality(DOMAIN issues) + c <= MaxIssues
      /\ issues' = [i \in DOMAIN issues \cup {at[x] : x \in touched} |->
                       IF \E x \in touched : at[x] = i THEN issueOf(Of(i, touched)) ELSE issues[i]]
      /\ folded' = [i \in DOMAIN folded \cup {at[x] : x \in reached} |->
                       IF \E x \in reached : at[x] = i THEN foldOf(Of(i, reached)) ELSE folded[i]]
      /\ creation' = [creation EXCEPT !.step = "served", !.report =
             {[id |-> x, item |-> at[x], confirmed |-> TRUE] : x \in reached} \cup
             {[id |-> x, item |-> items[x].previous, confirmed |-> FALSE] : x \in lost}]
  BY DEF Serve
<1>2. PICK m \in 0 .. MaxIssues : DOMAIN issues = 1 .. m
  BY DEF DraftsInv, IssuesFit
<1>3. m \in Nat /\ Cardinality(DOMAIN issues) = m
  BY <1>2, DraftsAssumption, FS_Interval
<1>4. IsFiniteSet(new)
  <2>1. IsFiniteSet(DOMAIN items)
    BY <1>1 DEF DraftsInv, CreationFits, SentFits
  <2>2. new \subseteq DOMAIN items
    BY <1>1
  <2> QED
    BY <2>1, <2>2, FS_Subset
<1>5. /\ c \in Nat /\ number \in [new -> m + 1 .. m + c]
      /\ \A x, y \in new : x # y => number[x] # number[y]
      /\ \A k \in m + 1 .. m + c : \E x \in new : number[x] = k
  <2> HIDE DEF new
  <2> QED
    BY <1>3, <1>4, NumberedIs
<1>6. \A x \in touched : x \notin new => items[x].previous \in 1 .. m
  <2>1. \A x \in DOMAIN items : items[x].previous # None => items[x].previous \in DOMAIN folded
    BY <1>1 DEF DraftsInv, CreationFits, RequestIsValid
  <2> QED
    BY <1>1, <1>2, <2>1 DEF DraftsInv, IssuesFit
<1>7. /\ \A x \in touched : at[x] = IF x \in new THEN number[x] ELSE items[x].previous
      /\ \A x \in new : x \in touched
      /\ \A x \in touched : x \in new <=> items[x].previous = None
  OBVIOUS
<1>8. reached \subseteq touched /\ touched \subseteq DOMAIN items
  BY <1>1
<1>9. m + c <= MaxIssues
  BY <1>1, <1>3
<1> HIDE DEF c, number, at, new, touched
<1>10. DOMAIN issues' = 1 .. m + c
  <2>1. DOMAIN issues' = (1 .. m) \cup {at[x] : x \in touched}
    BY <1>1, <1>2
  <2>2. \A x \in touched : at[x] \in 1 .. m + c
    BY <1>3, <1>5, <1>6, <1>7
  <2>3. \A k \in 1 .. m + c : k \in 1 .. m \/ \E x \in touched : at[x] = k
    <3>1. ASSUME NEW k \in 1 .. m + c, k \notin 1 .. m PROVE \E x \in touched : at[x] = k
      <4>1. k \in m + 1 .. m + c
        BY <1>3, <1>5, <3>1
      <4> QED
        BY <1>5, <1>7, <4>1
    <3> QED
      BY <3>1
  <2>4. \A k \in 1 .. m : k \in 1 .. m + c
    BY <1>3, <1>5
  <2> QED
    BY <2>1, <2>2, <2>3, <2>4
<1>11. ASSUME NEW j \in DOMAIN issues
       PROVE  \/ issues'[j] = issues[j]
              \/ \E y \in DOMAIN items : items[y].previous = j /\ issues'[j].title = items[y].title
  <2>1. CASE \E x \in touched : at[x] = j
    <3> DEFINE y == Of(j, touched)
    <3>1. y \in touched /\ at[y] = j
      BY <2>1
    <3>2. issues'[j] = issueOf(y)
      BY <1>1, <2>1
    <3> HIDE DEF y
    <3>3. y \notin new
      <4> SUFFICES ASSUME y \in new PROVE FALSE
        OBVIOUS
      <4>1. j \in m + 1 .. m + c /\ j \in 1 .. m
        BY <1>2, <1>5, <1>7, <3>1
      <4> QED
        BY <1>3, <4>1
    <3> QED
      BY <1>7, <1>8, <3>1, <3>2, <3>3
  <2>2. CASE ~\E x \in touched : at[x] = j
    BY <1>1, <2>2
  <2> QED
    BY <2>1, <2>2
<1>12. DOMAIN folded' = DOMAIN folded \cup {at[x] : x \in reached}
  BY <1>1
<1>13. /\ \A x \in reached :
            /\ items[x].previous # None => at[x] = items[x].previous
            /\ items[x].previous = None => at[x] \in m + 1 .. m + c
       /\ \A x, y \in reached :
            items[x].previous = None /\ items[y].previous = None /\ at[x] = at[y] => x = y
  BY <1>5, <1>7, <1>8
<1>14. ServedAs(reached, lost, m, c, at)
  BY <1>1, <1>2, <1>9, <1>10, <1>11, <1>12, <1>13 DEF ServedAs
<1> QED
  BY <1>3, <1>5, <1>14

LEMMA ServeKeeps ==
    ASSUME DraftsInv, NEW reached \in SUBSET LocalIds, NEW lost \in SUBSET LocalIds,
           NEW done \in BOOLEAN, Serve(reached, lost, done)
    PROVE  DraftsInv'
<1>1. PICK m \in Nat, c \in Nat : \E at : ServedAs(reached, lost, m, c, at)
  BY ServeIs
<1>2. PICK at : ServedAs(reached, lost, m, c, at)
  BY <1>1
<1>3. /\ creation.step = "sent"
      /\ UNCHANGED <<granularity, runs, selectedId, draft, saving, previous, answers>>
  BY DEF Serve
<1> DEFINE items == creation.items
           report == {[id |-> x, item |-> at[x], confirmed |-> TRUE] : x \in reached} \cup
                     {[id |-> x, item |-> items[x].previous, confirmed |-> FALSE] : x \in lost}
<1>4. /\ creation = [step |-> creation.step, run |-> creation.run, items |-> items,
                     said |-> creation.said, report |-> creation.report]
      /\ creation.run \in 1 .. answers /\ runs # << >> /\ ~saving
      /\ \A x \in DOMAIN items : x \in LocalIds
  BY <1>3 DEF DraftsInv, CreationFits, NoCreation
<1>5. /\ creation' = [creation EXCEPT !.step = "served", !.report = report]
      /\ reached \subseteq DOMAIN items /\ lost \subseteq DOMAIN items
      /\ DOMAIN issues = 1 .. m /\ DOMAIN issues' = 1 .. m + c /\ m + c <= MaxIssues
      /\ DOMAIN folded' = DOMAIN folded \cup {at[x] : x \in reached}
      /\ \A x \in reached : /\ items[x].previous # None => at[x] = items[x].previous
                            /\ items[x].previous = None => at[x] \in m + 1 .. m + c
      /\ \A x, y \in reached :
            items[x].previous = None /\ items[y].previous = None /\ at[x] = at[y] => x = y
  BY <1>2 DEF ServedAs
<1>6. /\ creation'.step = "served" /\ creation'.report = report /\ creation'.run = creation.run
      /\ creation' = [step |-> creation'.step, run |-> creation'.run, items |-> creation'.items,
                      said |-> creation'.said, report |-> creation'.report]
      /\ creation'.items = items
  BY <1>4, <1>5
<1>7. DOMAIN folded \subseteq 1 .. m /\ None \notin DOMAIN folded
      /\ \A x \in DOMAIN items : items[x].previous \in DOMAIN folded \cup {None}
  BY <1>3, <1>5, FoldedAreIssues DEF DraftsInv, IssuesFit, CreationFits, RequestIsValid
<1>8. 1 .. m + c \subseteq Issues /\ 1 .. m \subseteq 1 .. m + c /\ m + c \in 0 .. MaxIssues
      /\ m + 1 .. m + c \subseteq 1 .. m + c
  BY <1>5, DraftsAssumption DEF Issues
<1>9. \A x \in reached : at[x] \in 1 .. m + c
  BY <1>5, <1>7, <1>8
<1>10. /\ \A r \in report : \/ r.id \in reached /\ r.item = at[r.id] /\ r.confirmed
                            \/ /\ r.id \in lost /\ ~r.confirmed
                               /\ r.item = items[r.id].previous
       /\ report \subseteq Report
  <2>1. ASSUME NEW x \in reached
        PROVE  [id |-> x, item |-> at[x], confirmed |-> TRUE] \in Report
    BY <1>8, <1>9 DEF Report
  <2>2. ASSUME NEW x \in lost
        PROVE  [id |-> x, item |-> items[x].previous, confirmed |-> FALSE] \in Report
    BY <1>5, <1>7, <1>8 DEF Report
  <2> QED
    BY <2>1, <2>2
<1> HIDE DEF items, report
<1>11. IssuesFit'
  <2>1. DOMAIN folded' \subseteq DOMAIN issues'
    BY <1>5, <1>7, <1>8, <1>9
  <2>2. DOMAIN previous \subseteq DOMAIN folded'
    BY <1>5 DEF DraftsInv, IssuesFit
  <2> QED
    BY <1>3, <1>5, <1>8, <2>1, <2>2 DEF IssuesFit
<1>12. ASSUME NEW its, NEW reports, OneItemEach(DOMAIN folded, its, reports)
      PROVE  OneItemEach(DOMAIN folded', its, reports)
  <2> USE DEF OneItemEach, HasIssue
  <2>1. /\ \A x \in DOMAIN its : its[x].previous \in DOMAIN folded' \cup {None}
        /\ \A r \in reports : r.item \in DOMAIN folded' \cup {None}
    BY <1>5, <1>12
  <2>2. ASSUME NEW i \in DOMAIN folded', NEW x \in DOMAIN its, NEW y \in DOMAIN its,
               HasIssue(its, reports, x, i), HasIssue(its, reports, y, i)
        PROVE  x = y
    <3>1. i # None
      BY <1>5, <1>8, <1>9, <1>7, DraftsAssumption
    <3>2. i \in DOMAIN folded
      BY <1>12, <2>2, <3>1
    <3> QED
      BY <1>12, <2>2, <3>2
  <2> QED
    BY <2>1, <2>2
<1>13. RunsFit'
  <2>1. \A n \in DOMAIN runs :
          OneItemEach(DOMAIN folded', runs[n].items, Reports(runs[n]))
    <3>1. \A n \in DOMAIN runs : OneItemEach(DOMAIN folded, runs[n].items, Reports(runs[n]))
      BY DEF DraftsInv, RunsFit
    <3> QED
      BY <1>12, <3>1
  <2> QED
    BY <1>3, <2>1 DEF DraftsInv, RunsFit, NoEpics
<1>14. DraftFits'
  BY <1>3 DEF DraftsInv, DraftFits, Marked, NoEpics, Reports
<1>15. ServedFits'
  <2> SUFFICES ASSUME NEW n \in DOMAIN runs, runs[n].id = creation.run
               PROVE  OneItemEach(DOMAIN folded', runs[n].items, Reports(runs[n]) \cup report)
    BY <1>3, <1>6, <1>10 DEF ServedFits, Reports
  <2> DEFINE its == runs[n].items
             reports == Reports(runs[n])
  <2>1. OneItemEach(DOMAIN folded, its, reports)
    BY DEF DraftsInv, RunsFit
  <2>2. \A x \in DOMAIN items : x \in DOMAIN its
           /\ (items[x].previous # None => HasIssue(its, reports, x, items[x].previous))
    BY <1>3 DEF DraftsInv, CreationFits, SentFits, items
  <2> HIDE DEF its, reports
  <2> USE DEF OneItemEach, HasIssue
  <2>4. ASSUME NEW x \in DOMAIN its, NEW i \in DOMAIN folded',
               HasIssue(its, reports \cup report, x, i)
        PROVE  \/ i \in 1 .. m /\ i \in DOMAIN folded /\ HasIssue(its, reports, x, i)
               \/ x \in reached /\ items[x].previous = None /\ i = at[x] /\ i \notin 1 .. m
    <3>0. i # None
      BY <1>5, <1>7, <1>8, <1>9, DraftsAssumption
    <3>1. CASE HasIssue(its, reports, x, i)
      BY <1>7, <2>1, <2>4, <3>0, <3>1
    <3>2. ASSUME NEW r \in report, r.id = x, r.item = i
          PROVE  \/ HasIssue(its, reports, x, i)
                 \/ x \in reached /\ items[x].previous = None /\ i = at[x] /\ i \notin 1 .. m
      <4>1. \A k \in m + 1 .. m + c : k \notin 1 .. m
        OBVIOUS
      <4> QED
        BY <1>5, <1>10, <2>2, <3>0, <3>2, <4>1
    <3> QED
      BY <1>7, <2>1, <2>4, <3>0, <3>1, <3>2
  <2>5. /\ \A x \in DOMAIN its : its[x].previous \in DOMAIN folded' \cup {None}
        /\ \A r \in reports \cup report : r.item \in DOMAIN folded' \cup {None}
    BY <1>5, <1>7, <1>10, <2>1
  <2>6. ASSUME NEW i \in DOMAIN folded', NEW x \in DOMAIN its, NEW y \in DOMAIN its,
               HasIssue(its, reports \cup report, x, i), HasIssue(its, reports \cup report, y, i)
        PROVE  x = y
    <3>1. CASE i \in 1 .. m
      <4>1. i \in DOMAIN folded /\ HasIssue(its, reports, x, i) /\ HasIssue(its, reports, y, i)
        BY <2>4, <2>6, <3>1
      <4> QED
        BY <2>1, <4>1
    <3>2. CASE i \notin 1 .. m
      BY <1>5, <2>4, <2>6, <3>2
    <3> QED
      BY <3>1, <3>2
  <2> QED
    BY <2>5, <2>6 DEF its, reports
<1>16. CreationFits'
  <2>1. /\ SentFits' /\ SaidFits' /\ NeverTwice' /\ RequestIsValid'
    BY <1>6 DEF SentFits, SaidFits, NeverTwice, RequestIsValid
  <2> QED
    BY <1>3, <1>4, <1>6, <1>15, <2>1 DEF CreationFits
<1> QED
  BY <1>3, <1>11, <1>13, <1>14, <1>16 DEF DraftsInv

LEMMA CreateArrivesKeeps ==
    ASSUME DraftsInv, CreateArrives PROVE DraftsInv'
<1>1. /\ creation.step = "served"
      /\ runs' = [n \in DOMAIN runs |->
            IF runs[n].id = creation.run
              THEN [runs[n] EXCEPT !.created = Append(@, creation.report)] ELSE runs[n]]
      /\ draft' = IF creation.run = selectedId THEN Applied(runs'[Shown]) ELSE draft
      /\ creation' = [creation EXCEPT !.step = "refreshing"]
      /\ UNCHANGED <<granularity, selectedId, saving, previous, issues, folded, answers>>
  BY DEF CreateArrives
<1>2. /\ creation = [step |-> creation.step, run |-> creation.run, items |-> creation.items,
                     said |-> creation.said, report |-> creation.report]
      /\ creation.run \in 1 .. answers /\ runs # << >> /\ ~saving
      /\ \A x \in DOMAIN creation.items : x \in LocalIds
      /\ creation.report \subseteq Report
  BY <1>1 DEF DraftsInv, CreationFits, NoCreation, ServedFits
<1>3. ASSUME NEW n \in DOMAIN runs, runs[n].id = creation.run
      PROVE  /\ runs'[n] \in Interpretation /\ runs'[n].id = runs[n].id
             /\ runs'[n].items = runs[n].items
             /\ Reports(runs'[n]) = Reports(runs[n]) \cup creation.report
             /\ runs'[n].created[Len(runs'[n].created)] = creation.report
  <2>1. runs[n] \in Interpretation /\ runs[n].created \in Seq(SUBSET Report)
    BY RunsAre DEF Interpretation
  <2> DEFINE old == runs[n].created
             new == Append(old, creation.report)
  <2>2. runs'[n] = [runs[n] EXCEPT !.created = new]
    BY <1>1, <1>3
  <2>3. /\ new \in Seq(SUBSET Report) /\ Len(new) = Len(old) + 1 /\ Len(old) \in Nat
        /\ \A k \in 1 .. Len(old) : new[k] = old[k]
        /\ new[Len(old) + 1] = creation.report
        /\ DOMAIN new = 1 .. Len(old) + 1 /\ DOMAIN old = 1 .. Len(old)
    BY <1>2, <2>1, AppendProperties, LenProperties
  <2> HIDE DEF old, new
  <2>4. UNION {new[k] : k \in DOMAIN new} =
          (UNION {old[k] : k \in DOMAIN old}) \cup creation.report
    <3>1. DOMAIN new = DOMAIN old \cup {Len(old) + 1}
      BY <2>3
    <3> QED
      BY <2>3, <3>1
  <2>5. runs'[n].created = new /\ runs'[n] \in Interpretation
        /\ runs'[n].id = runs[n].id /\ runs'[n].items = runs[n].items
    BY <2>1, <2>2, <2>3 DEF Interpretation
  <2>6. Reports(runs'[n]) = UNION {new[k] : k \in DOMAIN new}
        /\ Reports(runs[n]) = UNION {old[k] : k \in DOMAIN old}
    BY <2>5 DEF Reports, old
  <2> QED
    BY <2>3, <2>4, <2>5, <2>6
<1>4. ASSUME NEW n \in DOMAIN runs, runs[n].id # creation.run PROVE runs'[n] = runs[n]
  BY <1>1, <1>4
<1>5. DOMAIN runs' = DOMAIN runs
  BY <1>1
<1>6. \A n \in DOMAIN runs :
         /\ runs'[n] \in Interpretation /\ runs'[n].id = runs[n].id
         /\ runs'[n].items = runs[n].items
         /\ OneItemEach(DOMAIN folded, runs'[n].items, Reports(runs'[n]))
  <2>1. \A n \in DOMAIN runs : runs[n].id = creation.run =>
          OneItemEach(DOMAIN folded, runs[n].items, Reports(runs[n]) \cup creation.report)
    BY <1>1 DEF DraftsInv, CreationFits, ServedFits
  <2>2. \A n \in DOMAIN runs : OneItemEach(DOMAIN folded, runs[n].items, Reports(runs[n]))
    BY DEF DraftsInv, RunsFit
  <2> QED
    BY <1>3, <1>4, <2>1, <2>2, RunsAre
<1>7. RunsFit'
  <2>1. runs' \in Seq(Interpretation)
    <3>1. runs' \in [1 .. Len(runs) -> Interpretation]
      <4>1. runs' = [n \in 1 .. Len(runs) |-> runs'[n]]
        BY <1>1, RunsAre
      <4> QED
        BY <1>6, <4>1, RunsAre
    <3> QED
      BY <3>1, RunsAre, SeqDef
  <2>2. \A n \in DOMAIN runs' :
          /\ runs'[n].id \in 1 .. answers /\ IsFiniteSet(DOMAIN runs'[n].items)
          /\ NoEpics(runs'[n].items)
          /\ OneItemEach(DOMAIN folded, runs'[n].items, Reports(runs'[n]))
    BY <1>5, <1>6 DEF DraftsInv, RunsFit
  <2>3. \A n, m \in DOMAIN runs' : runs'[n].id = runs'[m].id => n = m
    BY <1>5, <1>6 DEF DraftsInv, RunsFit
  <2>4. UNCHANGED <<granularity, answers, folded>>
    BY <1>1
  <2> QED
    BY <2>1, <2>2, <2>3, <2>4 DEF RunsFit, NoEpics
<1>8. runs' # << >>
  BY <1>2, <1>5, RunsAre
<1>9. \A n \in DOMAIN runs : runs[n].id = selectedId =>
         Marked(draft', runs[n].items, Reports(runs'[n]))
  <2> SUFFICES ASSUME NEW n \in DOMAIN runs, runs[n].id = selectedId
               PROVE  Marked(draft', runs[n].items, Reports(runs'[n]))
    OBVIOUS
  <2>1. Marked(draft, runs[n].items, Reports(runs[n])) /\ n = Shown
    BY ShownIs DEF DraftsInv, DraftFits
  <2>2. CASE creation.run = selectedId
    <3>1. draft' = MarkCreated(draft, creation.report)
      BY <1>1, <1>3, <2>1, <2>2 DEF Applied
    <3> QED
      BY <1>2, <1>3, <2>1, <2>2, <3>1, MarkedAgain
  <2>3. CASE creation.run # selectedId
    BY <1>1, <1>4, <2>1, <2>3
  <2> QED
    BY <2>2, <2>3
<1>10. DraftFits'
  <2>1. \E n \in DOMAIN runs : runs[n].id = selectedId
    BY <1>2 DEF DraftsInv, DraftFits
  <2>2. \A n \in DOMAIN runs' : runs'[n].id = selectedId =>
           Marked(draft', runs'[n].items, Reports(runs'[n]))
    BY <1>5, <1>6, <1>9
  <2>3. \E n \in DOMAIN runs' : runs'[n].id = selectedId
    BY <1>5, <1>6, <2>1
  <2>4. UNCHANGED <<granularity, selectedId>>
    BY <1>1
  <2> QED
    BY <1>8, <2>2, <2>3, <2>4 DEF DraftFits, Marked, NoEpics
<1>11. CreationFits'
  <2>1. creation'.step = "refreshing"
    BY <1>1, <1>2
  <2> QED
    BY <1>1, <1>2, <1>8, <2>1
       DEF CreationFits, SentFits, SaidFits, ServedFits, NeverTwice, RequestIsValid
<1> QED
  BY <1>1, <1>7, <1>10, <1>11, IssuesStill DEF DraftsInv

LEMMA OthersKeep ==
    ASSUME DraftsInv,
           \/ CreateFails \/ StartSave \/ SaveArrives \/ SaveFails \/ UNCHANGED drafts
           \/ \E view \in {previous, folded} : ListArrives(view)
    PROVE  DraftsInv'
<1>1. CASE CreateFails \/ \E view \in {previous, folded} : ListArrives(view)
  <2>1. /\ creation' = NoCreation /\ previous' \in {previous, folded}
        /\ UNCHANGED <<granularity, runs, selectedId, draft, saving, issues, folded, answers>>
    BY <1>1 DEF CreateFails, ListArrives
  <2>2. DraftFits'
    BY <2>1 DEF DraftsInv, DraftFits, Marked, NoEpics, Reports
  <2> QED
    BY <2>1, <2>2, RunsStill, IssuesStill, IdleFits DEF DraftsInv
<1>2. CASE StartSave \/ SaveFails
  <2>1. creation = NoCreation
    <3>1. CASE StartSave
      BY <3>1, NoneSent DEF StartSave
    <3>2. CASE SaveFails
      BY <3>2 DEF SaveFails, DraftsInv, CreationFits
    <3> QED
      BY <1>2, <3>1, <3>2
  <2>2. UNCHANGED <<granularity, runs, selectedId, draft, creation, previous, issues, folded, answers>>
    BY <1>2 DEF StartSave, SaveFails
  <2>3. DraftFits'
    BY <2>2 DEF DraftsInv, DraftFits, Marked, NoEpics, Reports
  <2> QED
    BY <2>1, <2>2, <2>3, RunsStill, IssuesStill, IdleFits DEF DraftsInv
<1>3. CASE SaveArrives
  <2>1. /\ runs' = << >> /\ draft' = NoDraft /\ previous' = folded
        /\ creation = NoCreation /\ UNCHANGED <<granularity, creation, issues, folded, answers>>
    BY <1>3 DEF SaveArrives, DraftsInv, CreationFits
  <2>2. DOMAIN << >> = {} /\ << >> \in Seq(Interpretation)
    OBVIOUS
  <2>3. RunsFit' /\ DraftFits'
    BY <2>1, <2>2 DEF RunsFit, DraftFits
  <2> QED
    BY <2>1, <2>3, IssuesStill, IdleFits DEF DraftsInv
<1>4. CASE UNCHANGED drafts
  <2>1. UNCHANGED <<granularity, runs, selectedId, draft, creation, saving, previous, issues,
                    folded, answers>>
    BY <1>4 DEF drafts
  <2>2. DraftFits'
    BY <2>1 DEF DraftsInv, DraftFits, Marked, NoEpics, Reports
  <2>3. CreationFits'
    <3>1. CASE runs = << >>
      BY <2>1, <3>1, IdleFits DEF DraftsInv, CreationFits
    <3>2. CASE runs # << >>
      BY <2>1, <3>2, RunsCarried DEF DraftsInv
    <3> QED
      BY <3>1, <3>2
  <2> QED
    BY <2>1, <2>2, <2>3, RunsStill, IssuesStill DEF DraftsInv
<1> QED
  BY <1>1, <1>2, <1>3, <1>4

LEMMA DraftsKept == DraftsInv /\ [DraftsNext]_drafts => DraftsInv'
BY InterpretKeeps, SelectKeeps, EditKeeps, CreateKeeps, ServeKeeps, CreateArrivesKeeps, OthersKeep
   DEF DraftsNext

DraftingStep == selectedId' = selectedId => \A x \in DOMAIN draft :
    /\ x \in DOMAIN draft'
    /\ draft'[x] # draft[x] =>
         \/ Editing
         \/ /\ CreateArrives /\ \E r \in creation.report : r.id = x
            /\ draft'[x].title = draft[x].title /\ draft'[x].kind = draft[x].kind

(* A draft that has items is of an interpretation that is kept. *)
LEMMA ShownExists ==
    ASSUME DraftsInv, draft # NoDraft
    PROVE  selectedId \in 1 .. answers /\ answers \in Nat
<1>1. PICK n \in DOMAIN runs : runs[n].id = selectedId
  BY DEF DraftsInv, DraftFits
<1> QED
  BY <1>1 DEF DraftsInv, RunsFit

(* A creation that answers marks what it reports, and nothing else. *)
LEMMA CreationMarks ==
    ASSUME DraftsInv, CreateArrives, NEW x \in DOMAIN draft
    PROVE  /\ x \in DOMAIN draft'
           /\ (\A r \in creation.report : r.id # x) => draft'[x] = draft[x]
           /\ draft'[x].title = draft[x].title /\ draft'[x].kind = draft[x].kind
<1>1. draft' = IF creation.run = selectedId THEN Applied(runs'[Shown]) ELSE draft
  BY DEF CreateArrives
<1>2. CASE creation.run = selectedId
  <2>1. runs[Shown] \in Interpretation /\ Shown \in DOMAIN runs /\ runs[Shown].id = creation.run
    BY <1>2, ShownIs, RunsAre DEF NoDraft
  <2> DEFINE old == runs[Shown].created
             new == Append(old, creation.report)
  <2>2. runs'[Shown] = [runs[Shown] EXCEPT !.created = new]
    BY <2>1 DEF CreateArrives
  <2>3. old \in Seq(SUBSET Report) /\ creation.report \in SUBSET Report
    BY <2>1 DEF Interpretation, CreateArrives, DraftsInv, CreationFits, ServedFits
  <2>4. Len(new) = Len(old) + 1 /\ new[Len(old) + 1] = creation.report
    BY <2>3, AppendProperties
  <2>5. runs'[Shown].created = new
    BY <2>1, <2>2 DEF Interpretation
  <2> HIDE DEF new
  <2>6. draft' = MarkCreated(draft, creation.report)
    BY <1>1, <1>2, <2>4, <2>5 DEF Applied
  <2>7. draft[x] \in DraftItem
    BY <2>1, <1>2 DEF DraftsInv, DraftFits, Marked
  <2>8. CASE \E r \in creation.report : r.id = x
    <3>1. draft'[x] = Mark(draft[x], CHOOSE r \in creation.report : r.id = x) /\ x \in DOMAIN draft'
      BY <2>6, <2>8 DEF MarkCreated
    <3>2. ASSUME NEW r PROVE Mark(draft[x], r).title = draft[x].title /\ Mark(draft[x], r).kind = draft[x].kind
      BY <2>7 DEF Mark, DraftItem
    <3> QED
      BY <2>8, <3>1, <3>2
  <2>9. CASE \A r \in creation.report : r.id # x
    BY <2>6, <2>9 DEF MarkCreated
  <2> QED
    BY <2>8, <2>9
<1>3. CASE creation.run # selectedId
  BY <1>1, <1>3
<1> QED
  BY <1>2, <1>3

LEMMA DraftIsKept ==
    ASSUME DraftsInv, [DraftsNext]_drafts PROVE DraftingStep
<1> SUFFICES ASSUME selectedId' = selectedId, NEW x \in DOMAIN draft
             PROVE  /\ x \in DOMAIN draft'
                    /\ draft'[x] # draft[x] =>
                         \/ Editing
                         \/ /\ CreateArrives /\ \E r \in creation.report : r.id = x
                            /\ draft'[x].title = draft[x].title /\ draft'[x].kind = draft[x].kind
  BY DEF DraftingStep
<1>0. selectedId \in 1 .. answers /\ answers \in Nat
  BY ShownExists DEF NoDraft
<1>1. ASSUME NEW a \in Answers, NEW link \in [DOMAIN a -> DOMAIN folded \cup {None}], Interpret(a, link)
      PROVE  FALSE
  <2>1. selectedId' = answers + 1
    BY <1>1 DEF Interpret
  <2> QED
    BY <1>0, <2>1
<1>2. ~(\E n \in DOMAIN runs : Select(n)) /\ ~SaveArrives
  BY <1>0 DEF Select, SaveArrives
<1>3. CASE CreateArrives
  BY <1>3, CreationMarks
<1>4. ASSUME NEW y \in DOMAIN draft,
             \/ Toggle(y) \/ SetUpdatesPrevious(y) \/ (\E k \in Kinds : SetKind(y, k))
             \/ (\E t \in Titles \cup {Blank} : SetTitle(y, t))
      PROVE  Editing /\ DOMAIN draft' = DOMAIN draft
  BY <1>4 DEF Toggle, SetUpdatesPrevious, SetKind, SetTitle
<1>5. CASE \/ Create \/ CreateFails \/ StartSave \/ SaveFails \/ UNCHANGED drafts
           \/ (\E read \in {previous, folded} : ListArrives(read))
  <2>1. draft' = draft
    BY <1>5 DEF Create, CreateFails, StartSave, SaveFails, drafts, ListArrives
  <2> QED
    BY <2>1
<1>6. ASSUME NEW reached \in SUBSET LocalIds, NEW lost \in SUBSET LocalIds, NEW done \in BOOLEAN,
             Serve(reached, lost, done)
      PROVE  draft' = draft
  BY <1>6 DEF Serve
<1> QED
  BY <1>1, <1>2, <1>3, <1>4, <1>5, <1>6 DEF DraftsNext

(* The property speaks of issues, which only Serve changes. *)
LEMMA IssuesChange ==
    ASSUME [DraftsNext]_drafts, issues' # issues
    PROVE  \E reached, lost \in SUBSET LocalIds, done \in BOOLEAN : Serve(reached, lost, done)
<1>1. ASSUME NEW a \in Answers, NEW link \in [DOMAIN a -> DOMAIN folded \cup {None}],
             Interpret(a, link)
      PROVE  issues' = issues
  BY <1>1 DEF Interpret
<1>2. ASSUME NEW x \in DOMAIN draft,
             \/ Toggle(x) \/ SetUpdatesPrevious(x)
             \/ \E k \in Kinds : SetKind(x, k)
             \/ \E t \in Titles \cup {Blank} : SetTitle(x, t)
      PROVE  issues' = issues
  BY <1>2 DEF Toggle, SetUpdatesPrevious, SetKind, SetTitle, Editing, edited
<1> QED
  BY <1>1, <1>2 DEF DraftsNext, Select, Create, CreateArrives, CreateFails, ListArrives, StartSave,
     SaveArrives, SaveFails, drafts

AnnouncingStep ==
    \A i \in DOMAIN issues :
        LET t == issues[i].parent
            Epic(f, j) == f[j].kind = "epic" /\ f[j].title = t
        IN  /\ issues' # issues
            /\ i \in DOMAIN previous /\ previous[i].kind = "issue"
            /\ \A x \in DOMAIN creation.items : creation.items[x].previous # i
            /\ \E j \in DOMAIN issues \cap DOMAIN previous :
                  Epic(issues, j) /\ Epic(previous, j) /\ issues'[j].title # t
            /\ \A j \in DOMAIN issues' : ~Epic(issues', j)
            /\ \E n \in DOMAIN runs : runs[n].id = creation.run /\ runs[n].created = << >>
            => t \in creation.said

LEMMA LossesAreAnnounced ==
    ASSUME DraftsInv, [DraftsNext]_drafts PROVE AnnouncingStep
<1> SUFFICES ASSUME NEW i \in DOMAIN issues, issues' # issues,
                    i \in DOMAIN previous, previous[i].kind = "issue",
                    \A x \in DOMAIN creation.items : creation.items[x].previous # i,
                    NEW j \in DOMAIN issues, j \in DOMAIN previous,
                    issues[j].title = issues[i].parent,
                    previous[j].kind = "epic", previous[j].title = issues[i].parent,
                    issues'[j].title # issues[i].parent,
                    NEW n \in DOMAIN runs, runs[n].id = creation.run, runs[n].created = << >>
             PROVE  issues[i].parent \in creation.said
  BY DEF AnnouncingStep
<1>1. PICK reached \in SUBSET LocalIds, lost \in SUBSET LocalIds, done \in BOOLEAN :
        Serve(reached, lost, done)
  BY IssuesChange
<1>2. creation.step = "sent"
  BY <1>1 DEF Serve
<1>3. PICK m \in Nat, c \in Nat : \E at : ServedAs(reached, lost, m, c, at)
  BY <1>1, ServeIs
<1>4. PICK y \in DOMAIN creation.items :
        creation.items[y].previous = j /\ issues'[j].title = creation.items[y].title
  BY <1>3 DEF ServedAs
<1>5. Left(i)
  BY DEF Left
<1>6. SaidFits
  BY DEF DraftsInv, CreationFits
<1> QED
  BY <1>2, <1>4, <1>5, <1>6 DEF SaidFits
-----------------------------------------------------------------------------
(* The diagram *)

Job == [state : {"asked", "running", "done", "failed", "gone"}, request : Request]
DraftPlacing == [what : {"draft"}, draft : Generations, from : Chat]
PastePlacing == [what : {"paste"}, text : Texts \cup {NoText}]

DiagramTypes ==
    /\ chat \in Chat
    /\ prompt \in Texts \cup {NoText} /\ pasted \in Texts \cup {NoText}
    /\ calls \in [Generations -> Call]
    /\ diagramJobs \in [Generations -> Job \cup {NoJob}]
    /\ tracking \in Generations \cup {Nothing}
    /\ discards \subseteq Generations /\ unheard \subseteq Generations
    /\ opening \in [step : {"none", "sent", "served", "over"}, overtaken : BOOLEAN,
                    jobs : SUBSET Generations]
    /\ placing \in DraftPlacing \cup PastePlacing \cup {NoPlacing}
    /\ pieces \in [Pieces -> [draft : Generations \cup {Nothing}, shown : BOOLEAN]]
    /\ placement \in [draft : Generations \cup {Nothing}, ids : SUBSET Pieces]

(* How far a call is says how far its job can be. *)
CallsFit ==
    \A j \in Generations :
        /\ calls[j].step = "none" <=> diagramJobs[j] = NoJob
        /\ diagramJobs[j].state = "asked" => calls[j].step \in {"sent", "left"}
        /\ calls[j].step = "sent" => diagramJobs[j].state = "asked"
        /\ calls[j].step = "refused" => diagramJobs[j].state = "gone"
        /\ calls[j].latest => calls[j].step \notin {"none", "left"}

(* Until the jobs have been read, or something was sent before, nothing    *)
(* of this visit is on its way.                                            *)
Quiet == opening.step # "over" /\ ~opening.overtaken

QuietAtFirst ==
    /\ Quiet => \A j \in Generations : calls[j].step \in {"none", "left"}
    /\ opening.step = "none" => ~opening.overtaken /\ placing = NoPlacing

Begun(j) == diagramJobs[j].state \notin {"none", "asked"}

JobsBegun ==
    /\ \A j \in discards \cup opening.jobs : Begun(j)
    /\ tracking # Nothing => Begun(tracking)

(* A draft is of a generation that is over; the pieces of the one shown,   *)
(* and of the one being placed, are those that are remembered.             *)
OnCanvas(d) == \E k \in Pieces : pieces[k].draft = d

DraftsOver ==
    /\ chat.draft # Nothing => calls[chat.draft].step = "over"
    /\ placing.what = "draft" => calls[placing.draft].step = "over"
    /\ \A k \in Pieces : pieces[k].draft # Nothing => calls[pieces[k].draft].step = "over"

AtHand(d) == d = chat.draft \/ (placing.what = "draft" /\ d = placing.draft)

PiecesRemembered ==
    /\ \A k \in Pieces : pieces[k].draft # Nothing /\ AtHand(pieces[k].draft)
          => placement.draft = pieces[k].draft /\ k \in placement.ids
    /\ placing.what = "draft" /\ chat.draft \notin {Nothing, placing.draft}
          => ~OnCanvas(chat.draft)

DiagramInv ==
    /\ DiagramTypes /\ CallsFit /\ QuietAtFirst /\ JobsBegun /\ DraftsOver /\ PiecesRemembered

(* What holds when the user waits for a conversion. *)
OneLatest ==
    \A j, m \in Generations : calls[j].latest /\ calls[m].latest => j = m

OfOneKind(c) == \A n \in DOMAIN c.turns : c.turns[n] = c.kind

KindsFit ==
    /\ \A j \in Generations : diagramJobs[j] # NoJob => OfOneKind(diagramJobs[j].request)
    /\ \A j \in Generations : calls[j].latest => diagramJobs[j].request.kind = chat.kind
    /\ placing.what = "draft" =>
          /\ OfOneKind(placing.from) /\ placing.from.kind = chat.kind
          /\ chat.pending = Nothing
    /\ OneKind

QuietChat ==
    Quiet => chat.draft = Nothing /\ chat.pending = Nothing /\ tracking = Nothing

TrackedIsFollowed == tracking # Nothing => Polls(tracking) \/ tracking \in unheard

FollowedInv ==
    /\ OneLatest /\ KindsFit /\ QuietChat /\ TrackedIsFollowed
    /\ PendingIsFollowed /\ SlotIsFollowed

LEMMA JobsAre ==
    ASSUME DiagramTypes, NEW j \in Generations
    PROVE  /\ diagramJobs[j].state = "none" <=> diagramJobs[j] = NoJob
           /\ diagramJobs[j] # NoJob => diagramJobs[j] \in Job
BY DEF DiagramTypes, Job, NoJob

LEMMA PlacingIs ==
    ASSUME DiagramTypes
    PROVE  /\ placing.what = "draft" => placing \in DraftPlacing
           /\ placing.what = "paste" => placing \in PastePlacing
           /\ placing = NoPlacing <=> placing.what = "none"
BY DEF DiagramTypes, DraftPlacing, PastePlacing, NoPlacing

LEMMA CallMoves ==
    ASSUME DiagramTypes, NEW j \in Generations,
           NEW s \in {"none", "sent", "started", "refused", "polling", "over", "left"},
           calls' = [calls EXCEPT ![j].step = s]
    PROVE  /\ calls' \in [Generations -> Call]
           /\ calls'[j].step = s /\ \A m \in Generations \ {j} : calls'[m].step = calls[m].step
           /\ \A m \in Generations : calls'[m].latest = calls[m].latest
<1>1. [calls[j] EXCEPT !.step = s] \in Call /\ [calls[j] EXCEPT !.step = s].step = s
      /\ [calls[j] EXCEPT !.step = s].latest = calls[j].latest
  BY DEF DiagramTypes, Call
<1>2. calls' = [calls EXCEPT ![j] = [calls[j] EXCEPT !.step = s]]
  OBVIOUS
<1> QED
  BY <1>1, <1>2 DEF DiagramTypes

LEMMA SupersededCalls ==
    ASSUME DiagramTypes
    PROVE  /\ Superseded \in [Generations -> Call]
           /\ \A m \in Generations : Superseded[m].step = calls[m].step /\ ~Superseded[m].latest
<1>1. \A c \in Call :
        LET d == [c EXCEPT !.latest = FALSE] IN d \in Call /\ d.step = c.step /\ ~d.latest
  BY DEF Call
<1>2. \A m \in Generations : calls[m] \in Call
  BY DEF DiagramTypes
<1> QED
  BY <1>1, <1>2 DEF Superseded

LEMMA JobMoves ==
    ASSUME DiagramTypes, NEW j \in Generations, diagramJobs[j] # NoJob,
           NEW s \in {"asked", "running", "done", "failed", "gone"},
           diagramJobs' = [diagramJobs EXCEPT ![j].state = s]
    PROVE  /\ diagramJobs' \in [Generations -> Job \cup {NoJob}]
           /\ diagramJobs'[j].state = s /\ diagramJobs'[j].request = diagramJobs[j].request
           /\ diagramJobs'[j] # NoJob
           /\ \A m \in Generations \ {j} : diagramJobs'[m] = diagramJobs[m]
<1>1. diagramJobs[j] \in Job
  BY JobsAre
<1>2. [diagramJobs[j] EXCEPT !.state = s] \in Job
      /\ [diagramJobs[j] EXCEPT !.state = s].state = s
      /\ [diagramJobs[j] EXCEPT !.state = s].request = diagramJobs[j].request
      /\ [diagramJobs[j] EXCEPT !.state = s] # NoJob
  BY <1>1 DEF Job, NoJob
<1>3. diagramJobs' = [diagramJobs EXCEPT ![j] = [diagramJobs[j] EXCEPT !.state = s]]
  OBVIOUS
<1> QED
  BY <1>2, <1>3 DEF DiagramTypes

(* What a generation begun from a conversation does. *)
Generated(from, text, j) ==
    /\ diagramJobs[j] = NoJob /\ diagramJobs'[j] \in Job
    /\ diagramJobs'[j].state = "asked"
    /\ diagramJobs'[j].request = [kind |-> from.kind, turns |-> from.turns, asked |-> text]
    /\ \A m \in Generations \ {j} : diagramJobs'[m] = diagramJobs[m]
    /\ calls'[j].step = "sent" /\ calls'[j].latest
    /\ \A m \in Generations \ {j} : calls'[m].step = calls[m].step /\ ~calls'[m].latest

LEMMA Generating ==
    ASSUME DiagramTypes, NEW from \in Chat, NEW text \in Texts \cup {Retry}, Generate(from, text)
    PROVE  /\ \E j \in Generations : Generated(from, text, j)
           /\ diagramJobs' \in [Generations -> Job \cup {NoJob}]
           /\ calls' \in [Generations -> Call]
           /\ chat' = [chat EXCEPT !.pending = text] /\ chat' \in Chat
           /\ opening' = [opening EXCEPT !.overtaken = TRUE]
           /\ opening' \in [step : {"none", "sent", "served", "over"}, overtaken : BOOLEAN,
                            jobs : SUBSET Generations]
<1>1. PICK j \in Generations :
        /\ diagramJobs[j] = NoJob
        /\ diagramJobs' = [diagramJobs EXCEPT ![j] =
               [state |-> "asked",
                request |-> [kind |-> from.kind, turns |-> from.turns, asked |-> text]]]
        /\ calls' = [Superseded EXCEPT ![j] = [step |-> "sent", latest |-> TRUE]]
  BY DEF Generate
<1>2. [kind |-> from.kind, turns |-> from.turns, asked |-> text] \in Request
  BY DEF Request, Chat
<1>3. [state |-> "asked",
       request |-> [kind |-> from.kind, turns |-> from.turns, asked |-> text]] \in Job
  BY <1>2 DEF Job
<1>4. [step |-> "sent", latest |-> TRUE] \in Call
  BY DEF Call
<1>5. chat' = [chat EXCEPT !.pending = text] /\ opening' = [opening EXCEPT !.overtaken = TRUE]
  BY DEF Generate
<1>6. chat' \in Chat
  BY <1>5 DEF Chat, DiagramTypes
<1>7. opening' \in [step : {"none", "sent", "served", "over"}, overtaken : BOOLEAN,
                    jobs : SUBSET Generations]
  BY <1>5 DEF DiagramTypes
<1>8. diagramJobs' \in [Generations -> Job \cup {NoJob}] /\ calls' \in [Generations -> Call]
  BY <1>1, <1>3, <1>4, SupersededCalls DEF DiagramTypes
<1>9. Generated(from, text, j)
  BY <1>1, <1>3, SupersededCalls DEF Generated, DiagramTypes
<1> QED
  BY <1>5, <1>6, <1>7, <1>8, <1>9

(* The latest of the jobs that were left over. *)
LatestOf(s) == CHOOSE j \in s : \A m \in s : m <= j

LEMMA LatestIsOne ==
    ASSUME NEW s \in SUBSET Generations, s # {}
    PROVE  LatestOf(s) \in s
<1>1. MaxJobs \in Nat
  BY DiagramAssumption
<1>2. \E j \in s : \A m \in s : m <= j
  BY <1>1, GreatestNatural DEF Generations
<1> QED
  BY <1>2 DEF LatestOf

LEMMA JobTakenUp ==
    ASSUME DiagramTypes, JobsArrive, ~Overtaken, opening.jobs # {}, JobsBegun
    PROVE  \E last \in opening.jobs :
              /\ diagramJobs[last] \in Job
              /\ chat' = [kind |-> diagramJobs[last].request.kind,
                          turns |-> diagramJobs[last].request.turns,
                          pending |-> diagramJobs[last].request.asked, draft |-> Nothing]
              /\ chat' \in Chat /\ prompt' \in Texts \cup {NoText}
              /\ calls' \in [Generations -> Call]
              /\ calls'[last].step = "polling" /\ calls'[last].latest
              /\ \A m \in Generations \ {last} :
                    calls'[m].step = calls[m].step /\ ~calls'[m].latest
              /\ tracking' = last /\ discards' = discards \cup (opening.jobs \ {last})
<1> DEFINE last == LatestOf(opening.jobs)
           asked == diagramJobs[last].request
<1>1. last \in opening.jobs /\ last \in Generations
  BY LatestIsOne DEF DiagramTypes
<1>2. diagramJobs[last] \in Job
  BY <1>1, JobsAre DEF JobsBegun, Begun
<1>3. /\ chat' = [kind |-> asked.kind, turns |-> asked.turns,
                  pending |-> asked.asked, draft |-> Nothing]
      /\ prompt' = IF asked.asked = Retry THEN prompt ELSE asked.asked
      /\ calls' = [Superseded EXCEPT ![last] = [step |-> "polling", latest |-> TRUE]]
      /\ tracking' = last /\ discards' = discards \cup (opening.jobs \ {last})
  BY DEF JobsArrive, LatestOf
<1>4. asked \in Request
  BY <1>2 DEF Job
<1>5. chat' \in Chat /\ prompt' \in Texts \cup {NoText}
  BY <1>3, <1>4 DEF Chat, Request, DiagramTypes
<1>6. [step |-> "polling", latest |-> TRUE] \in Call
  BY DEF Call
<1>7. /\ calls' \in [Generations -> Call]
      /\ calls'[last].step = "polling" /\ calls'[last].latest
      /\ \A m \in Generations \ {last} : calls'[m].step = calls[m].step /\ ~calls'[m].latest
  BY <1>1, <1>3, <1>6, SupersededCalls
<1> HIDE DEF last
<1> QED
  BY <1>1, <1>2, <1>3, <1>5, <1>7

LEMMA DiagramStart == DiagramInit => DiagramInv /\ FollowedInv
<1> SUFFICES ASSUME DiagramInit PROVE DiagramInv /\ FollowedInv
  OBVIOUS
<1> USE DiagramAssumption
<1>1. chat \in Chat /\ chat.turns = << >> /\ chat.pending = Nothing /\ chat.draft = Nothing
  BY DEF DiagramInit, StartChat, Chat
<1>2. /\ calls \in [Generations -> Call]
      /\ \A j \in Generations : calls[j].step = "none" /\ ~calls[j].latest
  BY DEF DiagramInit, NoCall, Call
<1>3. \A j \in Generations : diagramJobs[j] = NoJob /\ diagramJobs[j].state = "none"
  BY DEF DiagramInit, NoJob
<1>4. /\ opening \in [step : {"none", "sent", "served", "over"}, overtaken : BOOLEAN,
                      jobs : SUBSET Generations]
      /\ opening.step = "sent" /\ opening.jobs = {}
  BY DEF DiagramInit, NoOpening
<1>5. placing.what = "none"
  BY DEF DiagramInit, NoPlacing
<1>6. /\ pieces \in [Pieces -> [draft : Generations \cup {Nothing}, shown : BOOLEAN]]
      /\ \A k \in Pieces : pieces[k].draft = Nothing
      /\ placement \in [draft : Generations \cup {Nothing}, ids : SUBSET Pieces]
  BY DEF DiagramInit, NoPiece, NoPlacement
<1>7. DiagramTypes
  BY <1>1, <1>2, <1>4, <1>6 DEF DiagramTypes, DiagramInit
<1>8. CallsFit /\ JobsBegun
  BY <1>2, <1>3, <1>4 DEF CallsFit, JobsBegun, DiagramInit
<1>9. QuietAtFirst
  BY <1>2, <1>4 DEF QuietAtFirst
<1>10. DraftsOver /\ PiecesRemembered
  BY <1>1, <1>5, <1>6 DEF DraftsOver, PiecesRemembered
<1>11. OneLatest /\ KindsFit
  BY <1>1, <1>2, <1>3, <1>5 DEF OneLatest, KindsFit, OneKind
<1>12. QuietChat /\ TrackedIsFollowed /\ PendingIsFollowed /\ SlotIsFollowed
  BY <1>1, <1>2, <1>3 DEF QuietChat, TrackedIsFollowed, PendingIsFollowed, SlotIsFollowed,
     DiagramInit
<1> QED
  BY <1>7, <1>8, <1>9, <1>10, <1>11, <1>12 DEF DiagramInv, FollowedInv

LEMMA TypesInConversation ==
    ASSUME DiagramTypes,
           \/ \E t \in Texts \cup {NoText} : Type(t)
           \/ Send
           \/ \E k \in DiagramKinds : ChangeKind(k)
           \/ Leave \/ OpenBoard \/ ServeJobs \/ JobsFail
    PROVE  DiagramTypes'
<1>1. ASSUME NEW t \in Texts \cup {NoText}, Type(t) PROVE DiagramTypes'
  BY <1>1 DEF Type, DiagramTypes
<1>2. CASE Send
  <2>1. prompt \in Texts \cup {Retry} /\ chat \in Chat /\ Generate(chat, prompt)
    BY <1>2 DEF Send, DiagramTypes
  <2> QED
    BY <1>2, <2>1, Generating DEF Send, DiagramTypes
<1>3. ASSUME NEW k \in DiagramKinds, ChangeKind(k) PROVE DiagramTypes'
  <2>1. chat' \in Chat
    BY <1>3 DEF ChangeKind, StartChat, Chat
  <2>2. opening' \in [step : {"none", "sent", "served", "over"}, overtaken : BOOLEAN,
                      jobs : SUBSET Generations]
    BY <1>3 DEF ChangeKind, DiagramTypes
  <2>3. calls' \in [Generations -> Call]
    BY <1>3, SupersededCalls DEF ChangeKind
  <2> QED
    BY <1>3, <2>1, <2>2, <2>3 DEF ChangeKind, DiagramTypes
<1>4. CASE Leave
  <2>1. chat' \in Chat
    BY <1>4, DiagramAssumption DEF Leave, StartChat, Chat
  <2>2. calls' \in [Generations -> Call]
    BY <1>4 DEF Leave, NoCall, Call
  <2>3. opening' \in [step : {"none", "sent", "served", "over"}, overtaken : BOOLEAN,
                      jobs : SUBSET Generations]
    BY <1>4 DEF Leave, NoOpening
  <2>4. /\ pieces' \in [Pieces -> [draft : Generations \cup {Nothing}, shown : BOOLEAN]]
        /\ placement' \in [draft : Generations \cup {Nothing}, ids : SUBSET Pieces]
    BY <1>4 DEF Leave, NoPiece, NoPlacement
  <2> QED
    BY <1>4, <2>1, <2>2, <2>3, <2>4 DEF Leave, DiagramTypes
<1>5. CASE OpenBoard \/ ServeJobs \/ JobsFail
  <2>1. opening' \in [step : {"none", "sent", "served", "over"}, overtaken : BOOLEAN,
                      jobs : SUBSET Generations]
    <3>1. {j \in Generations : diagramJobs[j].state \in {"running", "done", "failed"}}
            \in SUBSET Generations
      OBVIOUS
    <3>2. \A s \in {"served", "over"}, js \in SUBSET Generations :
            [opening EXCEPT !.step = s, !.jobs = js]
                \in [step : {"none", "sent", "served", "over"}, overtaken : BOOLEAN,
                     jobs : SUBSET Generations]
      BY DEF DiagramTypes
    <3>3. CASE ServeJobs
      BY <3>1, <3>2, <3>3 DEF ServeJobs
    <3>4. CASE OpenBoard \/ JobsFail
      BY <1>5, <3>4 DEF OpenBoard, JobsFail, NoOpening, DiagramTypes
    <3> QED
      BY <1>5, <3>3, <3>4
  <2> QED
    BY <1>5, <2>1 DEF OpenBoard, ServeJobs, JobsFail, DiagramTypes
<1> QED
  BY <1>1, <1>2, <1>3, <1>4, <1>5

LEMMA TypesInJobs ==
    ASSUME DiagramTypes, NEW j \in Generations,
           \/ ServeGenerate(j) \/ GenerateArrives(j) \/ GenerateFails(j)
           \/ Settle(j) \/ SettleFails(j)
           \/ \E s \in {"done", "failed", "gone"} : JobEnds(j, s)
    PROVE  DiagramTypes'
<1>0. FailTurn(chat) \in Chat
  BY DEF FailTurn, Chat, DiagramTypes
<1>1. CASE ServeGenerate(j)
  <2>1. PICK s \in {"running", "gone"} :
          /\ diagramJobs' = [diagramJobs EXCEPT ![j].state = s]
          /\ calls' = [calls EXCEPT ![j].step =
                IF @ = "left" THEN @ ELSE IF s = "running" THEN "started" ELSE "refused"]
    BY <1>1 DEF ServeGenerate
  <2>2. diagramJobs[j] # NoJob
    BY <1>1, JobsAre DEF ServeGenerate
  <2>3. diagramJobs' \in [Generations -> Job \cup {NoJob}]
    BY <2>1, <2>2, JobMoves
  <2>4. \E t \in {"left", "started", "refused"} : calls' = [calls EXCEPT ![j].step = t]
    BY <2>1
  <2>5. calls' \in [Generations -> Call]
    BY <2>4, CallMoves
  <2> QED
    BY <1>1, <2>3, <2>5 DEF ServeGenerate, DiagramTypes
<1>2. CASE GenerateArrives(j)
  <2>1. calls' \in [Generations -> Call]
    BY <1>2, CallMoves DEF GenerateArrives
  <2> QED
    BY <1>2, <2>1 DEF GenerateArrives, DiagramTypes
<1>3. CASE GenerateFails(j)
  <2>1. calls' \in [Generations -> Call]
    BY <1>3, CallMoves DEF GenerateFails
  <2> QED
    BY <1>0, <1>3, <2>1 DEF GenerateFails, DiagramTypes
<1>4. CASE Settle(j)
  <2>1. calls' \in [Generations -> Call]
    BY <1>4, CallMoves DEF Settle
  <2>2. diagramJobs[j].request \in Request
    BY <1>4, JobsAre DEF Settle, Job
  <2>3. diagramJobs[j].request.kind \in DiagramKinds
    BY <2>2 DEF Request
  <2>4. CompleteTurn(chat, j) \in Chat
    <3>1. chat \in Chat /\ Append(chat.turns, diagramJobs[j].request.kind) \in Seq(DiagramKinds)
      BY <2>3 DEF Chat, DiagramTypes
    <3>2. \A t \in Seq(DiagramKinds) :
            [chat EXCEPT !.pending = Nothing, !.draft = j, !.turns = t] \in Chat
      BY <3>1 DEF Chat
    <3>3. \E t \in {chat.turns, Append(chat.turns, diagramJobs[j].request.kind)} :
            CompleteTurn(chat, j) = [chat EXCEPT !.pending = Nothing, !.draft = j, !.turns = t]
      BY DEF CompleteTurn
    <3>4. chat.turns \in Seq(DiagramKinds)
      BY <3>1 DEF Chat
    <3> QED
      BY <3>1, <3>2, <3>3, <3>4
  <2>5. chat' \in Chat /\ prompt' \in Texts \cup {NoText}
    BY <1>0, <1>4, <2>4 DEF Settle, DiagramTypes
  <2> QED
    BY <1>4, <2>1, <2>5 DEF Settle, DiagramTypes
<1>5. CASE SettleFails(j)
  <2>1. calls' \in [Generations -> Call]
    BY <1>5, CallMoves DEF SettleFails
  <2> QED
    BY <1>0, <1>5, <2>1 DEF SettleFails, DiagramTypes
<1>6. ASSUME NEW s \in {"done", "failed", "gone"}, JobEnds(j, s) PROVE DiagramTypes'
  <2>1. diagramJobs[j] # NoJob
    BY <1>6, JobsAre DEF JobEnds
  <2>2. diagramJobs' \in [Generations -> Job \cup {NoJob}]
    BY <1>6, <2>1, JobMoves DEF JobEnds
  <2> QED
    BY <1>6, <2>2 DEF JobEnds, DiagramTypes
<1> QED
  BY <1>1, <1>2, <1>3, <1>4, <1>5, <1>6

LEMMA TypesInDiscards ==
    ASSUME DiagramTypes, JobsBegun, NEW j \in Generations, NEW ok \in BOOLEAN,
           ServeDiscard(j, ok)
    PROVE  DiagramTypes'
<1>1. diagramJobs[j] # NoJob
  BY JobsAre DEF JobsBegun, Begun, ServeDiscard
<1>2. diagramJobs' \in [Generations -> Job \cup {NoJob}]
  BY <1>1, JobMoves DEF ServeDiscard, DiagramTypes
<1> QED
  BY <1>2 DEF ServeDiscard, DiagramTypes

LEMMA TypesInJobsArrive ==
    ASSUME DiagramTypes, JobsBegun, JobsArrive PROVE DiagramTypes'
<1>1. opening' \in [step : {"none", "sent", "served", "over"}, overtaken : BOOLEAN,
                    jobs : SUBSET Generations]
  BY DEF JobsArrive, DiagramTypes
<1>2. CASE Overtaken \/ opening.jobs = {}
  BY <1>1, <1>2 DEF JobsArrive, DiagramTypes
<1>3. CASE ~Overtaken /\ opening.jobs # {}
  <2>1. chat' \in Chat /\ prompt' \in Texts \cup {NoText} /\ calls' \in [Generations -> Call]
        /\ tracking' \in Generations /\ discards' \subseteq Generations
    BY <1>3, JobTakenUp DEF DiagramTypes
  <2> QED
    BY <1>1, <2>1 DEF JobsArrive, DiagramTypes
<1> QED
  BY <1>2, <1>3

LEMMA TypesInPlacing ==
    ASSUME DiagramTypes,
           \/ PlaceDraft \/ DraftConverted \/ DraftUnreadable \/ DraftNotPlaceable
           \/ PasteMermaid \/ PasteConverted \/ PasteRefused
           \/ \E t \in Texts \cup {NoText} : TypePaste(t)
           \/ \E i \in Pieces : Erase(i)
           \/ UNCHANGED diagram
    PROVE  DiagramTypes'
<1>1. CASE PlaceDraft
  <2>1. placing' \in DraftPlacing
    BY <1>1 DEF PlaceDraft, DraftPlacing, DiagramTypes, Chat
  <2> QED
    BY <1>1, <2>1 DEF PlaceDraft, DiagramTypes
<1>2. CASE DraftConverted
  <2>1. placing.draft \in Generations
    BY <1>2, PlacingIs DEF DraftConverted, DraftPlacing
  <2>2. ASSUME NEW i \in Free PROVE
          /\ [pieces EXCEPT ![i] = [draft |-> placing.draft, shown |-> TRUE]]
                \in [Pieces -> [draft : Generations \cup {Nothing}, shown : BOOLEAN]]
          /\ Remembered(placing.draft, i)
                \in [draft : Generations \cup {Nothing}, ids : SUBSET Pieces]
    BY <2>1 DEF Remembered, Free, DiagramTypes
  <2>3. /\ pieces' \in [Pieces -> [draft : Generations \cup {Nothing}, shown : BOOLEAN]]
        /\ placement' \in [draft : Generations \cup {Nothing}, ids : SUBSET Pieces]
    <3>1. CASE PlacedOnCanvas(placing.draft)
      BY <1>2, <3>1 DEF DraftConverted, DiagramTypes
    <3>2. CASE ~PlacedOnCanvas(placing.draft)
      <4>1. PICK i \in Free :
              /\ pieces' = [pieces EXCEPT ![i] = [draft |-> placing.draft, shown |-> TRUE]]
              /\ placement' = Remembered(placing.draft, i)
        BY <1>2, <3>2 DEF DraftConverted
      <4> QED
        BY <2>2, <4>1
    <3> QED
      BY <3>1, <3>2
  <2> QED
    BY <1>2, <2>3 DEF DraftConverted, DiagramTypes
<1>3. CASE DraftUnreadable
  <2>1. placing.from \in Chat
    BY <1>3, PlacingIs DEF DraftUnreadable, DraftPlacing
  <2> QED
    BY <1>3, <2>1, Generating DEF DraftUnreadable, DiagramTypes
<1>4. CASE DraftNotPlaceable
  BY <1>4 DEF DraftNotPlaceable, DiagramTypes, FailTurn, Chat
<1>5. CASE PasteMermaid
  BY <1>5 DEF PasteMermaid, PastePlacing, DiagramTypes
<1>6. CASE PasteConverted
  <2>1. PICK i \in Pieces : pieces' = [pieces EXCEPT ![i].shown = TRUE]
    BY <1>6 DEF PasteConverted, Free
  <2>2. [pieces[i] EXCEPT !.shown = TRUE] \in [draft : Generations \cup {Nothing}, shown : BOOLEAN]
    BY DEF DiagramTypes
  <2>3. pieces' \in [Pieces -> [draft : Generations \cup {Nothing}, shown : BOOLEAN]]
    BY <2>1, <2>2 DEF DiagramTypes
  <2>4. pasted' \in Texts \cup {NoText}
    BY <1>6 DEF PasteConverted, DiagramTypes
  <2> QED
    BY <1>6, <2>3, <2>4 DEF PasteConverted, DiagramTypes
<1>7. CASE PasteRefused
  BY <1>7 DEF PasteRefused, DiagramTypes
<1>8. ASSUME NEW t \in Texts \cup {NoText}, TypePaste(t) PROVE DiagramTypes'
  BY <1>8 DEF TypePaste, DiagramTypes
<1>9. ASSUME NEW i \in Pieces, Erase(i) PROVE DiagramTypes'
  <2>1. [pieces[i] EXCEPT !.shown = ~@] \in [draft : Generations \cup {Nothing}, shown : BOOLEAN]
    BY DEF DiagramTypes
  <2>2. pieces' = [pieces EXCEPT ![i] = [pieces[i] EXCEPT !.shown = ~@]]
    BY <1>9 DEF Erase
  <2> QED
    BY <1>9, <2>1, <2>2 DEF Erase, DiagramTypes
<1>10. CASE UNCHANGED diagram
  BY <1>10 DEF diagram, DiagramTypes
<1> QED
  BY <1>1, <1>2, <1>3, <1>4, <1>5, <1>6, <1>7, <1>8, <1>9, <1>10

LEMMA DiagramTypesKept ==
    ASSUME DiagramTypes, JobsBegun, [DiagramNext]_diagram PROVE DiagramTypes'
BY TypesInConversation, TypesInJobs, TypesInDiscards, TypesInJobsArrive, TypesInPlacing
DEF DiagramNext

(* The steps that leave calls and jobs alone. *)
Standing ==
    \/ \E t \in Texts \cup {NoText} : Type(t) \/ TypePaste(t)
    \/ OpenBoard \/ ServeJobs \/ JobsFail
    \/ PlaceDraft \/ DraftConverted \/ DraftNotPlaceable
    \/ PasteMermaid \/ PasteConverted \/ PasteRefused
    \/ \E i \in Pieces : Erase(i)
    \/ UNCHANGED diagram

LEMMA StandingStill ==
    ASSUME Standing PROVE UNCHANGED <<calls, diagramJobs, tracking, discards, unheard>>
BY DEF Standing, Type, TypePaste, OpenBoard, ServeJobs, JobsFail, PlaceDraft, DraftConverted,
   DraftNotPlaceable, PasteMermaid, PasteConverted, PasteRefused, Erase, diagram

LEMMA Sending ==
    ASSUME DiagramTypes, Send \/ DraftUnreadable
    PROVE  /\ \E from \in Chat, text \in Texts \cup {Retry} :
                 /\ Generate(from, text)
                 /\ \/ Send /\ from = chat
                    \/ DraftUnreadable /\ placing.what = "draft" /\ from = placing.from
           /\ UNCHANGED <<tracking, discards, unheard, pieces, placement>>
<1>1. CASE Send
  BY <1>1 DEF Send, DiagramTypes
<1>2. CASE DraftUnreadable
  BY <1>2, PlacingIs DEF DraftUnreadable, DraftPlacing
<1> QED
  BY <1>1, <1>2

JobStep(j) ==
    \/ ServeGenerate(j) \/ GenerateArrives(j) \/ GenerateFails(j)
    \/ Settle(j) \/ SettleFails(j)
    \/ \E s \in {"done", "failed", "gone"} : JobEnds(j, s)
    \/ \E ok \in BOOLEAN : ServeDiscard(j, ok)

LEMMA DiagramSteps ==
    ASSUME [DiagramNext]_diagram
    PROVE  \/ Standing \/ Send \/ DraftUnreadable \/ Leave \/ JobsArrive
           \/ \E k \in DiagramKinds : ChangeKind(k)
           \/ \E j \in Generations : JobStep(j)
BY DEF DiagramNext, Standing, JobStep

(* What the server and its answers do to a call and its job. *)
LEMMA ServedGeneration ==
    ASSUME DiagramTypes, NEW j \in Generations, ServeGenerate(j)
    PROVE  /\ diagramJobs[j].state = "asked" /\ diagramJobs[j] # NoJob /\ diagramJobs'[j] # NoJob
           /\ diagramJobs'[j].request = diagramJobs[j].request
           /\ \A m \in Generations \ {j} : diagramJobs'[m] = diagramJobs[m]
           /\ \A m \in Generations \ {j} : calls'[m].step = calls[m].step
           /\ \A m \in Generations : calls'[m].latest = calls[m].latest
           /\ \/ calls[j].step = "left" /\ calls'[j].step = "left"
                 /\ diagramJobs'[j].state \in {"running", "gone"}
              \/ calls[j].step # "left" /\ calls'[j].step = "started"
                 /\ diagramJobs'[j].state = "running"
              \/ calls[j].step # "left" /\ calls'[j].step = "refused"
                 /\ diagramJobs'[j].state = "gone"
           /\ UNCHANGED <<chat, tracking, discards, unheard, opening, placing, pieces, placement>>
<1>1. PICK s \in {"running", "gone"} :
        /\ diagramJobs' = [diagramJobs EXCEPT ![j].state = s]
        /\ calls' = [calls EXCEPT ![j].step =
              IF @ = "left" THEN @ ELSE IF s = "running" THEN "started" ELSE "refused"]
  BY DEF ServeGenerate
<1>2. diagramJobs[j].state = "asked" /\ diagramJobs[j] # NoJob
  BY JobsAre DEF ServeGenerate
<1>3. UNCHANGED <<chat, tracking, discards, unheard, opening, placing, pieces, placement>>
  BY DEF ServeGenerate
<1>4. /\ diagramJobs'[j].state = s /\ diagramJobs'[j].request = diagramJobs[j].request
      /\ diagramJobs'[j] # NoJob
      /\ \A m \in Generations \ {j} : diagramJobs'[m] = diagramJobs[m]
  BY <1>1, <1>2, JobMoves
<1> DEFINE t == IF calls[j].step = "left" THEN "left"
                ELSE IF s = "running" THEN "started" ELSE "refused"
<1>5. calls' = [calls EXCEPT ![j].step = t]
  BY <1>1
<1>6. /\ calls'[j].step = t /\ \A m \in Generations \ {j} : calls'[m].step = calls[m].step
      /\ \A m \in Generations : calls'[m].latest = calls[m].latest
  BY <1>5, CallMoves
<1> QED
  BY <1>2, <1>3, <1>4, <1>6

(* The steps after which a call is over, or its job is looked at. *)
LEMMA AnsweredCall ==
    ASSUME DiagramTypes, NEW j \in Generations,
           GenerateArrives(j) \/ GenerateFails(j) \/ Settle(j) \/ SettleFails(j)
    PROVE  /\ calls[j].step \in {"started", "refused", "polling"}
           /\ calls'[j].step \in {"polling", "over"}
           /\ calls'[j].step = "polling" <=> GenerateArrives(j) /\ calls[j].latest
           /\ \A m \in Generations \ {j} : calls'[m].step = calls[m].step
           /\ \A m \in Generations : calls'[m].latest = calls[m].latest
           /\ UNCHANGED <<diagramJobs, opening, placing, pieces, placement>>
<1>1. CASE GenerateArrives(j)
  BY <1>1, CallMoves DEF GenerateArrives
<1>2. CASE GenerateFails(j)
  <2>1. calls' = [calls EXCEPT ![j].step = "over"]
    BY <1>2 DEF GenerateFails
  <2>2. GenerateArrives(j) => ~calls[j].latest
    BY <2>1, CallMoves DEF GenerateArrives
  <2> QED
    BY <1>2, <2>1, <2>2, CallMoves DEF GenerateFails
<1>3. CASE Settle(j) \/ SettleFails(j)
  <2>1. calls' = [calls EXCEPT ![j].step = "over"] /\ calls[j].step = "polling"
    BY <1>3 DEF Settle, SettleFails, Polls
  <2>2. ~GenerateArrives(j)
    BY <2>1 DEF GenerateArrives
  <2> QED
    BY <1>3, <2>1, <2>2, CallMoves DEF Settle, SettleFails
<1> QED
  BY <1>1, <1>2, <1>3

(* The end of a job, and a discard that reaches the server. *)
LEMMA EndedJob ==
    ASSUME DiagramTypes, JobsBegun, NEW j \in Generations,
           \/ \E s \in {"done", "failed", "gone"} : JobEnds(j, s)
           \/ \E ok \in BOOLEAN : ServeDiscard(j, ok)
    PROVE  /\ diagramJobs[j] # NoJob /\ diagramJobs'[j] # NoJob
           /\ Begun(j) /\ Begun(j)'
           /\ diagramJobs[j].state # "running" => diagramJobs'[j].state # "running"
           /\ diagramJobs[j].state = "gone" => diagramJobs'[j].state = "gone"
           /\ diagramJobs'[j].request = diagramJobs[j].request
           /\ \A m \in Generations \ {j} : diagramJobs'[m] = diagramJobs[m]
           /\ UNCHANGED <<chat, calls, tracking, opening, placing, pieces, placement>>
<1>1. ASSUME NEW s \in {"done", "failed", "gone"}, JobEnds(j, s)
      PROVE  /\ diagramJobs[j] # NoJob /\ Begun(j)
             /\ diagramJobs' = [diagramJobs EXCEPT ![j].state = s]
             /\ diagramJobs[j].state # "gone"
             /\ UNCHANGED <<chat, calls, tracking, opening, placing, pieces, placement>>
  BY <1>1, JobsAre DEF JobEnds, Begun
<1>2. ASSUME NEW ok \in BOOLEAN, ServeDiscard(j, ok)
      PROVE  /\ diagramJobs[j] # NoJob /\ Begun(j)
             /\ diagramJobs' = [diagramJobs EXCEPT ![j].state = "gone"] \/ UNCHANGED diagramJobs
             /\ UNCHANGED <<chat, calls, tracking, opening, placing, pieces, placement>>
  BY <1>2, JobsAre DEF ServeDiscard, JobsBegun, Begun
<1>3. ASSUME NEW s \in {"done", "failed", "gone"}, JobEnds(j, s)
      PROVE  /\ diagramJobs'[j].state = s /\ diagramJobs'[j].request = diagramJobs[j].request
             /\ diagramJobs'[j] # NoJob
             /\ \A m \in Generations \ {j} : diagramJobs'[m] = diagramJobs[m]
  BY <1>1, <1>3, JobMoves
<1>4. ASSUME NEW ok \in BOOLEAN, ServeDiscard(j, ok),
             diagramJobs' = [diagramJobs EXCEPT ![j].state = "gone"]
      PROVE  /\ diagramJobs'[j].state = "gone"
             /\ diagramJobs'[j].request = diagramJobs[j].request
             /\ diagramJobs'[j] # NoJob
             /\ \A m \in Generations \ {j} : diagramJobs'[m] = diagramJobs[m]
  BY <1>2, <1>4, JobMoves
<1>5. CASE \E s \in {"done", "failed", "gone"} : JobEnds(j, s)
  BY <1>1, <1>3, <1>5 DEF Begun
<1>6. CASE \E ok \in BOOLEAN : ServeDiscard(j, ok)
  BY <1>2, <1>4, <1>6 DEF Begun
<1> QED
  BY <1>5, <1>6

LEMMA CallsFitKept ==
    ASSUME DiagramTypes, CallsFit, JobsBegun, [DiagramNext]_diagram PROVE CallsFit'
<1>1. CASE Standing
  BY <1>1, StandingStill DEF CallsFit
<1>2. CASE Send \/ DraftUnreadable
  <2>1. PICK from \in Chat, text \in Texts \cup {Retry}, j \in Generations :
          Generated(from, text, j)
    BY <1>2, Sending, Generating
  <2>2. diagramJobs'[j] # NoJob
    BY <2>1 DEF Generated, NoJob
  <2> QED
    BY <2>1, <2>2 DEF Generated, CallsFit
<1>3. CASE Leave
  BY <1>3 DEF Leave, CallsFit, NoCall
<1>4. CASE JobsArrive
  <2>1. CASE Overtaken \/ opening.jobs = {}
    BY <1>4, <2>1 DEF JobsArrive, CallsFit
  <2>2. CASE ~Overtaken /\ opening.jobs # {}
    <3>1. PICK last \in opening.jobs :
            /\ calls'[last].step = "polling" /\ calls'[last].latest
            /\ \A m \in Generations \ {last} :
                  calls'[m].step = calls[m].step /\ ~calls'[m].latest
      BY <1>4, <2>2, JobTakenUp
    <3>2. last \in Generations /\ Begun(last) /\ diagramJobs[last] # NoJob
      BY JobsAre DEF JobsBegun, Begun, DiagramTypes
    <3>3. UNCHANGED diagramJobs
      BY <1>4 DEF JobsArrive
    <3> QED
      BY <3>1, <3>2, <3>3 DEF CallsFit, Begun
  <2> QED
    BY <2>1, <2>2
<1>5. ASSUME NEW k \in DiagramKinds, ChangeKind(k) PROVE CallsFit'
  BY <1>5, SupersededCalls DEF ChangeKind, CallsFit
<1>6. ASSUME NEW j \in Generations, ServeGenerate(j) PROVE CallsFit'
  <2>1. diagramJobs[j].state = "asked" /\ calls[j].step \in {"sent", "left"}
    BY <1>6, ServedGeneration DEF CallsFit
  <2> QED
    BY <1>6, <2>1, ServedGeneration DEF CallsFit
<1>7. ASSUME NEW j \in Generations,
             GenerateArrives(j) \/ GenerateFails(j) \/ Settle(j) \/ SettleFails(j)
      PROVE  CallsFit'
  BY <1>7, AnsweredCall DEF CallsFit
<1>8. ASSUME NEW j \in Generations,
             \/ \E s \in {"done", "failed", "gone"} : JobEnds(j, s)
             \/ \E ok \in BOOLEAN : ServeDiscard(j, ok)
      PROVE  CallsFit'
  BY <1>8, EndedJob DEF CallsFit, Begun
<1> QED
  BY <1>1, <1>2, <1>3, <1>4, <1>5, <1>6, <1>7, <1>8, DiagramSteps DEF JobStep

(* A job that was begun stays so. *)
LEMMA BegunStays ==
    ASSUME DiagramTypes, CallsFit, JobsBegun, [DiagramNext]_diagram, NEW m \in Generations, Begun(m)
    PROVE  Begun(m)'
<1>1. CASE Standing
  BY <1>1, StandingStill DEF Begun
<1>2. CASE Send \/ DraftUnreadable
  <2>1. PICK from \in Chat, text \in Texts \cup {Retry}, j \in Generations :
          Generated(from, text, j)
    BY <1>2, Sending, Generating
  <2>2. m # j
    BY <2>1 DEF Generated, Begun, NoJob
  <2> QED
    BY <2>1, <2>2 DEF Generated, Begun
<1>3. CASE Leave \/ JobsArrive \/ \E k \in DiagramKinds : ChangeKind(k)
  BY <1>3 DEF Leave, JobsArrive, ChangeKind, Begun
<1>4. ASSUME NEW j \in Generations, ServeGenerate(j) PROVE Begun(m)'
  BY <1>4, ServedGeneration DEF Begun
<1>5. ASSUME NEW j \in Generations,
             GenerateArrives(j) \/ GenerateFails(j) \/ Settle(j) \/ SettleFails(j)
      PROVE  Begun(m)'
  BY <1>5, AnsweredCall DEF Begun
<1>6. ASSUME NEW j \in Generations,
             \/ \E s \in {"done", "failed", "gone"} : JobEnds(j, s)
             \/ \E ok \in BOOLEAN : ServeDiscard(j, ok)
      PROVE  Begun(m)'
  BY <1>6, EndedJob DEF Begun
<1> QED
  BY <1>1, <1>2, <1>3, <1>4, <1>5, <1>6, DiagramSteps DEF JobStep

LEMMA JobsBegunKept ==
    ASSUME DiagramTypes, CallsFit, JobsBegun, [DiagramNext]_diagram PROVE JobsBegun'
<1>1. /\ \A j \in discards \cup opening.jobs : j \in Generations /\ Begun(j)'
      /\ tracking # Nothing => tracking \in Generations /\ Begun(tracking)
      /\ \A j \in Generations : j = tracking /\ tracking # Nothing => Begun(j)'
  BY BegunStays DEF JobsBegun, DiagramTypes
<1> SUFFICES ASSUME TRUE
             PROVE  /\ \A j \in discards' \cup opening'.jobs : Begun(j)'
                    /\ tracking' # Nothing =>
                          tracking' \in Generations
                          /\ \A j \in Generations : j = tracking' => Begun(j)'
  BY DEF JobsBegun, Begun
<1>2. CASE Standing
  <2>1. UNCHANGED <<discards, tracking>>
    BY <1>2, StandingStill
  <2>2. \A j \in opening'.jobs \ opening.jobs : j \in Generations /\ Begun(j)
    <3>1. CASE ServeJobs
      <4>1. opening'.jobs =
              {j \in Generations : diagramJobs[j].state \in {"running", "done", "failed"}}
        BY <3>1 DEF ServeJobs, DiagramTypes
      <4> QED
        BY <4>1 DEF Begun
    <3>2. CASE OpenBoard
      BY <3>2 DEF OpenBoard, NoOpening
    <3>3. CASE Standing /\ ~ServeJobs /\ ~OpenBoard
      BY <3>3 DEF Standing, Type, TypePaste, JobsFail, PlaceDraft, DraftConverted,
         DraftNotPlaceable, PasteMermaid, PasteConverted, PasteRefused, Erase, diagram, DiagramTypes
    <3> QED
      BY <1>2, <3>1, <3>2, <3>3
  <2> QED
    BY <1>1, <2>1, <2>2, BegunStays
<1>3. CASE Send \/ DraftUnreadable
  <2>1. UNCHANGED <<discards, tracking>> /\ opening'.jobs = opening.jobs
    BY <1>3, Sending, Generating DEF DiagramTypes
  <2> QED
    BY <1>1, <2>1
<1>4. CASE Leave
  BY <1>1, <1>4 DEF Leave, NoOpening
<1>5. CASE JobsArrive
  <2>1. opening'.jobs = opening.jobs
    BY <1>5 DEF JobsArrive, DiagramTypes
  <2>2. CASE Overtaken \/ opening.jobs = {}
    BY <1>1, <1>5, <2>1, <2>2 DEF JobsArrive
  <2>3. CASE ~Overtaken /\ opening.jobs # {}
    <3>1. tracking' \in opening.jobs /\ discards' \subseteq discards \cup opening.jobs
      BY <1>5, <2>3, JobTakenUp
    <3> QED
      BY <1>1, <2>1, <3>1
  <2> QED
    BY <2>2, <2>3
<1>6. ASSUME NEW k \in DiagramKinds, ChangeKind(k)
      PROVE  /\ \A j \in discards' \cup opening'.jobs : Begun(j)'
             /\ tracking' = Nothing
  <2>1. opening'.jobs = opening.jobs /\ tracking' = Nothing
        /\ \A j \in discards' : j \in discards \/ (j = tracking /\ tracking # Nothing)
    BY <1>6 DEF ChangeKind, DiagramTypes
  <2> QED
    BY <1>1, <2>1
<1>7. ASSUME NEW j \in Generations, ServeGenerate(j)
      PROVE  UNCHANGED <<discards, tracking, opening>>
  BY <1>7 DEF ServeGenerate
<1>8. ASSUME NEW j \in Generations,
             GenerateArrives(j) \/ GenerateFails(j) \/ Settle(j) \/ SettleFails(j)
      PROVE  /\ discards' \subseteq discards \cup {j} /\ tracking' \in {tracking, Nothing, j}
             /\ opening' = opening
             /\ (j \in discards' \/ tracking' = j) => Begun(j)' \/ j \in discards \/ tracking = j
  <2>1. calls[j].step \in {"started", "refused", "polling"}
    BY <1>8, AnsweredCall
  <2>2. Begun(j)
    BY <2>1, JobsAre DEF CallsFit, Begun
  <2> QED
    BY <1>8, <2>2, BegunStays DEF GenerateArrives, GenerateFails, Settle, SettleFails
<1>9. ASSUME NEW j \in Generations,
             \/ \E s \in {"done", "failed", "gone"} : JobEnds(j, s)
             \/ \E ok \in BOOLEAN : ServeDiscard(j, ok)
      PROVE  discards' \subseteq discards /\ UNCHANGED <<tracking, opening>>
  BY <1>9 DEF JobEnds, ServeDiscard
<1>10. CASE \E j \in Generations : JobStep(j)
  <2>1. PICK j \in Generations : JobStep(j)
    BY <1>10
  <2>2. CASE ServeGenerate(j)
    BY <1>1, <1>7, <2>2
  <2>3. CASE GenerateArrives(j) \/ GenerateFails(j) \/ Settle(j) \/ SettleFails(j)
    <3>1. /\ discards' \subseteq discards \cup {j} /\ tracking' \in {tracking, Nothing, j}
          /\ opening' = opening
          /\ (j \in discards' \/ tracking' = j) => Begun(j)' \/ j \in discards \/ tracking = j
      BY <1>8, <2>3
    <3>2. tracking = j => tracking # Nothing
      BY DiagramAssumption
    <3> QED
      BY <1>1, <3>1, <3>2
  <2>4. CASE \/ \E s \in {"done", "failed", "gone"} : JobEnds(j, s)
             \/ \E ok \in BOOLEAN : ServeDiscard(j, ok)
    BY <1>1, <1>9, <2>4
  <2> QED
    BY <2>1, <2>2, <2>3, <2>4 DEF JobStep
<1> QED
  BY <1>2, <1>3, <1>4, <1>5, <1>6, <1>10, DiagramSteps

LEMMA QuietAtFirstKept ==
    ASSUME DiagramTypes, CallsFit, JobsBegun, QuietAtFirst, [DiagramNext]_diagram
    PROVE  QuietAtFirst'
<1>1. CASE Standing
  <2>1. /\ Quiet' => Quiet
        /\ opening'.step = "none" => /\ opening'.overtaken = opening.overtaken
                                     /\ opening.step = "none" /\ placing' \in {placing, NoPlacing}
    BY <1>1 DEF Standing, Type, TypePaste, OpenBoard, NoOpening, ServeJobs, JobsFail, PlaceDraft,
       DraftConverted, DraftNotPlaceable, PasteMermaid, PasteConverted, PasteRefused, Erase,
       diagram, DiagramTypes, Quiet, QuietAtFirst, Open
  <2> QED
    BY <1>1, <2>1, StandingStill DEF QuietAtFirst
<1>2. CASE Send \/ DraftUnreadable
  <2>1. opening.step # "none"
    BY <1>2, PlacingIs DEF Send, Open, DraftUnreadable, QuietAtFirst
  <2>2. opening' = [opening EXCEPT !.overtaken = TRUE]
    BY <1>2, Sending, Generating
  <2> QED
    BY <2>1, <2>2 DEF QuietAtFirst, Quiet, DiagramTypes
<1>3. CASE Leave
  BY <1>3 DEF Leave, QuietAtFirst, Quiet, NoOpening, NoCall
<1>4. CASE JobsArrive
  BY <1>4 DEF JobsArrive, QuietAtFirst, Quiet, DiagramTypes
<1>5. ASSUME NEW k \in DiagramKinds, ChangeKind(k) PROVE QuietAtFirst'
  BY <1>5 DEF ChangeKind, QuietAtFirst, Quiet, Open, DiagramTypes
<1>6. ASSUME NEW j \in Generations, ServeGenerate(j) PROVE QuietAtFirst'
  BY <1>6, ServedGeneration DEF QuietAtFirst, Quiet, CallsFit
<1>7. ASSUME NEW j \in Generations,
             GenerateArrives(j) \/ GenerateFails(j) \/ Settle(j) \/ SettleFails(j)
      PROVE  QuietAtFirst'
  BY <1>7, AnsweredCall DEF QuietAtFirst, Quiet
<1>8. ASSUME NEW j \in Generations,
             \/ \E s \in {"done", "failed", "gone"} : JobEnds(j, s)
             \/ \E ok \in BOOLEAN : ServeDiscard(j, ok)
      PROVE  QuietAtFirst'
  BY <1>8, EndedJob DEF QuietAtFirst, Quiet
<1> QED
  BY <1>1, <1>2, <1>3, <1>4, <1>5, <1>6, <1>7, <1>8, DiagramSteps DEF JobStep

(* What becomes of the drafts at hand. *)
LEMMA DraftsMove ==
    ASSUME DiagramTypes, JobsBegun, [DiagramNext]_diagram
    PROVE  /\ chat'.draft \in {Nothing, chat.draft}
              \/ \E j \in Generations : Settle(j) /\ chat'.draft = j
           /\ placing'.what = "draft" =>
                 placing' = placing \/ (PlaceDraft /\ placing'.draft = chat.draft)
           /\ \A k \in Pieces : pieces'[k].draft \in {Nothing, pieces[k].draft}
                 \/ (DraftConverted /\ pieces'[k].draft = placing.draft)
<1>1. CASE Standing
  <2>1. chat'.draft = chat.draft
    BY <1>1 DEF Standing, Type, TypePaste, OpenBoard, ServeJobs, JobsFail, PlaceDraft,
       DraftConverted, DraftNotPlaceable, PasteMermaid, PasteConverted, PasteRefused, Erase,
       diagram, DiagramTypes, FailTurn, Chat
  <2>2. placing'.what = "draft" =>
                 placing' = placing \/ (PlaceDraft /\ placing'.draft = chat.draft)
    BY <1>1 DEF Standing, Type, TypePaste, OpenBoard, ServeJobs, JobsFail, PlaceDraft,
       DraftConverted, DraftNotPlaceable, PasteMermaid, PasteConverted, PasteRefused, Erase,
       diagram, NoPlacing
  <2>3. ASSUME NEW k \in Pieces
        PROVE  pieces'[k].draft \in {Nothing, pieces[k].draft}
               \/ (DraftConverted /\ pieces'[k].draft = placing.draft)
    <3>1. CASE DraftConverted
      <4>1. UNCHANGED pieces \/ \E i \in Free :
              pieces' = [pieces EXCEPT ![i] = [draft |-> placing.draft, shown |-> TRUE]]
        BY <3>1 DEF DraftConverted
      <4> QED
        BY <3>1, <4>1 DEF DiagramTypes, Free
    <3>2. CASE PasteConverted
      <4>1. PICK i \in Pieces : pieces' = [pieces EXCEPT ![i].shown = TRUE]
        BY <3>2 DEF PasteConverted, Free
      <4> QED
        BY <4>1 DEF DiagramTypes
    <3>3. CASE \E i \in Pieces : Erase(i)
      <4>1. PICK i \in Pieces : pieces' = [pieces EXCEPT ![i].shown = ~@]
        BY <3>3 DEF Erase
      <4> QED
        BY <4>1 DEF DiagramTypes
    <3>4. CASE UNCHANGED pieces
      BY <3>4
    <3> QED
      BY <1>1, <3>1, <3>2, <3>3, <3>4 DEF Standing, Type, TypePaste, OpenBoard, ServeJobs,
         JobsFail, PlaceDraft, DraftNotPlaceable, PasteMermaid, PasteRefused, diagram
  <2> QED
    BY <2>1, <2>2, <2>3
<1>2. CASE Send \/ DraftUnreadable
  <2>1. UNCHANGED pieces /\ chat'.draft = chat.draft
    BY <1>2, Sending, Generating DEF DiagramTypes, Chat
  <2>2. placing' \in {placing, NoPlacing}
    BY <1>2 DEF Send, DraftUnreadable
  <2> QED
    BY <2>1, <2>2 DEF NoPlacing
<1>3. CASE Leave
  BY <1>3 DEF Leave, StartChat, NoPlacing, NoPiece
<1>4. CASE JobsArrive
  <2>1. chat' = chat \/ chat'.draft = Nothing
    BY <1>4, JobTakenUp DEF JobsArrive
  <2> QED
    BY <1>4, <2>1 DEF JobsArrive
<1>5. ASSUME NEW k \in DiagramKinds, ChangeKind(k)
      PROVE  chat'.draft = Nothing /\ UNCHANGED <<placing, pieces>>
  BY <1>5 DEF ChangeKind, StartChat
<1>6. ASSUME NEW j \in Generations, ServeGenerate(j) PROVE UNCHANGED <<chat, placing, pieces>>
  BY <1>6, ServedGeneration
<1>7. ASSUME NEW j \in Generations,
             GenerateArrives(j) \/ GenerateFails(j) \/ Settle(j) \/ SettleFails(j)
      PROVE  /\ chat'.draft = chat.draft \/ (Settle(j) /\ chat'.draft = j)
             /\ UNCHANGED <<placing, pieces>>
  BY <1>7 DEF GenerateArrives, GenerateFails, Settle, SettleFails, FailTurn, CompleteTurn,
     DiagramTypes, Chat
<1>8. ASSUME NEW j \in Generations,
             \/ \E s \in {"done", "failed", "gone"} : JobEnds(j, s)
             \/ \E ok \in BOOLEAN : ServeDiscard(j, ok)
      PROVE  UNCHANGED <<chat, placing, pieces>>
  BY <1>8, EndedJob
<1> QED
  BY <1>1, <1>2, <1>3, <1>4, <1>5, <1>6, <1>7, <1>8, DiagramSteps DEF JobStep

(* What is over stays over while its board is open. *)
LEMMA OverStays ==
    ASSUME DiagramTypes, CallsFit, QuietAtFirst, JobsBegun, [DiagramNext]_diagram, ~Leave,
           NEW m \in Generations, calls[m].step = "over"
    PROVE  calls'[m].step = "over"
<1>1. CASE Standing
  BY <1>1, StandingStill
<1>2. CASE Send \/ DraftUnreadable
  <2>1. PICK from \in Chat, text \in Texts \cup {Retry}, j \in Generations :
          Generated(from, text, j)
    BY <1>2, Sending, Generating
  <2> QED
    BY <2>1 DEF Generated, CallsFit
<1>3. CASE JobsArrive
  <2>1. CASE Overtaken \/ opening.jobs = {}
    BY <1>3, <2>1 DEF JobsArrive
  <2>2. CASE ~Overtaken
    BY <1>3, <2>2 DEF Overtaken, JobsArrive, QuietAtFirst, Quiet
  <2> QED
    BY <2>1, <2>2
<1>4. ASSUME NEW k \in DiagramKinds, ChangeKind(k) PROVE calls'[m].step = "over"
  BY <1>4, SupersededCalls DEF ChangeKind
<1>5. ASSUME NEW j \in Generations, ServeGenerate(j) PROVE calls'[m].step = "over"
  BY <1>5, ServedGeneration DEF CallsFit
<1>6. ASSUME NEW j \in Generations,
             GenerateArrives(j) \/ GenerateFails(j) \/ Settle(j) \/ SettleFails(j)
      PROVE  calls'[m].step = "over"
  BY <1>6, AnsweredCall
<1>7. ASSUME NEW j \in Generations,
             \/ \E s \in {"done", "failed", "gone"} : JobEnds(j, s)
             \/ \E ok \in BOOLEAN : ServeDiscard(j, ok)
      PROVE  calls'[m].step = "over"
  BY <1>7, EndedJob
<1> QED
  BY <1>1, <1>2, <1>3, <1>4, <1>5, <1>6, <1>7, DiagramSteps DEF JobStep

LEMMA DraftsOverKept ==
    ASSUME DiagramTypes, CallsFit, QuietAtFirst, JobsBegun, DraftsOver, [DiagramNext]_diagram
    PROVE  DraftsOver'
<1>1. CASE Leave
  BY <1>1 DEF Leave, DraftsOver, StartChat, NoPlacing, NoPiece
<1>2. CASE ~Leave
  <2>1. chat'.draft # Nothing => calls'[chat'.draft].step = "over"
    <3>1. chat.draft # Nothing => chat.draft \in Generations
      BY DEF DiagramTypes, Chat
    <3>2. ASSUME NEW j \in Generations, Settle(j) PROVE calls'[j].step = "over"
      BY <3>2, CallMoves DEF Settle
    <3> QED
      BY <1>2, <3>1, <3>2, DraftsMove, OverStays DEF DraftsOver
  <2>2. placing'.what = "draft" => calls'[placing'.draft].step = "over"
    <3>1. placing.what = "draft" => placing.draft \in Generations
      BY PlacingIs DEF DraftPlacing
    <3>2. PlaceDraft => chat.draft \in Generations
      BY DEF PlaceDraft, DiagramTypes, Chat
    <3> QED
      BY <1>2, <3>1, <3>2, DraftsMove, OverStays DEF DraftsOver, PlaceDraft
  <2>3. ASSUME NEW k \in Pieces, pieces'[k].draft # Nothing
        PROVE  calls'[pieces'[k].draft].step = "over"
    <3>1. CASE pieces'[k].draft = pieces[k].draft
      <4>1. pieces[k].draft \in Generations
        BY <2>3, <3>1 DEF DiagramTypes
      <4> QED
        BY <1>2, <2>3, <3>1, <4>1, OverStays DEF DraftsOver
    <3>2. CASE DraftConverted /\ pieces'[k].draft = placing.draft
      <4>1. placing.what = "draft" /\ placing.draft \in Generations
        BY <3>2, PlacingIs DEF DraftPlacing, DraftConverted
      <4> QED
        BY <1>2, <3>2, <4>1, OverStays DEF DraftsOver
    <3> QED
      BY <2>3, <3>1, <3>2, DraftsMove
  <2> QED
    BY <2>1, <2>2, <2>3 DEF DraftsOver
<1> QED
  BY <1>1, <1>2

LEMMA PlacementKept ==
    ASSUME DiagramTypes, JobsBegun, [DiagramNext]_diagram, ~Leave, ~DraftConverted
    PROVE  placement' = placement
<1>1. CASE Standing
  BY <1>1 DEF Standing, Type, TypePaste, OpenBoard, ServeJobs, JobsFail, PlaceDraft,
     DraftNotPlaceable, PasteMermaid, PasteConverted, PasteRefused, Erase, diagram
<1>2. CASE Send \/ DraftUnreadable
  BY <1>2, Sending
<1>3. CASE JobsArrive \/ \E k \in DiagramKinds : ChangeKind(k)
  BY <1>3 DEF JobsArrive, ChangeKind
<1>4. ASSUME NEW j \in Generations, JobStep(j) PROVE placement' = placement
  BY <1>4, ServedGeneration, AnsweredCall, EndedJob DEF JobStep
<1> QED
  BY <1>1, <1>2, <1>3, <1>4, DiagramSteps

LEMMA PlacedNow ==
    ASSUME DiagramTypes, DraftConverted, ~PlacedOnCanvas(placing.draft)
    PROVE  \E i \in Free :
              /\ i \in Pieces /\ placing.what = "draft" /\ placing.draft \in Generations
              /\ pieces'[i].draft = placing.draft
              /\ \A k \in Pieces \ {i} : pieces'[k] = pieces[k]
              /\ placement'.draft = placing.draft /\ i \in placement'.ids
              /\ placement.draft = placing.draft => placement.ids \subseteq placement'.ids
              /\ chat' = chat /\ placing' = NoPlacing
<1>1. placing.what = "draft" /\ placing.draft \in Generations /\ chat' = chat /\ placing' = NoPlacing
  BY PlacingIs DEF DraftPlacing, DraftConverted
<1>2. PICK i \in Free :
        /\ pieces' = [pieces EXCEPT ![i] = [draft |-> placing.draft, shown |-> TRUE]]
        /\ placement' = Remembered(placing.draft, i)
  BY DEF DraftConverted
<1>3. i \in Pieces
  BY DEF Free
<1> QED
  BY <1>1, <1>2, <1>3 DEF Remembered, DiagramTypes

LEMMA PiecesRememberedKept ==
    ASSUME DiagramTypes, CallsFit, QuietAtFirst, JobsBegun, DraftsOver, PiecesRemembered,
           [DiagramNext]_diagram
    PROVE  PiecesRemembered'
<1>0. /\ chat.draft \in Generations \cup {Nothing}
      /\ placing.what = "draft" => placing.draft \in Generations
      /\ \A k \in Pieces : pieces[k].draft \in Generations \cup {Nothing}
  BY PlacingIs DEF DiagramTypes, Chat, DraftPlacing
<1>1. CASE Leave
  BY <1>1 DEF Leave, PiecesRemembered, NoPlacing, NoPiece
<1>2. CASE DraftConverted
  <2>1. placing'.what # "draft" /\ chat' = chat
    BY <1>2 DEF DraftConverted, NoPlacing
  <2>2. CASE PlacedOnCanvas(placing.draft)
    <3>1. UNCHANGED <<pieces, placement>>
      BY <1>2, <2>2 DEF DraftConverted
    <3> QED
      BY <2>1, <3>1 DEF PiecesRemembered, AtHand
  <2>3. CASE ~PlacedOnCanvas(placing.draft)
    <3>1. PICK i \in Pieces :
            /\ placing.what = "draft"
            /\ pieces'[i].draft = placing.draft
            /\ \A k \in Pieces \ {i} : pieces'[k] = pieces[k]
            /\ placement'.draft = placing.draft /\ i \in placement'.ids
            /\ placement.draft = placing.draft => placement.ids \subseteq placement'.ids
      BY <1>2, <2>3, PlacedNow
    <3>2. ASSUME NEW k \in Pieces \ {i}, pieces[k].draft # Nothing, pieces[k].draft = chat.draft
          PROVE  placement'.draft = chat.draft /\ k \in placement'.ids
      <4>1. placement.draft = chat.draft /\ k \in placement.ids
        BY <3>2 DEF PiecesRemembered, AtHand
      <4>2. chat.draft = placing.draft
        BY <3>1, <3>2 DEF PiecesRemembered, OnCanvas
      <4> QED
        BY <3>1, <4>1, <4>2
    <3> QED
      BY <2>1, <3>1, <3>2 DEF PiecesRemembered, AtHand
  <2> QED
    BY <2>2, <2>3
<1>3. CASE ~Leave /\ ~DraftConverted
  <2>1. placement' = placement
    BY <1>3, PlacementKept
  <2>2. \A k \in Pieces : pieces'[k].draft \in {Nothing, pieces[k].draft}
    BY <1>3, DraftsMove
  <2>3. \A j \in Generations : Settle(j) => ~OnCanvas(j)
    BY <1>0, DiagramAssumption DEF Settle, Polls, DraftsOver, OnCanvas
  <2>4. ASSUME NEW k \in Pieces, pieces'[k].draft # Nothing,
               \/ pieces'[k].draft = chat'.draft
               \/ placing'.what = "draft" /\ pieces'[k].draft = placing'.draft
        PROVE  placement.draft = pieces'[k].draft /\ k \in placement.ids
    <3>1. pieces'[k].draft = pieces[k].draft
      BY <2>2, <2>4
    <3>2. AtHand(pieces[k].draft)
      <4>1. CASE pieces[k].draft = chat'.draft
        BY <2>3, <2>4, <3>1, <4>1, DraftsMove DEF AtHand, OnCanvas
      <4>2. CASE placing'.what = "draft" /\ pieces[k].draft = placing'.draft
        BY <2>3, <2>4, <3>1, <4>2, DraftsMove DEF AtHand, OnCanvas
      <4> QED
        BY <2>4, <3>1, <4>1, <4>2
    <3> QED
      BY <2>4, <3>1, <3>2 DEF PiecesRemembered
  <2>5. ASSUME placing'.what = "draft", chat'.draft \notin {Nothing, placing'.draft},
               NEW k \in Pieces, pieces'[k].draft = chat'.draft
        PROVE  FALSE
    <3>1. pieces[k].draft = chat'.draft
      BY <2>2, <2>5
    <3>2. chat'.draft = chat.draft
      BY <2>3, <2>5, <3>1, DraftsMove DEF OnCanvas
    <3>3. placing' = placing
      BY <2>5, <3>2, DraftsMove
    <3> QED
      BY <2>5, <3>1, <3>2, <3>3 DEF PiecesRemembered, OnCanvas
  <2> QED
    BY <2>1, <2>4, <2>5 DEF PiecesRemembered, AtHand, OnCanvas
<1> QED
  BY <1>1, <1>2, <1>3

LEMMA DiagramKept == DiagramInv /\ [DiagramNext]_diagram => DiagramInv'
BY DiagramTypesKept, CallsFitKept, QuietAtFirstKept, JobsBegunKept, DraftsOverKept,
   PiecesRememberedKept DEF DiagramInv

PlacingStep ==
    \A i \in Pieces : pieces[i] = NoPiece /\ pieces'[i].draft # Nothing =>
          \A k \in Pieces : pieces[k].draft = pieces'[i].draft => ~pieces[k].shown

LEMMA DraftsArePlacedOnce ==
    ASSUME DiagramInv, [DiagramNext]_diagram PROVE PlacingStep
<1> SUFFICES ASSUME NEW i \in Pieces, pieces[i] = NoPiece, pieces'[i].draft # Nothing,
                    NEW k \in Pieces, pieces[k].draft = pieces'[i].draft
             PROVE  ~pieces[k].shown
  BY DEF PlacingStep
<1>1. DraftConverted /\ pieces'[i].draft = placing.draft
  BY DraftsMove DEF DiagramInv, NoPiece
<1>2. placing.what = "draft"
  BY <1>1 DEF DraftConverted
<1>3. placement.draft = placing.draft /\ k \in placement.ids
  BY <1>1, <1>2 DEF DiagramInv, PiecesRemembered, AtHand
<1>4. ~PlacedOnCanvas(placing.draft)
  BY <1>1 DEF DraftConverted, NoPiece
<1> QED
  BY <1>3, <1>4 DEF PlacedOnCanvas

(* The rest assumes that the user waits for a conversion. *)
LEMMA QuietIsEarly ==
    ASSUME DiagramInv, FollowedInv, JobsArrive, ~Overtaken
    PROVE  /\ \A j \in Generations : calls[j].step \in {"none", "left"} /\ ~calls[j].latest
           /\ placing.what # "draft" /\ tracking = Nothing
<1>1. Quiet
  BY DEF JobsArrive, Overtaken, Quiet
<1>2. placing.what = "draft" => placing.draft \in Generations
  BY PlacingIs DEF DiagramInv, DraftPlacing
<1> QED
  BY <1>1, <1>2 DEF DiagramInv, QuietAtFirst, CallsFit, DraftsOver, FollowedInv, QuietChat

LEMMA OneLatestKept ==
    ASSUME DiagramInv, FollowedInv, [DiagramNext]_diagram PROVE OneLatest'
<1> USE DEF DiagramInv, FollowedInv
<1>1. CASE Standing
  BY <1>1, StandingStill DEF OneLatest
<1>2. CASE Send \/ DraftUnreadable
  <2>1. PICK from \in Chat, text \in Texts \cup {Retry}, j \in Generations :
          Generated(from, text, j)
    BY <1>2, Sending, Generating
  <2> QED
    BY <2>1 DEF Generated, OneLatest
<1>3. CASE Leave
  BY <1>3 DEF Leave, OneLatest, NoCall
<1>4. CASE JobsArrive
  <2>1. CASE Overtaken \/ opening.jobs = {}
    BY <1>4, <2>1 DEF JobsArrive, OneLatest
  <2>2. CASE ~Overtaken /\ opening.jobs # {}
    BY <1>4, <2>2, JobTakenUp DEF OneLatest, DiagramTypes
  <2> QED
    BY <2>1, <2>2
<1>5. ASSUME NEW k \in DiagramKinds, ChangeKind(k) PROVE OneLatest'
  BY <1>5, SupersededCalls DEF ChangeKind, OneLatest
<1>6. ASSUME NEW j \in Generations, ServeGenerate(j) PROVE OneLatest'
  BY <1>6, ServedGeneration DEF OneLatest
<1>7. ASSUME NEW j \in Generations,
             GenerateArrives(j) \/ GenerateFails(j) \/ Settle(j) \/ SettleFails(j)
      PROVE  OneLatest'
  BY <1>7, AnsweredCall DEF OneLatest
<1>8. ASSUME NEW j \in Generations,
             \/ \E s \in {"done", "failed", "gone"} : JobEnds(j, s)
             \/ \E ok \in BOOLEAN : ServeDiscard(j, ok)
      PROVE  OneLatest'
  BY <1>8, EndedJob DEF OneLatest
<1> QED
  BY <1>1, <1>2, <1>3, <1>4, <1>5, <1>6, <1>7, <1>8, DiagramSteps DEF JobStep

LEMMA QuietChatKept ==
    ASSUME DiagramInv, FollowedInv, [DiagramNext]_diagram PROVE QuietChat'
<1> USE DEF DiagramInv, FollowedInv
<1>1. CASE Standing
  <2>1. Quiet' => Quiet
    BY <1>1 DEF Standing, Type, TypePaste, OpenBoard, NoOpening, ServeJobs, JobsFail, PlaceDraft,
       DraftConverted, DraftNotPlaceable, PasteMermaid, PasteConverted, PasteRefused, Erase,
       diagram, DiagramTypes, Quiet, QuietAtFirst, Open
  <2>2. chat'.draft = chat.draft /\ chat'.pending \in {chat.pending, Nothing}
    BY <1>1 DEF Standing, Type, TypePaste, OpenBoard, ServeJobs, JobsFail, PlaceDraft,
       DraftConverted, DraftNotPlaceable, PasteMermaid, PasteConverted, PasteRefused, Erase,
       diagram, DiagramTypes, FailTurn, Chat
  <2> QED
    BY <1>1, <2>1, <2>2, StandingStill DEF QuietChat
<1>2. CASE Send \/ DraftUnreadable
  BY <1>2, Sending, Generating DEF QuietChat, Quiet, DiagramTypes
<1>3. CASE Leave
  BY <1>3 DEF Leave, QuietChat, StartChat
<1>4. CASE JobsArrive
  BY <1>4 DEF JobsArrive, QuietChat, Quiet, DiagramTypes
<1>5. ASSUME NEW k \in DiagramKinds, ChangeKind(k) PROVE QuietChat'
  BY <1>5 DEF ChangeKind, QuietChat, Quiet, DiagramTypes
<1>6. ASSUME NEW j \in Generations, ServeGenerate(j) PROVE QuietChat'
  BY <1>6, ServedGeneration DEF QuietChat, Quiet
<1>7. ASSUME NEW j \in Generations,
             GenerateArrives(j) \/ GenerateFails(j) \/ Settle(j) \/ SettleFails(j)
      PROVE  QuietChat'
  BY <1>7, AnsweredCall DEF QuietChat, Quiet, QuietAtFirst
<1>8. ASSUME NEW j \in Generations,
             \/ \E s \in {"done", "failed", "gone"} : JobEnds(j, s)
             \/ \E ok \in BOOLEAN : ServeDiscard(j, ok)
      PROVE  QuietChat'
  BY <1>8, EndedJob DEF QuietChat, Quiet
<1> QED
  BY <1>1, <1>2, <1>3, <1>4, <1>5, <1>6, <1>7, <1>8, DiagramSteps DEF JobStep

LEMMA TrackedKept ==
    ASSUME Patient, DiagramInv, FollowedInv, [DiagramNext]_diagram PROVE TrackedIsFollowed'
<1> USE DEF DiagramInv, FollowedInv, Polls
<1>0. tracking # Nothing => tracking \in Generations
  BY DEF DiagramTypes
<1>1. CASE Standing
  BY <1>1, StandingStill DEF TrackedIsFollowed
<1>2. CASE Send \/ DraftUnreadable
  <2>1. chat.pending = Nothing
    BY <1>2 DEF Send, DraftUnreadable, KindsFit
  <2>2. UNCHANGED <<tracking, unheard>>
    BY <1>2, Sending
  <2> QED
    BY <1>0, <2>1, <2>2 DEF TrackedIsFollowed, PendingIsFollowed
<1>3. CASE Leave \/ \E k \in DiagramKinds : ChangeKind(k)
  BY <1>3 DEF Leave, ChangeKind, TrackedIsFollowed
<1>4. CASE JobsArrive
  <2>1. CASE Overtaken \/ opening.jobs = {}
    BY <1>4, <2>1 DEF JobsArrive, TrackedIsFollowed
  <2>2. CASE ~Overtaken /\ opening.jobs # {}
    BY <1>4, <2>2, JobTakenUp DEF TrackedIsFollowed
  <2> QED
    BY <2>1, <2>2
<1>5. ASSUME NEW j \in Generations, ServeGenerate(j) PROVE TrackedIsFollowed'
  <2>1. tracking # j
    BY <1>5, DiagramAssumption, ServedGeneration DEF JobsBegun, Begun
  <2> QED
    BY <1>0, <1>5, <2>1, ServedGeneration DEF TrackedIsFollowed
<1>6. ASSUME NEW j \in Generations,
             GenerateArrives(j) \/ GenerateFails(j) \/ Settle(j) \/ SettleFails(j)
      PROVE  TrackedIsFollowed'
  <2>1. /\ tracking' \in {tracking, Nothing}
           \/ (tracking' = j /\ calls[j].latest /\ calls'[j].step = "polling")
        /\ unheard \subseteq unheard'
    BY <1>6, AnsweredCall DEF GenerateArrives, GenerateFails, Settle, SettleFails
  <2>2. tracking = j /\ Polls(j) => tracking' = Nothing \/ j \in unheard'
    BY <1>6 DEF GenerateArrives, GenerateFails, Settle, SettleFails
  <2> QED
    BY <1>0, <1>6, <2>1, <2>2, AnsweredCall DEF TrackedIsFollowed
<1>7. ASSUME NEW j \in Generations,
             \/ \E s \in {"done", "failed", "gone"} : JobEnds(j, s)
             \/ \E ok \in BOOLEAN : ServeDiscard(j, ok)
      PROVE  TrackedIsFollowed'
  <2>1. unheard \subseteq unheard'
    BY <1>7 DEF JobEnds, ServeDiscard
  <2> QED
    BY <1>7, <2>1, EndedJob DEF TrackedIsFollowed
<1> QED
  BY <1>1, <1>2, <1>3, <1>4, <1>5, <1>6, <1>7, DiagramSteps DEF JobStep

Live(j) == calls[j].latest /\ calls[j].step \in {"sent", "started", "refused", "polling"}

LEMMA PendingKept ==
    ASSUME Patient, DiagramInv, FollowedInv, [DiagramNext]_diagram PROVE PendingIsFollowed'
<1> USE DEF DiagramInv, FollowedInv
<1>0. chat.pending # Nothing <=> \E j \in Generations : Live(j)
  BY DEF PendingIsFollowed, Live
<1> SUFFICES chat'.pending # Nothing <=> \E j \in Generations : Live(j)'
  BY DEF PendingIsFollowed, Live
<1>1. CASE Standing
  <2>1. chat'.pending = chat.pending
    BY <1>1 DEF Standing, Type, TypePaste, OpenBoard, ServeJobs, JobsFail, PlaceDraft,
       DraftConverted, DraftNotPlaceable, PasteMermaid, PasteConverted, PasteRefused, Erase,
       diagram, DiagramTypes, FailTurn, Chat, KindsFit
  <2> QED
    BY <1>0, <1>1, <2>1, StandingStill DEF Live
<1>2. CASE Send \/ DraftUnreadable
  <2>1. PICK from \in Chat, text \in Texts \cup {Retry} :
          Generate(from, text) /\ chat' = [chat EXCEPT !.pending = text]
    BY <1>2, Sending, Generating
  <2>2. chat'.pending # Nothing
    BY <2>1, DiagramAssumption DEF DiagramTypes, Chat
  <2>3. PICK j \in Generations : Generated(from, text, j)
    BY <2>1, Generating
  <2> QED
    BY <2>2, <2>3 DEF Generated, Live
<1>3. CASE Leave
  BY <1>3 DEF Leave, StartChat, NoCall, Live
<1>4. CASE JobsArrive
  <2>1. CASE Overtaken \/ opening.jobs = {}
    BY <1>0, <1>4, <2>1 DEF JobsArrive, Live
  <2>2. CASE ~Overtaken /\ opening.jobs # {}
    <3>1. PICK last \in opening.jobs :
            /\ diagramJobs[last] \in Job /\ chat'.pending = diagramJobs[last].request.asked
            /\ calls'[last].step = "polling" /\ calls'[last].latest
      BY <1>4, <2>2, JobTakenUp
    <3>2. chat'.pending # Nothing /\ last \in Generations
      BY <3>1, DiagramAssumption DEF Job, Request, DiagramTypes
    <3> QED
      BY <3>1, <3>2 DEF Live
  <2> QED
    BY <2>1, <2>2
<1>5. ASSUME NEW k \in DiagramKinds, ChangeKind(k)
      PROVE  chat'.pending = Nothing /\ \A j \in Generations : ~Live(j)'
  BY <1>5, SupersededCalls DEF ChangeKind, StartChat, Live
<1>6. ASSUME NEW j \in Generations, ServeGenerate(j)
      PROVE  chat'.pending = chat.pending /\ \A m \in Generations : Live(m)' <=> Live(m)
  BY <1>6, ServedGeneration DEF Live, CallsFit
<1>7. ASSUME NEW j \in Generations,
             GenerateArrives(j) \/ GenerateFails(j) \/ Settle(j) \/ SettleFails(j)
      PROVE  \/ chat'.pending = chat.pending /\ \A m \in Generations : Live(m)' <=> Live(m)
             \/ chat'.pending = Nothing /\ \A m \in Generations : ~Live(m)'
  <2>1. CASE calls[j].latest /\ ~GenerateArrives(j)
    <3>1. chat'.pending = Nothing
      BY <1>7, <2>1 DEF GenerateFails, Settle, SettleFails, FailTurn, CompleteTurn, DiagramTypes,
         Chat
    <3>2. calls'[j].step = "over"
      BY <1>7, <2>1, AnsweredCall
    <3> QED
      BY <1>7, <2>1, <3>1, <3>2, AnsweredCall DEF OneLatest, Live
  <2>2. CASE GenerateArrives(j) /\ calls[j].latest
    <3>1. chat'.pending = chat.pending
      BY <2>2 DEF GenerateArrives
    <3>2. calls'[j].step = "polling" /\ calls[j].step = "started"
      BY <1>7, <2>2, AnsweredCall DEF GenerateArrives
    <3> QED
      BY <1>7, <3>1, <3>2, AnsweredCall DEF Live
  <2>3. CASE ~calls[j].latest
    <3>1. chat'.pending = chat.pending
      BY <1>7, <2>3 DEF GenerateArrives, GenerateFails, Settle, SettleFails, Polls
    <3> QED
      BY <1>7, <2>3, <3>1, AnsweredCall DEF Live
  <2> QED
    BY <2>1, <2>2, <2>3
<1>8. ASSUME NEW j \in Generations,
             \/ \E s \in {"done", "failed", "gone"} : JobEnds(j, s)
             \/ \E ok \in BOOLEAN : ServeDiscard(j, ok)
      PROVE  UNCHANGED <<chat, calls>>
  BY <1>8, EndedJob
<1>9. CASE \E j \in Generations : JobStep(j)
  <2>1. \/ chat'.pending = chat.pending /\ \A m \in Generations : Live(m)' <=> Live(m)
        \/ chat'.pending = Nothing /\ \A m \in Generations : ~Live(m)'
        \/ UNCHANGED <<chat, calls>>
    BY <1>6, <1>7, <1>8, <1>9 DEF JobStep
  <2> QED
    BY <1>0, <2>1 DEF Live
<1> QED
  BY <1>1, <1>2, <1>3, <1>4, <1>5, <1>9, DiagramSteps

LEMMA SlotKept ==
    ASSUME DiagramInv, FollowedInv, [DiagramNext]_diagram PROVE SlotIsFollowed'
<1> USE DEF DiagramInv, FollowedInv
<1>1. CASE Standing
  BY <1>1, StandingStill DEF SlotIsFollowed
<1>2. CASE Send \/ DraftUnreadable
  <2>1. PICK from \in Chat, text \in Texts \cup {Retry}, j \in Generations :
          Generated(from, text, j)
    BY <1>2, Sending, Generating
  <2>2. UNCHANGED <<tracking, discards, unheard>>
    BY <1>2, Sending
  <2> QED
    BY <2>1, <2>2 DEF Generated, SlotIsFollowed
<1>3. CASE Leave
  <2>1. \A j \in Generations : calls'[j].step = "left" \/ diagramJobs'[j].state = "none"
    BY <1>3, JobsAre DEF Leave, CallsFit
  <2> QED
    BY <2>1 DEF SlotIsFollowed
<1>4. CASE JobsArrive
  <2>1. CASE Overtaken \/ opening.jobs = {}
    BY <1>4, <2>1 DEF JobsArrive, SlotIsFollowed
  <2>2. CASE ~Overtaken /\ opening.jobs # {}
    <3>1. PICK last \in opening.jobs :
            /\ \A m \in Generations \ {last} : calls'[m].step = calls[m].step
            /\ tracking' = last
      BY <1>4, <2>2, JobTakenUp
    <3>2. \A m \in Generations : calls[m].step = "left" \/ diagramJobs[m].state = "none"
      BY <1>4, <2>2, QuietIsEarly, JobsAre DEF CallsFit
    <3>3. UNCHANGED diagramJobs
      BY <1>4 DEF JobsArrive
    <3> QED
      BY <3>1, <3>2, <3>3 DEF SlotIsFollowed
  <2> QED
    BY <2>1, <2>2
<1>5. ASSUME NEW k \in DiagramKinds, ChangeKind(k) PROVE SlotIsFollowed'
  <2>1. UNCHANGED <<diagramJobs, unheard>>
        /\ discards \subseteq discards' /\ (tracking # Nothing => tracking \in discards')
    BY <1>5 DEF ChangeKind
  <2>2. \A m \in Generations : calls'[m].step = calls[m].step
    BY <1>5, SupersededCalls DEF ChangeKind
  <2>3. \A m \in Generations : m # Nothing
    BY DiagramAssumption
  <2> QED
    BY <2>1, <2>2, <2>3 DEF SlotIsFollowed
<1>6. ASSUME NEW j \in Generations, ServeGenerate(j) PROVE SlotIsFollowed'
  BY <1>6, ServedGeneration DEF SlotIsFollowed
<1>7. ASSUME NEW j \in Generations,
             GenerateArrives(j) \/ GenerateFails(j) \/ Settle(j) \/ SettleFails(j)
      PROVE  SlotIsFollowed'
  <2>1. discards \subseteq discards' /\ unheard \subseteq unheard' /\ UNCHANGED diagramJobs
    BY <1>7 DEF GenerateArrives, GenerateFails, Settle, SettleFails
  <2>2. \/ diagramJobs[j].state # "running" \/ j \in discards' \/ j \in unheard' \/ j = tracking'
    BY <1>7 DEF GenerateArrives, GenerateFails, Settle, SettleFails, CallsFit
  <2>3. ASSUME NEW m \in Generations, m # j, m = tracking
        PROVE  m = tracking' \/ m \in unheard'
    <3>1. CASE GenerateArrives(j) /\ calls[j].latest
      <4>1. ~Polls(m)
        BY <2>3, <3>1 DEF Polls, OneLatest
      <4> QED
        BY <2>1, <2>3, <4>1, DiagramAssumption DEF TrackedIsFollowed
    <3>2. CASE ~(GenerateArrives(j) /\ calls[j].latest)
      BY <1>7, <2>3, <3>2 DEF GenerateArrives, GenerateFails, Settle, SettleFails
    <3> QED
      BY <3>1, <3>2
  <2> QED
    BY <1>7, <2>1, <2>2, <2>3, AnsweredCall DEF SlotIsFollowed
<1>8. ASSUME NEW j \in Generations, NEW s \in {"done", "failed", "gone"}, JobEnds(j, s)
      PROVE  SlotIsFollowed'
  BY <1>8, EndedJob DEF SlotIsFollowed, JobEnds
<1>9. ASSUME NEW j \in Generations, NEW ok \in BOOLEAN, ServeDiscard(j, ok)
      PROVE  SlotIsFollowed'
  <2>1. /\ unheard \subseteq unheard' /\ discards' = discards \ {j}
        /\ diagramJobs'[j].state = "gone" \/ j \in unheard'
    <3>1. diagramJobs[j] # NoJob
      BY <1>9, EndedJob
    <3> QED
      BY <1>9, <3>1, JobMoves DEF ServeDiscard
  <2> QED
    BY <1>9, <2>1, EndedJob DEF SlotIsFollowed
<1> QED
  BY <1>1, <1>2, <1>3, <1>4, <1>5, <1>6, <1>7, <1>8, <1>9, DiagramSteps DEF JobStep

(* A request does not change once it was sent. *)
LEMMA RequestsStay ==
    ASSUME DiagramInv, [DiagramNext]_diagram, NEW m \in Generations, diagramJobs[m] # NoJob
    PROVE  diagramJobs'[m] # NoJob /\ diagramJobs'[m].request = diagramJobs[m].request
<1> USE DEF DiagramInv
<1>1. CASE Standing
  BY <1>1, StandingStill
<1>2. CASE Send \/ DraftUnreadable
  <2>1. PICK from \in Chat, text \in Texts \cup {Retry} : Generate(from, text)
    BY <1>2, Sending
  <2>2. PICK j \in Generations : Generated(from, text, j)
    BY <2>1, Generating
  <2>3. m # j
    BY <2>2 DEF Generated
  <2> QED
    BY <2>2, <2>3 DEF Generated
<1>3. CASE Leave \/ JobsArrive \/ \E k \in DiagramKinds : ChangeKind(k)
  BY <1>3 DEF Leave, JobsArrive, ChangeKind
<1>4. ASSUME NEW j \in Generations, JobStep(j)
      PROVE  diagramJobs'[m] # NoJob /\ diagramJobs'[m].request = diagramJobs[m].request
  BY <1>4, ServedGeneration, AnsweredCall, EndedJob DEF JobStep
<1> QED
  BY <1>1, <1>2, <1>3, <1>4, DiagramSteps

(* What the steps do to the kind of the conversation. *)
LEMMA KindStays ==
    ASSUME Patient, DiagramInv, FollowedInv, [DiagramNext]_diagram
    PROVE  \/ Leave \/ JobsArrive \/ (\E k \in DiagramKinds : ChangeKind(k))
           \/ chat'.kind = chat.kind
<1> USE DEF DiagramInv
<1>1. CASE Standing
  BY <1>1 DEF Standing, Type, TypePaste, OpenBoard, ServeJobs, JobsFail, PlaceDraft,
     DraftConverted, DraftNotPlaceable, PasteMermaid, PasteConverted, PasteRefused, Erase,
     diagram, DiagramTypes, FailTurn, Chat
<1>2. CASE Send \/ DraftUnreadable
  BY <1>2, Sending, Generating DEF DiagramTypes, Chat
<1>3. ASSUME NEW j \in Generations, JobStep(j) PROVE chat'.kind = chat.kind
  BY <1>3, ServedGeneration, EndedJob DEF JobStep, GenerateArrives, GenerateFails, Settle,
     SettleFails, FailTurn, CompleteTurn, DiagramTypes, Chat
<1> QED
  BY <1>1, <1>2, <1>3, DiagramSteps

LEMMA RequestsOfOneKind ==
    ASSUME DiagramInv, FollowedInv, [DiagramNext]_diagram,
           NEW m \in Generations, diagramJobs'[m] # NoJob
    PROVE  OfOneKind(diagramJobs'[m].request)
<1>1. CASE diagramJobs[m] # NoJob
  BY <1>1, RequestsStay DEF FollowedInv, KindsFit, OfOneKind
<1>2. CASE diagramJobs[m] = NoJob
  <2>1. Send \/ DraftUnreadable
    <3>1. diagramJobs'[m] # diagramJobs[m]
      BY <1>2
    <3>2. ~Standing
      BY <3>1, StandingStill
    <3>3. ASSUME NEW j \in Generations, JobStep(j) PROVE FALSE
      BY <1>2, <3>1, <3>3, ServedGeneration, AnsweredCall, EndedJob DEF JobStep, DiagramInv
    <3> QED
      BY <3>1, <3>2, <3>3, DiagramSteps DEF Leave, JobsArrive, ChangeKind
  <2>2. PICK from \in Chat, text \in Texts \cup {Retry} :
          /\ Generate(from, text)
          /\ from = chat \/ (placing.what = "draft" /\ from = placing.from)
    BY <2>1, Sending DEF DiagramInv
  <2>3. OfOneKind(from)
    BY <2>2 DEF FollowedInv, KindsFit, OneKind, OfOneKind
  <2>4. PICK j \in Generations : Generated(from, text, j)
    BY <2>2, Generating DEF DiagramInv
  <2>5. j = m
    BY <1>2, <2>4 DEF Generated
  <2> QED
    BY <2>3, <2>4, <2>5 DEF Generated, OfOneKind
<1> QED
  BY <1>1, <1>2

LEMMA LatestOfThisKind ==
    ASSUME Patient, DiagramInv, FollowedInv, [DiagramNext]_diagram,
           NEW m \in Generations, calls'[m].latest
    PROVE  diagramJobs'[m].request.kind = chat'.kind
<1> USE DEF DiagramInv, FollowedInv
<1>0. calls[m].latest => /\ diagramJobs[m] # NoJob
                         /\ diagramJobs[m].request.kind = chat.kind
  BY DEF CallsFit, KindsFit
<1>1. CASE Send \/ DraftUnreadable
  <2>1. PICK from \in Chat, text \in Texts \cup {Retry} :
          /\ Generate(from, text)
          /\ from = chat \/ (placing.what = "draft" /\ from = placing.from)
    BY <1>1, Sending
  <2>2. from.kind = chat.kind
    BY <2>1 DEF KindsFit
  <2>3. PICK j \in Generations : Generated(from, text, j)
    BY <2>1, Generating
  <2>4. chat'.kind = chat.kind
    BY <2>1, Generating DEF DiagramTypes, Chat
  <2> QED
    BY <2>2, <2>3, <2>4 DEF Generated
<1>2. CASE Leave
  BY <1>2 DEF Leave, NoCall
<1>3. CASE JobsArrive
  <2>1. CASE Overtaken \/ opening.jobs = {}
    BY <1>0, <1>3, <2>1 DEF JobsArrive
  <2>2. CASE ~Overtaken /\ opening.jobs # {}
    <3>1. UNCHANGED diagramJobs
      BY <1>3 DEF JobsArrive
    <3> QED
      BY <1>3, <2>2, <3>1, JobTakenUp
  <2> QED
    BY <2>1, <2>2
<1>4. ASSUME NEW k \in DiagramKinds, ChangeKind(k) PROVE FALSE
  BY <1>4, SupersededCalls DEF ChangeKind
<1>5. CASE Standing
  BY <1>0, <1>5, StandingStill, KindStays DEF Standing, Leave, JobsArrive, ChangeKind,
     Type, TypePaste, OpenBoard, ServeJobs, JobsFail, PlaceDraft,
     DraftConverted, DraftNotPlaceable, PasteMermaid, PasteConverted, PasteRefused, Erase,
     diagram, DiagramTypes, FailTurn, Chat
<1>6. ASSUME NEW j \in Generations, JobStep(j)
      PROVE  calls[m].latest /\ chat'.kind = chat.kind
  <2>1. calls[m].latest
    BY <1>6, ServedGeneration, AnsweredCall, EndedJob DEF JobStep
  <2>2. chat'.kind = chat.kind
    BY <1>6, ServedGeneration, EndedJob DEF JobStep, GenerateArrives, GenerateFails, Settle,
       SettleFails, FailTurn, CompleteTurn, DiagramTypes, Chat
  <2> QED
    BY <2>1, <2>2
<1> QED
  BY <1>0, <1>1, <1>2, <1>3, <1>4, <1>5, <1>6, RequestsStay, DiagramSteps

LEMMA PlacedFromThis ==
    ASSUME Patient, DiagramInv, FollowedInv, [DiagramNext]_diagram, placing'.what = "draft"
    PROVE  /\ OfOneKind(placing'.from) /\ placing'.from.kind = chat'.kind
           /\ chat'.pending = Nothing
<1> USE DEF DiagramInv, FollowedInv
<1>1. CASE PlaceDraft
  BY <1>1 DEF PlaceDraft, KindsFit, OneKind, OfOneKind
<1>2. CASE ~PlaceDraft
  <2>1. placing' = placing /\ placing.what = "draft" /\ placing # NoPlacing
    BY <1>2, DraftsMove DEF NoPlacing
  <2>2. ~Leave /\ ~Send /\ ~DraftUnreadable /\ \A k \in DiagramKinds : ~ChangeKind(k)
    BY <2>1 DEF Leave, Send, DraftUnreadable, ChangeKind, Idle, NoPlacing
  <2>3. JobsArrive => UNCHANGED chat
    BY <2>1, QuietIsEarly DEF JobsArrive
  <2>4. chat'.kind = chat.kind
    BY <2>2, <2>3, KindStays
  <2>5. chat'.pending = Nothing
    <3>1. chat.pending = Nothing
      BY <2>1 DEF KindsFit
    <3>2. CASE Standing
      BY <3>1, <3>2 DEF Standing, Type, TypePaste, OpenBoard, ServeJobs, JobsFail, PlaceDraft,
         DraftConverted, DraftNotPlaceable, PasteMermaid, PasteConverted, PasteRefused, Erase,
         diagram, DiagramTypes, FailTurn, Chat
    <3>3. ASSUME NEW j \in Generations, JobStep(j) PROVE chat'.pending \in {Nothing, chat.pending}
      BY <3>3, ServedGeneration, EndedJob DEF JobStep, GenerateArrives, GenerateFails, Settle,
         SettleFails, FailTurn, CompleteTurn, DiagramTypes, Chat
    <3> QED
      BY <2>2, <2>3, <3>1, <3>2, <3>3, DiagramSteps
  <2> QED
    BY <2>1, <2>4, <2>5 DEF KindsFit
<1> QED
  BY <1>1, <1>2

LEMMA OneKindKept ==
    ASSUME Patient, DiagramInv, FollowedInv, [DiagramNext]_diagram PROVE OneKind'
<1> USE DEF DiagramInv, FollowedInv
<1>0. chat.draft # Nothing =>
         /\ chat.draft \in Generations /\ diagramJobs[chat.draft] # NoJob
         /\ diagramJobs[chat.draft].request.kind = chat.kind
  BY DEF KindsFit, OneKind, DraftsOver, CallsFit, DiagramTypes, Chat
<1>1. ASSUME chat'.kind = chat.kind, chat'.turns = chat.turns, chat'.draft = chat.draft
      PROVE  OneKind'
  BY <1>0, <1>1, RequestsStay DEF OneKind, KindsFit
<1>2. CASE Standing
  BY <1>1, <1>2 DEF Standing, Type, TypePaste, OpenBoard, ServeJobs, JobsFail, PlaceDraft,
     DraftConverted, DraftNotPlaceable, PasteMermaid, PasteConverted, PasteRefused, Erase,
     diagram, DiagramTypes, FailTurn, Chat
<1>3. CASE Send \/ DraftUnreadable
  BY <1>1, <1>3, Sending, Generating DEF DiagramTypes, Chat
<1>4. ASSUME Leave \/ \E k \in DiagramKinds : ChangeKind(k)
      PROVE  chat'.turns = << >> /\ chat'.draft = Nothing
  BY <1>4 DEF Leave, ChangeKind, StartChat
<1>5. CASE JobsArrive
  <2>1. CASE Overtaken \/ opening.jobs = {}
    BY <1>1, <1>5, <2>1 DEF JobsArrive
  <2>2. CASE ~Overtaken /\ opening.jobs # {}
    <3>1. PICK last \in opening.jobs :
            /\ chat'.kind = diagramJobs[last].request.kind
            /\ chat'.turns = diagramJobs[last].request.turns
            /\ chat'.draft = Nothing
      BY <1>5, <2>2, JobTakenUp
    <3>2. last \in Generations /\ diagramJobs[last] # NoJob
      BY JobsAre DEF JobsBegun, Begun, DiagramTypes
    <3> QED
      BY <3>1, <3>2 DEF KindsFit, OneKind, OfOneKind
  <2> QED
    BY <2>1, <2>2
<1>6. ASSUME NEW j \in Generations, Settle(j) PROVE OneKind'
  <2>1. diagramJobs[j] # NoJob /\ diagramJobs[j].request.kind = chat.kind
    BY <1>6 DEF Settle, Polls, KindsFit, CallsFit
  <2>2. CASE diagramJobs[j].state = "done"
    <3>1. chat' = CompleteTurn(chat, j)
      BY <1>6, <2>2 DEF Settle
    <3>2. chat'.kind = chat.kind /\ chat'.draft = j
          /\ chat'.turns \in {chat.turns, Append(chat.turns, chat.kind)}
      BY <2>1, <3>1 DEF CompleteTurn, DiagramTypes, Chat
    <3>3. chat.turns \in Seq(DiagramKinds)
      BY DEF DiagramTypes, Chat
    <3>4. \A n \in DOMAIN chat'.turns : chat'.turns[n] = chat.kind
      BY <3>2, <3>3 DEF KindsFit, OneKind
    <3> QED
      BY <2>1, <3>2, <3>4, RequestsStay DEF OneKind
  <2>3. CASE diagramJobs[j].state # "done"
    BY <1>1, <1>6, <2>3 DEF Settle, FailTurn, DiagramTypes, Chat
  <2> QED
    BY <2>2, <2>3
<1>7. ASSUME NEW j \in Generations, JobStep(j), ~Settle(j) PROVE OneKind'
  BY <1>1, <1>7, ServedGeneration, EndedJob DEF JobStep, GenerateArrives, GenerateFails,
     SettleFails, FailTurn, DiagramTypes, Chat
<1> QED
  BY <1>2, <1>3, <1>4, <1>5, <1>6, <1>7, DiagramSteps DEF OneKind

LEMMA FollowedKept ==
    ASSUME Patient, DiagramInv, FollowedInv, [DiagramNext]_diagram PROVE FollowedInv'
<1>1. KindsFit'
  BY RequestsOfOneKind, LatestOfThisKind, PlacedFromThis, OneKindKept DEF KindsFit, OfOneKind
<1> QED
  BY <1>1, OneLatestKept, QuietChatKept, TrackedKept, PendingKept, SlotKept DEF FollowedInv
-----------------------------------------------------------------------------
(* The premise *)

(* What is being written began from a text that was shown, and stays until *)
(* a save of it is answered.                                               *)
PremiseInv ==
    /\ written \in [text : Premises, base : Premises] \cup {NotWriting}
    /\ stored \in Premises /\ board \in Premises /\ writings \in Nat /\ others \in Nat
    /\ putting = NotPutting
       \/ putting \in [step : {"sent", "accepted", "refused", "reading", "read"},
                       text : Premises, base : Premises]
    /\ Saving => written # NotWriting
    /\ open /\ written = NotWriting => board \in seen
    /\ written # NotWriting => written.base \in seen
    /\ putting.step = "sent" => putting.base \in seen

LEMMA PremiseStart == PremiseInit => PremiseInv
<1> SUFFICES ASSUME PremiseInit PROVE PremiseInv
  OBVIOUS
<1>1. putting = NotPutting /\ putting.step # "sent" /\ ~Saving
  BY DEF PremiseInit, NotPutting, Saving
<1>2. writings \in Nat /\ others \in Nat
  BY DEF PremiseInit
<1> QED
  BY <1>1, <1>2, PremiseAssumption DEF PremiseInit, PremiseInv

LEMMA WritingIsText ==
    ASSUME NEW w \in [text : Premises, base : Premises]
    PROVE  w # NotWriting /\ w.text \in Premises /\ w.base \in Premises
BY PremiseAssumption DEF NotWriting

LEMMA PremiseKeeps == PremiseInv /\ [PremiseNext]_premising => PremiseInv'
<1> SUFFICES ASSUME PremiseInv, [PremiseNext]_premising PROVE PremiseInv'
  OBVIOUS
<1> USE PremiseAssumption DEF PremiseInv, Saving, NotPutting, Edited
<1>1. CASE OpenEditor
  BY <1>1 DEF OpenEditor
<1>2. CASE CloseEditor
  BY <1>2 DEF CloseEditor, Clear
<1>3. CASE Discard
  BY <1>3 DEF Discard, Clear
<1>4. CASE SavePremise
  <2>1. CASE Edited
    <3>1. written # NotWriting
      BY <2>1 DEF NotWriting
    <3> QED
      BY <1>4, <2>1, <3>1 DEF SavePremise
  <2>2. CASE ~Edited
    BY <1>4, <2>2 DEF SavePremise, Clear
  <2> QED
    BY <2>1, <2>2
<1>5. ASSUME NEW t \in Premises, Change(t) PROVE PremiseInv'
  <2>1. written' \in [text : Premises, base : Premises]
    BY <1>5 DEF Change
  <2>2. written' # NotWriting /\ written'.base \in seen
    BY <1>5, <2>1, WritingIsText DEF Change
  <2> QED
    BY <1>5, <2>1, <2>2 DEF Change
<1>6. ASSUME NEW t \in Premises, OthersWrite(t) PROVE PremiseInv'
  BY <1>6 DEF OthersWrite
<1>7. CASE ServePremise
  BY <1>7 DEF ServePremise
<1>8. CASE PremiseArrives
  <2>1. CASE written.text = putting.text
    BY <1>8, <2>1 DEF PremiseArrives
  <2>2. CASE written.text # putting.text
    <3>1. written' \in [text : Premises, base : Premises] /\ written'.base = putting.text
      BY <1>8, <2>2 DEF PremiseArrives
    <3> QED
      BY <1>8, <3>1, WritingIsText DEF PremiseArrives
  <2> QED
    BY <2>1, <2>2
<1>9. CASE PremiseFails \/ ConflictArrives \/ ServeLatest \/ LatestFails
  BY <1>9 DEF PremiseFails, ConflictArrives, ServeLatest, LatestFails
<1>10. CASE LatestArrives
  <2>1. written' \in [text : Premises, base : Premises] /\ written'.base = putting.text
    BY <1>10 DEF LatestArrives
  <2> QED
    BY <1>10, <2>1, WritingIsText DEF LatestArrives
<1>11. CASE BoardArrives
  BY <1>11 DEF BoardArrives
<1>12. CASE UNCHANGED premising
  BY <1>12 DEF premising
<1> QED
  BY <1>1, <1>2, <1>3, <1>4, <1>5, <1>6, <1>7, <1>8, <1>9, <1>10, <1>11, <1>12 DEF PremiseNext

WritingStep ==
    Edited /\ written'.text # written.text =>
        \/ writings' # writings \/ Discard
        \/ putting.step = "accepted" /\ putting.text = written.text

LEMMA WritingIsKept ==
    ASSUME PremiseInv, [PremiseNext]_premising PROVE WritingStep
<1> USE DEF WritingStep, PremiseInv
<1>1. CASE CloseEditor \/ SavePremise
  BY <1>1 DEF CloseEditor, SavePremise
<1>2. CASE \E t \in Premises : Change(t)
  BY <1>2 DEF Change
<1>3. CASE PremiseArrives
  BY <1>3 DEF PremiseArrives, Saving, NotPutting
<1>4. CASE LatestArrives
  BY <1>4 DEF LatestArrives, Saving, NotPutting
<1> QED
  BY <1>1, <1>2, <1>3, <1>4 DEF PremiseNext, premising, OpenEditor, OthersWrite, ServePremise,
     PremiseFails, ConflictArrives, ServeLatest, LatestFails, BoardArrives

ReplacingStep ==
    putting.step = "sent" /\ stored' # stored /\ others' = others => stored \in seen

LEMMA OnlySeenReplaced ==
    ASSUME PremiseInv, [PremiseNext]_premising PROVE ReplacingStep
<1>1. CASE ServePremise
  BY <1>1 DEF ServePremise, PremiseInv, ReplacingStep
<1>2. CASE \E t \in Premises : OthersWrite(t)
  BY <1>2 DEF OthersWrite, ReplacingStep
<1> QED
  BY <1>1, <1>2 DEF PremiseNext, premising, ReplacingStep, OpenEditor, CloseEditor, Discard,
     SavePremise, Change, PremiseArrives, PremiseFails, ConflictArrives, ServeLatest,
     LatestArrives, LatestFails, BoardArrives
-----------------------------------------------------------------------------
(* The name of an annotation *)

(* The field is open only while a name may be written, and until the       *)
(* canvas has been heard of the frame is as it was.                        *)
NamingInv ==
    /\ frame \in Frame /\ savedName \in Names /\ heard \in BOOLEAN /\ mayEdit \in BOOLEAN
    /\ entry \in Entries \cup {NoEntry} /\ began \in Names /\ strokes \in Nat
    /\ ~heard => frame.there /\ frame.marked
    /\ entry # NoEntry => CanRename

LEMMA NamingStart == NamingInit => NamingInv
<1> SUFFICES ASSUME NamingInit PROVE NamingInv
  OBVIOUS
<1>1. frame \in Frame /\ frame.there /\ frame.marked
  BY DEF NamingInit, Frame
<1> QED
  BY <1>1, NameAssumption DEF NamingInit, NamingInv

LEMMA RenamesWhatIsThere ==
    ASSUME NamingInv, CanRename PROVE frame.there /\ frame.marked
BY DEF NamingInv, CanRename, OnTheCanvas, Unmarked, Frame

LEMMA CommittedFrame ==
    ASSUME NamingInv
    PROVE  /\ Committed \in Frame
           /\ Committed.there = frame.there /\ Committed.marked = frame.marked
           /\ entry # NoEntry /\ Trimmed[entry] # began => Committed.name = Trimmed[entry]
           /\ entry # NoEntry /\ Trimmed[entry] = began => Committed = frame
           /\ entry = NoEntry => Committed = frame
<1>1. Trimmed[began] = began /\ (entry # NoEntry => Trimmed[entry] \in Names)
  BY NameAssumption DEF NamingInv
<1>2. \A n \in Names : [frame EXCEPT !.name = n] \in Frame
  BY DEF NamingInv, Frame
<1>3. CASE entry # NoEntry
  <2>1. frame.there /\ frame.marked /\ CanRename
    BY <1>3, RenamesWhatIsThere DEF NamingInv
  <2> QED
    BY <1>1, <1>2, <1>3, <2>1 DEF Committed, ChangedName, Renamed, NamingInv, Frame
<1>4. CASE entry = NoEntry
  BY <1>4 DEF Committed, NamingInv
<1> QED
  BY <1>3, <1>4

LEMMA NamingKept == NamingInv /\ [NamingNext]_naming => NamingInv'
<1> SUFFICES ASSUME NamingInv, [NamingNext]_naming PROVE NamingInv'
  OBVIOUS
<1> DEFINE Field == entry' # NoEntry => CanRename'
<1>1. CASE OpenFace \/ DropName
  BY <1>1 DEF OpenFace, DropName, NamingInv, CanRename, OnTheCanvas, Unmarked
<1>2. CASE StartNaming
  <2>1. NameShown \in Names /\ Names \subseteq Entries
    BY NameAssumption DEF NameShown, NamingInv, Frame
  <2> QED
    BY <1>2, <2>1 DEF StartNaming, NamingInv, CanRename, OnTheCanvas, Unmarked
<1>3. ASSUME NEW e \in Entries, TypeName(e) PROVE NamingInv'
  BY <1>3 DEF TypeName, Stroke, NamingInv, CanRename, OnTheCanvas, Unmarked
<1>4. CASE CommitName \/ CloseFace
  BY <1>4, CommittedFrame DEF CommitName, CloseFace, NamingInv
<1>5. CASE InterpretNamed
  <2>1. frame' \in Frame /\ frame'.name \in Names
    BY <1>5, CommittedFrame DEF InterpretNamed, Frame
  <2> QED
    BY <1>5, <2>1, CommittedFrame DEF InterpretNamed, NamingInv
<1>6. ASSUME NEW g \in Grains, SetGrain(g) PROVE NamingInv'
  <2>1. frame' \in Frame /\ frame'.there = frame.there /\ frame'.marked /\ frame.there
    BY <1>6 DEF SetGrain, NamingInv, Frame
  <2> QED
    BY <1>6, <2>1 DEF SetGrain, Stroke, NamingInv, CanRename, OnTheCanvas, Unmarked
<1>7. ASSUME NEW s \in Shapes \cup {NoShape}, SetShape(s) PROVE NamingInv'
  <2>1. frame' \in Frame /\ frame'.there = frame.there /\ frame'.marked = frame.marked
    BY <1>7 DEF SetShape, NamingInv, Frame
  <2> QED
    BY <1>7, <2>1 DEF SetShape, Stroke, NamingInv, CanRename, OnTheCanvas, Unmarked
<1>8. CASE UnmarkFrame
  <2>1. frame' \in Frame
    BY <1>8 DEF UnmarkFrame, NamingInv, Frame
  <2> QED
    BY <1>8, <2>1 DEF UnmarkFrame, Stroke, NamingInv, Kept
<1>9. CASE CanvasChanges
  <2>1. frame' \in Frame
    BY <1>9 DEF CanvasChanges, NamingInv, Frame
  <2> QED
    BY <1>9, <2>1 DEF CanvasChanges, Stroke, NamingInv, Kept
<1>10. CASE CanvasHeard \/ RoleChanges
  <2>1. entry' \in Entries \cup {NoEntry} /\ (entry' # NoEntry => CanRename')
    BY <1>10 DEF CanvasHeard, RoleChanges, NamingInv, Kept
  <2>2. heard' \in BOOLEAN /\ mayEdit' \in BOOLEAN
    BY <1>10, ZenonT(30) DEF CanvasHeard, RoleChanges, NamingInv
  <2>3. frame' = frame /\ strokes' \in Nat /\ (~heard' => ~heard)
    BY <1>10 DEF CanvasHeard, RoleChanges, Stroke, NamingInv
  <2> QED
    BY <1>10, <2>1, <2>2, <2>3 DEF CanvasHeard, RoleChanges, NamingInv
<1>11. CASE UNCHANGED naming
  BY <1>11 DEF naming, NamingInv, CanRename, OnTheCanvas, Unmarked
<1> QED
  BY <1>1, <1>2, <1>3, <1>4, <1>5, <1>6, <1>7, <1>8, <1>9, <1>10, <1>11 DEF NamingNext

NamingStepKeeps ==
    /\ entry # NoEntry /\ entry' = NoEntry /\ ~DropName =>
        IF Trimmed[entry] = began THEN frame'.name = frame.name \/ strokes' # strokes
        ELSE frame'.name = Trimmed[entry] \/ ~CanRename'
    /\ InterpretNamed /\ entry # NoEntry /\ Trimmed[entry] # began /\ CanRename
        => readAs' = Trimmed[entry]

LEMMA NamesAreKept ==
    ASSUME NamingInv, [NamingNext]_naming PROVE NamingStepKeeps
<1>1. InterpretNamed /\ entry # NoEntry /\ Trimmed[entry] # began /\ CanRename
        => readAs' = Trimmed[entry]
  BY CommittedFrame, RenamesWhatIsThere DEF InterpretNamed
<1> SUFFICES ASSUME entry # NoEntry, entry' = NoEntry, ~DropName
             PROVE  IF Trimmed[entry] = began THEN frame'.name = frame.name \/ strokes' # strokes
                    ELSE frame'.name = Trimmed[entry] \/ ~CanRename'
  BY <1>1 DEF NamingStepKeeps
<1>2. CASE CommitName \/ CloseFace \/ InterpretNamed
  BY <1>2, CommittedFrame DEF CommitName, CloseFace, InterpretNamed
<1>3. CASE UnmarkFrame \/ CanvasChanges \/ RoleChanges
  <2>1. ~CanRename' /\ strokes' # strokes
    BY <1>3 DEF UnmarkFrame, CanvasChanges, RoleChanges, Kept, Stroke, NamingInv
  <2> QED
    BY <2>1
<1>4. CASE CanvasHeard
  BY <1>4 DEF CanvasHeard, Kept
<1> QED
  BY <1>2, <1>3, <1>4, NameAssumption
  DEF NamingNext, naming, OpenFace, StartNaming, TypeName, SetGrain, SetShape
-----------------------------------------------------------------------------
(* The choice of a target *)

(* The readings on their way are numbered by the presses that asked for    *)
(* them; the newest is of what is pressed.                                 *)
PickerInv ==
    /\ presses \in Nat
    /\ projectsRequest \in 0 .. presses /\ fieldsRequest \in 0 .. presses
    /\ repository \in Repositories \cup {NoRepository}
    /\ chosen \in Projects \cup {NoProject}
    /\ \A a \in projectsAsked : a.of \in Repositories /\ a.number \in 1 .. presses
    /\ \A a \in fieldsAsked : a.of \in Projects /\ a.number \in 1 .. presses
    /\ \A a \in projectsAsked : a.number = projectsRequest => a.of = repository
    /\ \A a \in fieldsAsked :
            a.number = fieldsRequest /\ chosen # NoProject => a.of = chosen
    /\ chosen # NoProject =>
            repository \in Repositories /\ chosen \in ProjectsOf[repository]
    /\ projects \in [status : {"none", "reading", "read", "failed"}, list : SUBSET Projects]
    /\ projects.status = "read" => repository \in Repositories
    /\ TargetAsShown

LEMMA PickerStart == PickerInit => PickerInv
BY DEF PickerInit, PickerInv, TargetAsShown, NotListed, NotChecked, NotPicked

LEMMA PickerKept == PickerInv /\ [PickerNext]_picking => PickerInv'
<1> SUFFICES ASSUME PickerInv, [PickerNext]_picking PROVE PickerInv'
  OBVIOUS
<1> USE PickerAssumption DEF PickerInv, TargetAsShown, asking
<1>1. CASE RepositoriesArrive
  BY <1>1 DEF RepositoriesArrive
<1>2. CASE ConfirmProject
  BY <1>2 DEF ConfirmProject, Press
<1>3. CASE SelectedArrives \/ CancelPicker
  BY <1>3 DEF SelectedArrives, CancelPicker
<1>4. ASSUME NEW r \in Repositories, ChooseRepository(r) PROVE PickerInv'
  BY <1>4 DEF ChooseRepository, Press, AskProjects
<1>5. ASSUME NEW p \in Projects, ChooseProject(p) PROVE PickerInv'
  BY <1>5 DEF ChooseProject, Press, NotChecked
<1>6. ASSUME NEW a \in projectsAsked, ProjectsArrive(a) PROVE PickerInv'
  BY <1>6 DEF ProjectsArrive, Current
<1>7. ASSUME NEW a \in fieldsAsked, FieldsArrive(a) PROVE PickerInv'
  BY <1>7 DEF FieldsArrive, Current
<1>8. CASE UNCHANGED picking
  BY <1>8 DEF picking
<1> QED
  BY <1>1, <1>2, <1>3, <1>4, <1>5, <1>6, <1>7, <1>8 DEF PickerNext
-----------------------------------------------------------------------------
(* The members *)

Stages      == {"sent", "done", "refused", "changed"}
LookupCall  == [op : {"lookup"}, step : {"sent", "refused"}, login : Logins]
FoundCall   == [op : {"lookup"}, step : {"found"}, login : Logins, user : Users]
InviteCall  == [op : {"invite"}, step : Stages, login : Logins, user : Users, role : Roles]
RoleCall    == [op : {"setRole"}, step : Stages, user : Users, role : Roles]
RemoveCall  == [op : {"remove"}, step : Stages, user : Users]
ListCall    == [op : {"list"}, step : {"sent"}]
ListedCall  == [op : {"list"}, step : {"served"}, list : Sharing]
ChangeCall  == InviteCall \cup RoleCall \cup RemoveCall
SharingCall == ChangeCall \cup LookupCall \cup FoundCall \cup ListCall \cup ListedCall

InvitesShown(c) ==
    c.op = "invite" => [login |-> c.login, user |-> c.user] \in shown

(* Whoever an invitation names, on the screen, on its way or left behind   *)
(* by a dialog that was closed, was shown under the login it is for.       *)
SharingInv ==
    /\ holder \in [Logins -> Users \cup {Nobody}] /\ roleOf \in Sharing
    /\ login \in Logins \cup {NoLogin} /\ inviteRole \in Roles
    /\ invitee \in Invitee \cup {NoInvitee}
    /\ invitee # NoInvitee => invitee \in shown
    /\ call \in SharingCall \cup {NotBusy} /\ InvitesShown(call)
    /\ \A c \in left : c \in ChangeCall /\ InvitesShown(c)

LEMMA SharingStart == SharingInit => SharingInv
BY DEF SharingInit, SharingInv, Roles, NotBusy, InvitesShown

(* What the server does for a call changes the role of no one but those    *)
(* the call is allowed for, and makes a member only of whom it names.      *)
LEMMA ServedRoles ==
    ASSUME SharingInv, NEW c \in ChangeCall, InvitesShown(c), Allowed(c)
    PROVE  /\ Done(c) \in Sharing
           /\ \A u \in Users : \/ roleOf[u] # "none" \/ Done(c)[u] = "none"
                               \/ \E l \in Logins : [login |-> l, user |-> u] \in shown
<1>1. CASE c \in InviteCall
  <2>1. c.op = "invite" /\ c.login \in Logins /\ c.user \in Users /\ c.role \in Roles
    BY <1>1 DEF InviteCall
  <2>2. Done(c) = [roleOf EXCEPT ![c.user] = c.role]
    BY <2>1, <1>1 DEF Done, Allowed, SameHolder
  <2>3. [login |-> c.login, user |-> c.user] \in shown
    BY <2>1 DEF InvitesShown
  <2> QED
    BY <2>1, <2>2, <2>3 DEF SharingInv, Sharing
<1>2. CASE c \in RoleCall
  <2>1. c.op = "setRole" /\ c.user \in Users /\ c.role \in Roles
    BY <1>2 DEF RoleCall
  <2>2. Done(c) = [roleOf EXCEPT ![c.user] = c.role] /\ roleOf[c.user] # "none"
    BY <2>1 DEF Done, Allowed
  <2> QED
    BY <2>1, <2>2 DEF SharingInv, Sharing
<1>3. CASE c \in RemoveCall
  <2>1. c.op = "remove" /\ c.user \in Users
    BY <1>3 DEF RemoveCall
  <2>2. Done(c) = [roleOf EXCEPT ![c.user] = "none"]
    BY <2>1 DEF Done
  <2> QED
    BY <2>1, <2>2 DEF SharingInv, Sharing
<1> QED
  BY <1>1, <1>2, <1>3 DEF ChangeCall

LEMMA ChangeCalls ==
    ASSUME NEW c \in SharingCall \cup {NotBusy}, c.op \in {"invite", "setRole", "remove"}
    PROVE  c \in ChangeCall
BY DEF SharingCall, NotBusy, LookupCall, FoundCall, ListCall, ListedCall

LEMMA SharingKept == SharingInv /\ [SharingNext]_sharing => SharingInv'
<1> SUFFICES ASSUME SharingInv, [SharingNext]_sharing PROVE SharingInv'
  OBVIOUS
<1> USE DEF SharingInv, InvitesShown, Server
<1>0. /\ NotBusy.op # "invite"
      /\ \A c \in LookupCall \cup FoundCall \cup ListCall \cup ListedCall : c.op # "invite"
  BY DEF NotBusy, LookupCall, FoundCall, ListCall, ListedCall
<1>1. CASE OpenSharing \/ RetryList \/ ServeRead \/ \E r \in reads : ReadArrives(r)
  BY <1>1 DEF OpenSharing, RetryList, ServeRead, ReadArrives
<1>2. CASE CloseSharing
  <2>1. call.op \in {"invite", "setRole", "remove"} => call \in ChangeCall
    BY ChangeCalls
  <2>2. \A c \in left' : c \in ChangeCall /\ InvitesShown(c)
    BY <1>2, <2>1 DEF CloseSharing
  <2>3. "editor" \in Roles
    BY DEF Roles
  <2> QED
    BY <1>0, <1>2, <2>2, <2>3 DEF CloseSharing
<1>3. CASE CancelInvitation \/ (\E l \in Logins \cup {NoLogin} : TypeLogin(l))
           \/ \E r \in Roles : ChooseRole(r)
  BY <1>3 DEF CancelInvitation, TypeLogin, ChooseRole
<1>4. CASE Lookup
  <2>1. call' \in LookupCall
    BY <1>4 DEF Lookup, Ask, LookupCall
  <2> QED
    BY <1>0, <1>4, <2>1 DEF Lookup, Ask, SharingCall
<1>5. CASE Invite
  <2>1. call' \in InviteCall /\ [login |-> call'.login, user |-> call'.user] = invitee
    BY <1>5 DEF Invite, Ask, InviteCall, Invitee, Stages
  <2> QED
    BY <1>5, <2>1 DEF Invite, Ask, SharingCall, ChangeCall
<1>6. ASSUME NEW u \in Users, RemoveMember(u) PROVE SharingInv'
  <2>1. call' \in RemoveCall /\ call'.op # "invite"
    BY <1>6 DEF RemoveMember, Ask, RemoveCall, Stages
  <2> QED
    BY <1>6, <2>1 DEF RemoveMember, Ask, SharingCall, ChangeCall
<1>7. ASSUME NEW u \in Users, NEW r \in Roles, ChangeRole(u, r) PROVE SharingInv'
  <2>1. call' \in RoleCall /\ call'.op # "invite"
    BY <1>7 DEF ChangeRole, Ask, RoleCall, Stages
  <2> QED
    BY <1>7, <2>1 DEF ChangeRole, Ask, SharingCall, ChangeCall
<1>8. CASE ServeSharing
  <2>1. call \in ChangeCall
    BY <1>8, ChangeCalls DEF ServeSharing
  <2>2. \A s \in Stages : [call EXCEPT !.step = s] \in ChangeCall
                          /\ InvitesShown([call EXCEPT !.step = s])
    BY <2>1 DEF ChangeCall, InviteCall, RoleCall, RemoveCall
  <2>3. roleOf' \in Sharing
    BY <1>8, <2>1, ServedRoles DEF ServeSharing
  <2>4. \E s \in Stages : call' = [call EXCEPT !.step = s]
    BY <1>8 DEF ServeSharing, RefusalOf, Stages
  <2> QED
    BY <1>8, <2>2, <2>3, <2>4 DEF ServeSharing, SharingCall
<1>9. ASSUME NEW c \in left, ServeLeft(c) PROVE SharingInv'
  <2>1. roleOf' \in Sharing
    BY <1>9, ServedRoles DEF ServeLeft
  <2> QED
    BY <1>9, <2>1 DEF ServeLeft
<1>10. CASE ServeLookup
  <2>1. call \in LookupCall
    BY <1>10 DEF ServeLookup, SharingCall, ChangeCall, InviteCall, RoleCall, RemoveCall,
       FoundCall, ListCall, ListedCall, NotBusy
  <2>2. call' \in LookupCall \cup FoundCall
    BY <1>10, <2>1 DEF ServeLookup, LookupCall, FoundCall
  <2> QED
    BY <1>0, <1>10, <2>2 DEF ServeLookup, SharingCall
<1>11. CASE ServeListing
  <2>1. call' \in ListedCall
    BY <1>11 DEF ServeListing, ListedCall
  <2> QED
    BY <1>0, <1>11, <2>1 DEF ServeListing, SharingCall
<1>12. ASSUME NEW l \in Logins, NEW u \in Users, SignsIn(l, u) PROVE SharingInv'
  BY <1>12 DEF SignsIn
<1>13. ASSUME NEW u \in Users, NEW r \in Roles \cup {"none"}, OthersShare(u, r) PROVE SharingInv'
  BY <1>13 DEF OthersShare, Sharing
<1>14. CASE FoundArrives
  <2>1. call \in FoundCall
    BY <1>14 DEF FoundArrives, SharingCall, ChangeCall, InviteCall, RoleCall, RemoveCall,
       LookupCall, ListCall, ListedCall, NotBusy
  <2>2. invitee' \in Invitee /\ invitee' \in shown' /\ shown \subseteq shown'
    BY <1>14, <2>1 DEF FoundArrives, FoundCall, Invitee
  <2> QED
    BY <1>0, <1>14, <2>2 DEF FoundArrives
<1>15. CASE DoneArrives
  <2>1. call' \in ListCall
    BY <1>15 DEF DoneArrives, ListCall
  <2> QED
    BY <1>0, <1>15, <2>1 DEF DoneArrives, SharingCall
<1>16. CASE CallFails
  <2>1. call.op \notin {"lookup", "list"} => call \in ChangeCall
    BY <1>16 DEF CallFails, Busy, SharingCall, LookupCall, FoundCall, ListCall, ListedCall
  <2>2. \A c \in left' : c \in ChangeCall /\ InvitesShown(c)
    BY <1>16, <2>1 DEF CallFails
  <2> QED
    BY <1>0, <1>16, <2>2 DEF CallFails
<1>17. CASE ListingArrives
  BY <1>0, <1>17 DEF ListingArrives
<1>18. CASE UNCHANGED sharing
  BY <1>18 DEF sharing
<1> QED
  BY <1>1, <1>2, <1>3, <1>4, <1>5, <1>6, <1>7, <1>8, <1>9, <1>10, <1>11, <1>12, <1>13, <1>14,
     <1>15, <1>16, <1>17, <1>18 DEF SharingNext

InvitingStep ==
    \A u \in Users :
        (ServeSharing \/ \E c \in left : ServeLeft(c)) =>
            \/ roleOf[u] # "none" \/ roleOf'[u] = "none"
            \/ \E l \in Logins : [login |-> l, user |-> u] \in shown

LEMMA InvitedWereShown == ASSUME SharingInv PROVE InvitingStep
<1> SUFFICES ASSUME NEW u \in Users, ServeSharing \/ \E c \in left : ServeLeft(c)
             PROVE  \/ roleOf[u] # "none" \/ roleOf'[u] = "none"
                    \/ \E l \in Logins : [login |-> l, user |-> u] \in shown
  BY DEF InvitingStep
<1>1. CASE ServeSharing
  <2>1. call \in ChangeCall /\ InvitesShown(call)
    BY <1>1, ChangeCalls DEF ServeSharing, SharingInv
  <2> QED
    BY <1>1, <2>1, ServedRoles DEF ServeSharing
<1>2. ASSUME NEW c \in left, ServeLeft(c)
      PROVE  \/ roleOf[u] # "none" \/ roleOf'[u] = "none"
             \/ \E l \in Logins : [login |-> l, user |-> u] \in shown
  <2>1. c \in ChangeCall /\ InvitesShown(c)
    BY DEF SharingInv
  <2> QED
    BY <1>2, <2>1, ServedRoles DEF ServeLeft
<1> QED
  BY <1>1, <1>2
-----------------------------------------------------------------------------
(* Connections *)

(* What the newest reading answers was there since the dialog was opened,  *)
(* and so is what there is now.                                            *)
ConnectionsInv ==
    /\ live \subseteq Grants /\ since \subseteq Grants /\ loading \in Nat
    /\ loads \subseteq [number : Nat, rows : (SUBSET Grants) \cup {Unread}]
    /\ \A l \in loads : l.number \in 1 .. loading
    /\ onScreen => loading > 0
    /\ loading > 0 => live \subseteq since
    /\ \A l \in loads : l.number = loading /\ l.rows # Unread => l.rows \subseteq since
    /\ RowsOfThisOpening

LEMMA ConnectionsStart == ConnectionsInit => ConnectionsInv
BY DEF ConnectionsInit, ConnectionsInv, RowsOfThisOpening

LEMMA ConnectionsKept == ConnectionsInv /\ [ConnectionsNext]_connecting => ConnectionsInv'
<1> SUFFICES ASSUME ConnectionsInv, [ConnectionsNext]_connecting PROVE ConnectionsInv'
  OBVIOUS
<1> USE DEF ConnectionsInv, RowsOfThisOpening
<1>1. CASE OpenConnections
  <2>1. \A l \in loads : l.number # loading'
    BY <1>1 DEF OpenConnections
  <2> QED
    BY <1>1, <2>1 DEF OpenConnections
<1>2. CASE CloseConnections
  <2>1. \A l \in loads : l.number # loading'
    BY <1>2 DEF CloseConnections
  <2> QED
    BY <1>2, <2>1 DEF CloseConnections
<1>3. ASSUME NEW l \in loads, ServeGrants(l) PROVE ConnectionsInv'
  BY <1>3 DEF ServeGrants
<1>4. ASSUME NEW l \in loads, GrantsArrive(l) PROVE ConnectionsInv'
  BY <1>4 DEF GrantsArrive, CurrentLoad
<1>5. ASSUME NEW g \in Grants, Revoke(g) PROVE ConnectionsInv'
  BY <1>5 DEF Revoke
<1>6. ASSUME NEW g \in Grants, ServeRevoke(g) PROVE ConnectionsInv'
  BY <1>6 DEF ServeRevoke
<1>7. ASSUME NEW g \in Grants, RevokeArrives(g) \/ RevokeFails(g) PROVE ConnectionsInv'
  BY <1>7 DEF RevokeArrives, RevokeFails
<1>8. ASSUME NEW g \in Grants, GrantedElsewhere(g) PROVE ConnectionsInv'
  BY <1>8 DEF GrantedElsewhere
<1>9. CASE UNCHANGED connecting
  BY <1>9 DEF connecting
<1> QED
  BY <1>1, <1>2, <1>3, <1>4, <1>5, <1>6, <1>7, <1>8, <1>9 DEF ConnectionsNext
-----------------------------------------------------------------------------
(* The panels together: a step of the page is a step of one of them, and   *)
(* leaves the others as they are.                                          *)

PanelsInv ==
    /\ DraftsInv /\ DiagramInv /\ PremiseInv /\ NamingInv
    /\ PickerInv /\ SharingInv /\ ConnectionsInv

LEMMA PanelSteps ==
    ASSUME [Next]_vars
    PROVE  /\ [DraftsNext]_drafts /\ [DiagramNext]_diagram /\ [PremiseNext]_premising
           /\ [NamingNext]_naming /\ [PickerNext]_picking /\ [SharingNext]_sharing
           /\ [ConnectionsNext]_connecting
<1> USE DEF DraftStep, DiagramStep, PremiseStep, NamingStep, PickerStep, SharingStep,
            ConnectionsStep
<1>1. [DraftsNext]_drafts
  BY DEF Next, vars
<1>2. [DiagramNext]_diagram
  BY DEF Next, vars
<1>3. [PremiseNext]_premising
  BY DEF Next, vars
<1>4. [NamingNext]_naming
  BY DEF Next, vars
<1>5. [PickerNext]_picking
  BY DEF Next, vars
<1>6. [SharingNext]_sharing
  BY DEF Next, vars
<1>7. [ConnectionsNext]_connecting
  BY DEF Next, vars
<1> QED
  BY <1>1, <1>2, <1>3, <1>4, <1>5, <1>6, <1>7

LEMMA PanelsStart == Init => PanelsInv /\ FollowedInv
BY DraftsStart, DiagramStart, PremiseStart, NamingStart, PickerStart, SharingStart,
   ConnectionsStart DEF Init, PanelsInv

LEMMA PanelsKept == PanelsInv /\ [Next]_vars => PanelsInv'
BY PanelSteps, DraftsKept, DiagramKept, PremiseKeeps, NamingKept, PickerKept, SharingKept,
   ConnectionsKept DEF PanelsInv

(* What each panel keeps of what was done in it holds in every state, for  *)
(* every answer of the language model, text, name, project and login.      *)
THEOREM PanelsInvariant == Spec => []PanelsInv
<1>1. PanelsInv /\ [Next]_vars => PanelsInv'
  BY PanelsKept
<1>2. Init => PanelsInv
  BY PanelsStart
<1> QED
  BY <1>1, <1>2, PTL DEF Spec

(* Whatever the user does to a draft, and however he goes back and forth   *)
(* between interpretations, a request that is sent passes the server's     *)
(* checks on structure, and nothing the page was told was sent is sent as  *)
(* something new again (DraftEditor, targetItemIdOf, effectiveParentOf).   *)
THEOREM SentIsOnceAndValid == Spec => []SentOnceAndValid
<1>1. PanelsInv => SentOnceAndValid
  BY DEF PanelsInv, DraftsInv, CreationFits, SentOnceAndValid
<1> QED
  BY <1>1, PanelsInvariant, PTL

(* No issue that the first creation from an interpretation leaves alone    *)
(* loses the epic its parent names, as far as the page knows of both,      *)
(* without the page having said so before the button was pressed           *)
(* (renamedEpics, leftBehindParentNote).                                   *)
THEOREM LossIsAnnounced == Spec => ParentLossIsAnnounced
<1>1. PanelsInv /\ [Next]_vars => AnnouncingStep
  BY PanelSteps, LossesAreAnnounced DEF PanelsInv
<1> QED
  BY <1>1, PanelsInvariant, PTL DEF Spec, ParentLossIsAnnounced, AnnouncingStep

(* A user who waits for a conversion to end sees a conversation of one     *)
(* kind, a panel that generates exactly while something will end it, and   *)
(* no job of this visit that runs on without being waited for or stopped   *)
(* (useDiagramDraft: generations, settle, discard).                        *)
THEOREM GenerationStaysFollowed ==
    ASSUME Patient PROVE Spec => []GenerationIsFollowed
<1>1. PanelsInv /\ FollowedInv /\ [Next]_vars => FollowedInv'
  BY PanelSteps, FollowedKept DEF PanelsInv
<1>2. Init => FollowedInv
  BY PanelsStart
<1>3. FollowedInv => GenerationIsFollowed
  BY DEF FollowedInv, KindsFit, GenerationIsFollowed
<1> QED
  BY <1>1, <1>2, <1>3, PanelsInvariant, PTL DEF Spec

(* A draft that stands on the canvas is not placed beside itself, whatever *)
(* was deleted and brought back meanwhile (placedOnCanvas, placeDraft).    *)
THEOREM DraftsPlacedOnce == Spec => PlacedOnce
<1>1. PanelsInv /\ [Next]_vars => PlacingStep
  BY PanelSteps, DraftsArePlacedOnce DEF PanelsInv
<1> QED
  BY <1>1, PanelsInvariant, PTL DEF Spec, PlacedOnce, PlacingStep

(* What was typed or chosen is neither overwritten by an answer nor changed *)
(* on its way: a premise, a name, and the items of a draft as long as its   *)
(* interpretation is shown, which one that arrives or a save ends           *)
(* (usePremise, useNameDraft, appliedCreations).                            *)
THEOREM InputIsKept == Spec => InputKept
<1>1. PanelsInv /\ [Next]_vars => DraftingStep
  BY PanelSteps, DraftIsKept DEF PanelsInv
<1>2. PanelsInv /\ [Next]_vars => WritingStep /\ ReplacingStep
  BY PanelSteps, WritingIsKept, OnlySeenReplaced DEF PanelsInv
<1>3. PanelsInv /\ [Next]_vars => NamingStepKeeps
  BY PanelSteps, NamesAreKept DEF PanelsInv
<1>4. Spec => DraftKept
  BY <1>1, PanelsInvariant, PTL DEF Spec, DraftKept, DraftingStep
<1>5. Spec => PremiseKept
  BY <1>2, PanelsInvariant, PTL
  DEF Spec, PremiseKept, WritingKept, OnlyTheSeenIsReplaced, WritingStep, ReplacingStep
<1>6. Spec => NamesKept
  BY <1>3, PanelsInvariant, PTL
  DEF Spec, NamesKept, NameGoesToCanvas, ReadAsWritten, NamingStepKeeps
<1> QED
  BY <1>4, <1>5, <1>6 DEF InputKept

(* What leaves a dialog is what it showed, in whatever order the readings  *)
(* answer: no target mixed of two choices, no member the user was not      *)
(* shown, no rows of an earlier opening (chooseRepository, Invite,         *)
(* ErrInviteeChanged, useConnections).                                     *)
THEOREM DialogsShowWhatLeaves == Spec => AsShown
<1>1. PanelsInv => TargetAsShown /\ RowsOfThisOpening
  BY DEF PanelsInv, PickerInv, ConnectionsInv
<1>2. PanelsInv => InvitingStep
  BY InvitedWereShown DEF PanelsInv
<1>3. Spec => InvitedAsShown
  BY <1>2, PanelsInvariant, PTL DEF Spec, InvitedAsShown, InvitingStep
<1>4. Spec => [](TargetAsShown /\ RowsOfThisOpening)
  BY <1>1, PanelsInvariant, PTL
<1> QED
  BY <1>3, <1>4 DEF AsShown
=============================================================================
