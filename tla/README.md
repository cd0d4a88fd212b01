# A TLA+ development of etoki

etoki is a whiteboard on which marked frames ("annotations") are interpreted by
a language model and turned into draft issues of a GitHub project.  The server
is one Go process on one SQLite file; the front end is a React application that
holds most of what a user can lose.  This directory holds TLA+ modules of both,
the TLC configurations that check them, and TLAPS proofs: of what a board writes to
GitHub, where a mistake cannot be undone, of the rest of the server, of the
navigation between boards, of the page of a board and of its panels and dialogs.

## 1. Inventory

### The server

| Part | State it keeps | Operations | What is hard |
|---|---|---|---|
| Creation (`usecase/creation.go`) | none; collects rows in memory until the run is saved | `Create`: lock, authorize, check, resolve fields, write items one by one, save the run | every call to GitHub may fail, or succeed without an answer; the client may go; the process may die |
| Sync history (`sqlite/mapping.go`, `usecase/annotation.go`, `domain/state.go`) | `sync_runs`, `sync_items`, append only | `SaveRun`; folded items, unconfirmed writes, latest runs; three states; detached annotations | the current picture is folded out of all rows; order of rows decides |
| Board lock (`usecase/lock.go`) | a semaphore per board, in memory | `Acquire`, release | requests queue behind calls to GitHub |
| Boards (`usecase/board.go`, `sqlite/board.go`) | `boards`, `board_files` | create, save, rename, premise, target, refresh names, delete | saving takes no lock; a run fixes the project (ADR 0014) |
| Members (`usecase/member.go`, `access.go`) | `board_members` | invite, set role, remove | the last owner; the check and the write are apart |
| Interpretation schema (`domain/interpretation.go`) | none | parse, resolve references, validate | rules that later steps rely on |
| Jobs (`usecase/jobs.go`, `*_jobs.go`) | two tables in memory, a mutex each | start, get, list, discard, sweep, the goroutine of a run | a job outlives its request; joining equal inputs; ends that race |
| Limits (`usecase/llmlimit.go`, `llmcall.go`) | slots and a window per user, in memory | `Acquire`, release, retry | a slot must be given back exactly once |
| Authorization server (`usecase/oauth*.go`, `sqlite/oauth.go`) | `oauth_clients`, `_codes`, `_grants`, `_tokens` | register, approve, exchange, refresh, revoke, prune | repeated and overlapping requests, statement by statement |
| Sign-in (`usecase/auth.go`, `sqlite/auth.go`) | users, sessions, login states, credentials; the window of starts and a mutex per user in memory | start, complete, resolve, token, logout | single-use refresh tokens of the provider, crashes, renamed accounts |
| Administration (`cmd/etoki`) | the same database, from another process | serve, claim, revoke | the in-process lock does not reach it |

### The front end

| Part | State it keeps | Operations | What is hard |
|---|---|---|---|
| Navigation (`app/useBoardNavigation.ts`, `boards/*`, `auth/useSession.ts`, `board/useBoardManagement.ts`) | the board on the screen, the flow of a new one, the list, generations, the browser's history | open, leave, create, choose a target, rename, delete, back and forward, sign out | answers that arrive when the user is elsewhere; questions before edits are dropped |
| Board page (`board/BoardPage.tsx`, `useSceneSave.ts`, `useDirtyScene.ts`, `useEkidoki.ts`, `exclusion.ts`) | the scene, the signature of the saved one, its version, the ids of files the server holds | draw, save, import, ekidoki (save, then read, then interpret) | the canvas changes during a save; others save too |
| Annotations (`board/annotations/*`) | states, interpretations and drafts per annotation, histories, polled jobs | interpret, cancel, find again, edit a draft, create | late, lost and reordered answers; a draft issue cannot be deleted |
| Diagram chat (`board/diagram/*`) | a conversation, a tracked job, what was placed | send, change kind, resume, place, replace, paste | polls of a dropped conversation; undo during a conversion |
| Premise, names, target, members, connections | one form each | edit and save, choose, invite, revoke | what was typed or chosen must be what is sent |
| Notifications, theme, layout | messages, sizes | add, dismiss | nothing reads them back |

How the parts meet.  A handler of `internal/httpapi` calls one use case; use
cases share the `BoardLocks` and the `LLMLimiter` and otherwise only the
database.  An interpretation is a job; its result goes to the browser, is edited
there, and comes back with the request to create, which is checked against the
hash of the *saved* scene.  A creation leaves a run; the run fixes the project
of the board and decides the state of its annotation.  In the browser `App`
mounts one board page for the board that navigation has chosen; the page mounts
panels, which talk to the server by themselves and to the page by callbacks.

### What makes each part correct

* Creation and history: nothing is made on GitHub without a trace, nothing is
  made in a project other than the board's, what the panel shows is what GitHub has.
* Boards and members: one project for all runs, always an owner.
* Jobs and limits: one run per input, slots exactly as many as runs, results kept
  as long as promised, every run ends.
* Authorization server: one grant per code, one usable refresh token per grant,
  revocation that stays, cleaning that spares the living.
* Sign-in: two requests never spend one refresh token; a state serves one callback; a
  login leads to whoever had it last.
* Navigation and page: unsaved edits go only after a question; "saved" means saved;
  what is shown belongs to the scene, the board and the kind it is shown for.
* Panels: what is sent is valid, new, and what the user saw when pressing.

## 2. Modules

| Module | Models | State and actions against the code |
|---|---|---|
| `SyncHistory` | the queries on `sync_runs`/`sync_items` and the judgements on them | operators on a sequence of runs; the position of a run is its id |
| `TargetBinding` | the abstract promise of ADR 0014 | `Choose` until the first recorded creation, `Record` only items that lie in the project |
| `BoardWrites` | the operations `BoardLocks` serialises, and saving and inviting, which take no lock | a request is an HTTP call with a program counter; each statement and each call to GitHub is one action |
| `JobTable` | both job tables and the limiter | `mutex[kind]` is `jobTable.mu`; `Lock`, `Prepare`, `Join`, `NoTwin`, `RefuseFull`, `RefuseOften`, `Launch` are the stages of `start`; `CallReturns`, `CallFails`, `CallAgain`, `Release`, `Finish` are the goroutine; the limiter keeps times, `recent` the runs that began then |
| `OAuthGrants` | the authorization server | a request reads the clock once; each statement or transaction is one action |
| `SignIn` | `AuthService` on `sqlite/auth.go`, and the provider | `AdmitLoginStart` is the window; `ConsumeState`, `Exchange`, `UpsertUser`, `StoreCredentials`, `CreateSession` are `Complete`; `LockUser`, `FindCredentials`, `Refresh`, `SaveCredentials` are `Token` |
| `BoardNavigation` | what `App` shows and the URL and history beside it | an action is what runs between two awaits; a call is sent, served, answered; generations are kept as "has not been overtaken" |
| `Ekidoki` | the page of one board with the server and another member | `Press`/`FlowReads`/`SendAsk` are the three parts of `useEkidoki`; `Due` says which continuation runs before anything else |
| `Drafts` | interpretations of one annotation, the editor, the creation as seen by the page | `draft` is the state of `DraftEditor`, rebuilt whenever another interpretation is shown |
| `DiagramDraft` | the chat, the paste panel and what lies on the canvas | `calls` are runs of `generate` and `settle`; `placing` is the conversion that runs |
| `Premise`, `AnnotationName`, `TargetPicker`, `Members`, `Connections` | one form each, with the server and other people beside it | variables are the hooks' states, named as there |
| `BoardPanels` | the seven panels and dialogs of the page together | one behaviour takes the steps of one panel: they share no state, so interleaving them adds none |
| `MC...` | finite instances | values of the constants, symmetry sets, the worlds of a run |
| `BoardWrites_proofs`, `OAuthGrants_proofs`, `JobTable_proofs`, `SignIn_proofs`, `BoardNavigation_proofs`, `Ekidoki_proofs`, `BoardPanels_proofs`, `WindowLemmas` | proofs | see section 5 |

Correspondence worth knowing before reading:

* **One board.**  Locks are per board, and no row of one board is read by an
  operation on another, so `BoardWrites` and `Ekidoki` model one.
* **GitHub is external.**  In `BoardWrites`, `github` is what the projects really
  hold.  A creation has three outcomes: answered, failed, or done without an answer.
  GitHub hands out fresh ids.  A call that timed out does not take effect
  later than its error (see section 6).  In `SignIn` a rotation likewise.
* **A request is served once.**  A repeated click is another request with the
  same arguments.
* **Names.**  Random ids are never made up: a request is itself the name of the
  job, client, code, grant, session or pair of tokens it creates.
* **Contents.**  What an annotation says is its hash, an opaque value; for
  jobs, the part of the key that depends on the saved board.  A scene is a set of
  things: texts (which are hashed), shapes (which are not), frames, pictures.
* **The browser.**  JavaScript runs one handler at a time; so nothing comes between
  the statements of one action, and anything may come at an `await`.  A rejected
  call and a lost answer look alike to the page and differ at the server.
* **Shape of the state.**  Each module has one type invariant or `...Typed` that says
  what its variables are; it documents them and the proofs rest on it.  Of the runs
  only `MCCreation` checks it.
* Operators whose comment begins with *Fault* are plausible mistakes.  No
  action uses them; each takes the place of one definition to show that a
  property would notice.

## 3. Runs

| Run | Question | Bounds | Distinct states |
|---|---|---|---|
| `MCCreation` | Is everything a creation did to GitHub accounted for, and is what the panel shows true, also after retries of half-done creations? | two creations with plans of up to two items while one of 2 annotations is edited, or three that make and rewrite one item; 3 ids, 1 crash | 353 000 |
| `MCBoardLock` | Do the seven operations keep what they have read until they have written? Does the board implement `TargetBinding`? | every choice of 3 calls, 2 users, 2 projects | 1 098 000 |
| `MCQueue` | Is every queued request answered? | 2 calls, 1 crash, weak fairness | 46 000 |
| `MCGrants` | One grant per code, one live refresh token, revocation final, cleaning up sparing granted clients and living grants? | 2 exchanges, 2 refreshes, 1 revocation of the grant of one approval by 2 users, time 0..2; or 2 registrations, 2 approvals, 2 exchanges, time 0..3 | 1 479 000 |
| `MCSignIn` | Is no refresh token spent twice, does a state serve one callback, is the window of starts kept, is a login its latest owner's? | 3 refreshing calls, or 2 beside a sign-in; 3 starts and a crash; 2 accounts that swap logins and come back; time 0..3 | 533 000 |
| `MCJobs` | Do slots, window, joining and retention agree, and does every run end? | 3 starts of either kind, 1 slot, 1 run per window, up to 2 attempts, time 0..2, weak fairness | 347 000 |
| `MCNavigation` | Are edits kept, does the next save stand on what is seen, does the screen agree with the noted place and the URL with the note, do deleted boards stay away? | 2 boards, one generation-free call at a time, 2 entries of history, 1 save | 817 000 |
| `MCEkidoki` | Does "saved" mean saved, do pictures and results belong to what they are shown for, is what is running seen? | 2 annotations, 1 text, 1 shape, 2 pictures, 2 jobs, 2 requests to interpret, 3 versions, 1 creation | 783 000 |
| `MCPanels` | Is what the panels send valid, new and as shown, and what is typed kept? | 2 items, 2 interpretations, 3 issues; 2 kinds, 2 jobs, 3 pieces; 3 premises; 2 repositories with a shared project; 2 users and a login; 2 grants | 1 288 000 |
| `MCCodeReplay` | *(violated)* Does a repeated code take its grant with it? | 2 exchanges of one code | |
| `MCPrunedClient` | *(violated)* Is the client of a live grant known? | 2 registrations, 1 exchange | |
| `MCLateDeletion` | *(violated)* Do unsaved edits never go without a question? | 2 boards, one deletion | |

Why the bounds are enough.  Every hazard these runs are about needs two actors
and one event in between (a save, a crash, a tick, a third request): two
creations and a crash show every order of a lost answer and its retry, three
writes of one item add a retry of the retry; the calls of three requests on the
lock include every pair that overlaps with a third that changes the ground of
both.  For tokens, two refreshes and two exchanges make every repetition, and the
clock passes each time to live once.  In the browser a hazard needs a call
on its way, what the user does meanwhile, and the answers of the two in either
order: two slots of calls and two of each thing acted on.

*Worlds.*  Some instances are unions of smaller ones.  Either a `CONSTRAINT`
says so (`CreationWorlds`, `Worlds`: disjuncts that say which requests are begun
at all), or the specification itself does (`Habits`: the sets of things
users may be doing together in one behaviour, `panel`).  A world leaves out
what no property of the run needs in combination, such as registrations beside refreshes
of a client named by URL; each pair of operations whose states meet is in one world
together.  A constraint only cuts off behaviours in which something more begins, and
`MCJobs` evaluates fairness on the whole specification: a run that is cut off is
not mistaken for one that stands still, because its actions stay enabled.
`Orderly` in `MCNavigation` asks nothing after one of the late answers of section 6
has been applied, edits have gone with one, or a failure has left the URL behind.

*Symmetry* is declared over values that no definition distinguishes: requests of a
kind (`MCCreation`, `MCBoardLock`, `MCGrants`, `MCSignIn`), users (`MCGrants`)
and logins (`MCSignIn`), and never in a run with a liveness property.

*Deadlock.*  `MCJobs`, `MCNavigation`, `MCEkidoki` and `MCPanels` do not check
it: when every start has been answered and the clock stands at its bound, or when
the user does nothing more and everything has been answered, nothing is left to
do.  In the other modules that end is an explicit step (`AllServed`, `Quiet`), and
a request that can neither go on nor fail would be reported.

Bounds in the specifications: `MaxCrashes`, `MaxTime`, `MaxRenames`, the sets of
requests (each served once), `Items` (how many items GitHub can hold),
`MaxVersion`, `MaxRuns`, `MaxHistory`, the slots `Calls`, `Asks`, `Flows`, and in
the panels `MaxAnswers`, `MaxIssues`, `MaxActs`, `MaxJobs`, `MaxPieces`, `MaxDeeds`,
`MaxOthers`, `MaxWritings`, `MaxStrokes`, `MaxPresses`, `MaxTurns`, `MaxOpenings`,
`MaxGranted`.  `MaxInterpretations`, `MaxAttempts` and `MaxLoginStarts` are limits of
the code itself, with smaller values.  `Patient` is described in section 6.

Every property of a passing run is also checked to *fail* when one definition is
replaced by the fault beside it: this shows that the interesting case is
reached.  A property that joins several statements has a fault for each of
its parts where they come from different modules.

### What the runs show

* **Creation.**  `EveryItemTraced`, `FoldShowsGitHub`, `WritesTheInterpretation`:
  whatever a call to GitHub did before it failed is listed, and a run recorded
  as complete has everything of its interpretation.  `CreatedIsWhatWasInterpreted`:
  saving the scene during a creation never makes it look created.
* **Board.**  `CreationKeepsItsGround`, `RecordedInTarget`, `DisplayBelongsToTarget`,
  `KeepsAnOwner`: what was read under the lock still holds at the write.
* **Jobs.**  `SlotsFollowRuns` joins "no slot lost or given back twice" with "free by
  the time the end can be read"; `RateIsExact` joins "no more than the limit"
  with "nothing but runs is counted".
* **Grants.**  `RevocationHolds` holds although a refresh spans two transactions;
  `CleaningSparesTheGranted` although pruning uses the clock of its request.
* **Sign-in.**  `CredentialsSurvive`: a sign-in stores credentials without the
  mutex, and this is harmless, since both replace a pair by another usable one.  The
  one way to lose a pair is a rotation whose answer or storage is lost.
* **Navigation.**  `NothingLost`, `SavesWhatIsSeen`, `LocationTellsTheScreen`, `DeletedStaysAway`
  hold except for what section 6 names.  The URL may differ from the place that is noted
  only while a board is being read, made or given a target: whatever ends that wait puts
  the URL back, but for the failure named there.
* **Page.**  `CleanMeansSaved`: an answer marks as saved what was sent, not what is drawn
  by then.  `PicturesAreTheirOwn`: an import that brings the id of another
  picture gets an id of its own.  `FreshResults`, `ToldIsShown`, `RunningIsSeen`: late and
  reordered readings change nothing for the worse.
* **Panels.**  `SentOnceAndValid`: what was sent once is never sent as new, and no
  press is refused for the structure of the draft.  `GenerationIsFollowed`,
  `PlacedOnce`: the conversation, its job and the canvas agree.  `InputKept`: a premise and
  a name that are typed stay; what is changed in a draft stays as long as its interpretation
  is shown (section 6 says when it is not).  `AsShown`: what is sent was on the screen.  `ParentLossIsAnnounced`: an
  issue loses its epic by a renaming only after a note.

### What the violated runs show

* `MCCodeReplay`.  A code is redeemed by one statement and its grant is made by a
  later transaction.  If the same exchange is repeated and answered in between,
  the repetition deletes a grant that does not exist yet; the first exchange then
  makes it.  The comment in `usecase/oauth_token.go` says that the grant is
  revoked.  `RefreshReplayRevokes` holds: on a refresh the grant exists from
  the beginning, and `AddTokens` refuses once it is gone.
* `MCPrunedClient`.  A client is marked as granted when its code is exchanged, not
  when the user approves.  If its registration becomes too old in between and
  another client registers, it is removed, and the grant is made for a client
  nobody knows.  `GrantedClientStays` (once granted, never removed) holds.
* `MCLateDeletion`.  A deletion is confirmed, the user goes to another board by
  the browser's back and draws; the answer takes the screen back to the list,
  whatever board is on it.  ADR 0021 says that nothing unsaved disappears
  silently.

## 4. Fairness

`BoardWrites!FairSpec` gives each request weak fairness on its own next step:
every call to GitHub and the saving of the run are under a deadline of their own
(`itemWriteTimeout`, `saveRunTimeout`), and a goroutine that can run is run.  A
waiting request needs no strong fairness, because in an instance the lock is asked
for finitely often.

`JobTable!FairSpec` gives weak fairness to the clock, to the steps of a start, to
the deadline (`context.WithTimeout`), to the goroutine after its call and to the
call *once its context has ended* (`GivesUp`).  It gives none to the model: an
answer may never come.  No fairness is given to users, to the provider of
sign-ins or to the network between page and server: the page has no deadline of
its own, so what must not hang there is stated as a safety property instead
(`RunningIsSeen`, `PendingIsFollowed`: whatever is shown as pending has something
on its way that will end it).

## 5. Proofs

Every theorem is `Spec => P` for all values of the constants that satisfy the
assumptions of its module: any number of requests, users, items, boards or calls, any
limits and times to live.  Each is proved from an inductive invariant that is named in
its proof module and holds the types too; the module's lemmas say, action by action,
which parts of it a step can disturb and why they stay.

| Module | Theorems | of |
|---|---|---|
| `BoardWrites_proofs` | `TypeCorrect`, `LockIsExclusive`, `GroundIsKept`, `DisplayBelongs`, `OwnerIsKept`, `RecordedLiesInTarget`, `BindingImplemented` | `TypeOK`, `OneInSection`, `CreationKeepsItsGround`, `DisplayBelongsToTarget`, `KeepsAnOwner`, `RecordedInTarget`; the refinement `BindingKept` of `TargetBinding` |
| `BoardWrites_proofs` (history) | `ItemsAreTraced`, `FoldIsGitHub`, `CreatedIsCurrent`, `ParentsAreWritten`, `InterpretationIsWritten` | `EveryItemTraced`, `FoldShowsGitHub`, `CreatedIsWhatWasInterpreted`, `ParentAlwaysWritten`, `WritesTheInterpretation` |
| `OAuthGrants_proofs` | `CodesGrantOnce`, `RefreshTokensRotate`, `RevocationIsFinal`, `CleaningIsHarmless` | `OneGrantPerCode`, `OneLiveRefresh`, `RevocationHolds`, `CleaningSparesTheGranted` |
| `JobTable_proofs` | `SlotsAreExact`, `InputsRunOnce`, `AnswersAreCurrent`, `RateLimitIsExact`, `ResultsAreKept` | `SlotsFollowRuns`, `OneRunPerInput`, `AnswerIsCurrent`, `RateIsExact`, `KeptForRetention` |
| `SignIn_proofs` | `CredentialsStayUsable`, `SignInsAreSound` | `CredentialsSurvive`, `SignInsHold` |
| `BoardNavigation_proofs` | `NothingIsLost`, `SavesStandOnWhatIsSeen`, `PlaceIsOnTheScreen`, `DeletedStayAway` | `NothingLost`, `SavesWhatIsSeen`, `LocationTellsTheScreen`, `DeletedStaysAway` |
| `Ekidoki_proofs` | `CleanStaysSaved`, `PicturesStayTheirOwn`, `ResultsStayFresh`, `ToldStaysShown`, `RunningStaysSeen` | `CleanMeansSaved`, `PicturesAreTheirOwn`, `FreshResults`, `ToldIsShown`, `RunningIsSeen` |
| `BoardPanels_proofs` | `SentIsOnceAndValid`, `LossIsAnnounced`, `GenerationStaysFollowed`, `DraftsPlacedOnce`, `InputIsKept`, `DialogsShowWhatLeaves` | `SentOnceAndValid`, `ParentLossIsAnnounced`, `GenerationIsFollowed`, `PlacedOnce`, `InputKept`, `AsShown` |

`WindowLemmas` has what the sliding windows and the searches in sequences of the other
modules need: least and greatest elements, what a filtered sequence begins with, how
many values a sequence can have.

### The arguments

*A board* (`BoardWrites_proofs`).  `OneInSection` is inductive
by itself given the types: every action but `Acquire` and `Crash` moves only the
request it names, `Acquire` needs the lock free, and `Crash` empties both sides.  The
other invariants are not inductive: that the ground of a creation stays needs to know
that whatever else is between its check and its write holds the same lock, hence is
the creation itself; and that what `Check` found is still true at the commit needs to
be part of the invariant (an owner other than the member is there, the project still
is the one to refresh, no run is recorded).  The strengthening adds these facts about
the one request at "commit".  For `RecordedInTarget` it adds that every confirmed row
a creation has *collected* lies in the project it was authorized for, that a recorded
run means a chosen project, and that items never move between projects.  The
refinement then maps `SaveRun` to `Record`, `SetTarget` to `Choose`, a
`CreateDraftIssue` that took effect to `Appear`, `Delete` to `Discard`, and everything
else to a stutter.

*Its history* (the second part of `BoardWrites_proofs`).  An item and its history are joined by
who made it: `MadeByCreations` and `RunsFit` tie items and runs to the requests,
`HistoryBelongs` and `CreationsBelong` say that a row names an item of its own
annotation only, so that no other annotation's rows can hide or settle it.
`EveryItemTraced` then needs `MakersKnown`: the write that made an item is in the hands of its
creation, in the saved run, or lost with it, and stays in the fold because a later
confirmed row of the same item takes its place.  `FoldShowsGitHub` needs
`HandShowsGithub`, the same of the rows a creation still holds; `ParentAlwaysWritten`
needs `InOrder`: what must be written before an item is among what was handled.
`WritesTheInterpretation` needs `CreationsWrite`: until something fails, every row in
hand is written as its item wants it, the last one as far as the creation has got, and no
two of them are of one item.

*Grants* (`OAuthGrants_proofs`).  The one way a grant goes on is a refresh token not yet
used, or the refresh that has used it and will add the next (`OneWayForward`); so
there is one of these at most, however refreshes overlap.  `CodeHasItsTaker`: whoever
makes a grant of a code is who the row of the code was given to.  `RevokedIsGone` needs that no grant is
made twice, which is that its name is that of an exchange which is over (`TokensHang`).

*Jobs* (`JobTable_proofs`).  `SectionHeld` (inside `start` means holding the table's
mutex) gives `NoTwinYet`: what the lookup did not find is still not there when the
job is entered.  `SlotsMatchRuns` counts the runs between admission and release;
the step of each is one element more or less in a finite set.  `RateIsExact` needs
`WindowInOrder` and `WindowIsFull`: the times counted are in order, so dropping from
the front drops just what is too old, and every young run is among them.
`AnswerIsCurrent` needs `SeenIsCurrent`: what a start read was saved at some moment
since it arrived.

*Sign-in* (`SignIn_proofs`).  `PairsFit` says that a stored or found pair is of the account
it is stored for or found by, `MutexHeld` that only one call of an account is between finding and storing;
so a pair that was spent is not in the table but in the hands of who is replacing it,
and a sign-in that stores a new one in between does no harm.  `WaitingAreCounted`: the
states that can still come back, but for those of earlier lives of the process, have a
place of their own in the window, hence are not more than it is long.

*Navigation* (`BoardNavigation_proofs`).  An answer does something only if nothing was
asked for since, so the invariant says of whatever is on its way what must still be
true when it is answered: `LoadIsLatest` (a load that counts leaves no older call that
could open a board), `LoadOfCall`, `CancelStaysHere`, `TargetingOnScreen`, `CreationsWait`,
`HereIsNoted` (where a load would go back to), `DeletedInNoAnswer`.  `TargetInv` says
that a target once told of stays, so that an answer cannot change which component is
on the screen, on which `EditsOnCanvas` and hence `NothingLost` rest.  `UrlInv` is the part about the URL:
each step notes the place in the URL, goes on waiting, or is a failure that `late` records.
A refusal to leave would be the exception, since only one that goes back in the history
restores the URL; `OpensWhereNoneIs` shows that a board opened from the list, or with the page,
is never refused: no canvas is there whose edits could be asked about.  What the late answers of section 6 do is
excepted by `late`, in the invariant as in the properties.

*The page of a board* (`Ekidoki_proofs`).  `SceneInv`: what an answer says was written is
the scene under that version, so the page may stand on it whatever the canvas shows by
then.  `PictureInv`: Excalidraw never replaces what it holds under an id, so what is
sent and what is stored is what it holds; a picture of the canvas it does not hold
yet was pasted and is still loading (`Own`).  A file could bring another under the id of one that
a save on its way refers to, but no file is imported while a save runs (`OneRuns`).
`FollowInv` speaks of whatever is on its way for an annotation: of the requests one at
most is the latest and none is beside a loop (`OneLatest`, `Followed`), so that the
failure or the answer of one ends or continues just what is shown as running; and
what the latest request or the loop brings is of a scene not older than the last save
(`Fresh`, `Sound`), because a save overtakes every request.  `ToldInv`: a reading that was
served after the page was told of a creation has it, and one served before is no
longer the one that is waited for.

*The panels* (`BoardPanels_proofs`).  A step of the page is a step of one panel and leaves
the others as they are (`PanelSteps`), so each panel has an invariant of its own.
- *The draft.*  `DraftsInv` follows the issues of an interpretation: `OneItemEach` says
  that of its items no two have one issue, be it taken up by the model (`previous`) or
  reported by a creation, and `Marked` that the draft shows every report, so an item once
  sent has its issue or is unconfirmed and not chosen.  A creation on its way is of that interpretation
  (`SentFits`), what the server did meanwhile fits it still (`ServedFits`: what is new
  is beyond all issues there were), and `SaidFits` keeps what the page said when the
  button was pressed.  `RequestIsValid` and `NeverTwice` are then what `Create` can send
  of such a draft.  The draft of an interpretation chosen again is built by a recursive
  function over its creations; that there is one (`DraftIsBuilt`) is shown by a least
  place at which there is none, and so is what it marks (`DraftIsMarked`).
- *The diagram.*  `DiagramInv` holds whatever the user does: how far a call is bounds how
  far its job can be (`CallsFit`), before the jobs were read nothing of this visit is on
  its way (`QuietAtFirst`), and every piece of the draft shown or being placed is among
  those remembered (`PiecesRemembered`), on which `PlacedOnce` rests.  `FollowedInv` holds
  for a user who waits for a conversion (`Patient`): one call at most is the latest
  (`OneLatest`), every request is of one kind and the latest of the one that is chosen
  (`KindsFit`), and the job tracked is polled or its answer was lost (`TrackedIsFollowed`).
- *The dialogs.*  `PremiseInv`: what is written has a base the user was shown.  `NamingInv`: the
  field is open only while a name may be written.  `PickerInv`: the newest reading is
  of what is pressed.  `SharingInv`: an invitation, on the screen, on its way or left
  behind by a closed dialog, was shown.  `ConnectionsInv`: what the newest reading
  answers was there since the dialog was opened.

Assumptions, each evaluated by TLC on every run of its module: null values are not
members of the sets (`ConstantsAssumption`, `JobAssumption`, `NavigationAssumption`,
`ThingsAreApart`), calls are well formed, what is drawn is of one kind and a scene or a
file has one picture under an id, as the map of its files has (`ThingsAreApart`; what is
pasted is named by its hash), the kinds of requests are disjoint since a request is the name
of what it creates (`KindsAreApart`, `RequestsAreApart`), times to live are
ordered as the constants of the code are (`OAuthAssumption`), and numbers are numbers.
What the model answers has finitely many items, and null names no issue
(`DraftsAssumption`); null is no text and no job (`DiagramAssumption`).  `Patient` is a hypothesis of
`GenerationStaysFollowed` alone; symmetry, constraints and worlds are of the runs only.

### What is only model-checked

Liveness (`EveryRequestServed`, `EveryRunEnds`) is out of reach of the prover,
with `ENABLED` and induction over data.  The three findings are counterexamples, which
TLC shows.  Every other property of a run has a theorem.

## 6. Known limits

### Where the code itself leaves a gap, and the model excepts it

* *Late answers of a target, and a board opened again.*  `changeTarget` (`useBoardNavigation.ts`) waits for
  `setTarget` and then opens the board it belongs to, wherever the user has gone since,
  without asking (`late` has "target").  A board that is opened again while its
  canvas is on the screen brings a newer version without a new canvas, and
  `useSceneSave` takes the version over ("again"), although the comment at
  `baseUpdatedAt` wants every version read together with its canvas.  `NothingLost`,
  `SavesWhatIsSeen` and `LocationTellsTheScreen` except a behaviour in which that
  happened.
* *Late deletion.*  The finding of `MCLateDeletion`; excepted likewise.
* *A session that has expired.*  A reading of the list that is refused for want of a login
  makes the session be read again (`useBoardList.ts:80-85`, `useSession.ts:38-49`), and
  the login page takes the place of a canvas with edits without a question.  The
  list is also read while a canvas is on the screen, after a rename for one.  `NothingLost`
  excepts it (`late` has "session"); ADR 0021 wants every way out of the canvas asked.
* *A logout that is answered late.*  `logout` closes the board before it waits, since, as
  its comment says, waiting first would throw away unasked what is drawn meanwhile
  (`useBoardNavigation.ts:257-258`).  But while it waits the page is still signed in: "back"
  may open a board, on which the user draws until the answer replaces the
  session, unasked.  `NothingLost` excepts it (`late` has "logout").
* *A URL left behind.*  `loadBoard` puts the URL back when a reading fails, but not when it was
  overtaken (`useBoardNavigation.ts:239`, `:243`).  A reading that "back" or the
  page's own URL began can be overtaken by a creation or by setting a target, for the dialog and the
  pickers stay usable meanwhile; if that fails in turn, the URL keeps naming a board
  that is neither shown nor being read.  The comment at `showLocation`
  (`useBoardNavigation.ts:209-210`) wants URL and note moved in one place so that they never
  differ.  `LocationTellsTheScreen` excepts it (`late` has "url"); nothing else fails to
  put the URL back.
* *A draft that is replaced.*  An interpretation that arrives is selected
  (`addInterpretation`), and the draft is keyed by what is selected
  (`InterpretationSection.tsx:258`).  The fields of the draft are not disabled while
  an interpretation runs, so titles, kinds and choices changed meanwhile go with the
  draft, without a question; a save drops the draft with the interpretations (ADR 0024), but
  the fields are disabled while it runs.  `DraftKept` therefore speaks of a draft as long
  as its interpretation is shown.
* *An older image.*  The key of a job has the texts but not the image (ADR 0085 says
  so), so a run that goes on because the request to discard it was lost is joined by
  the next request, with the image of before.  `FreshResults` compares texts.
* *A user who does not wait.*  `placeDraft` and `failTurn` (`useDiagramDraft.ts`) act on the
  conversation as it is after the conversion; when the user has changed the kind or
  sent something meanwhile, the request to correct a diagram goes into a
  conversation of the other kind, or ends the waiting for another answer.  With
  `Patient` the user does neither; without it `OneKind` and `PendingIsFollowed` do
  not hold.  A text typed before the jobs left over were read is replaced when one of
  them is taken up (`setPrompt`).  A user who sends before they were read leaves
  them running at the server: `SlotIsFollowed` speaks of the jobs of this visit.
* *Renamed epics.*  An epic that an earlier press on the same draft created, and that
  is renamed and sent once more, is not counted by `renamedEpics`: the issues left
  behind lose it without a note.  `ParentLossIsAnnounced` therefore speaks of the
  first creation from an interpretation.  Nor can the page count an epic that was renamed
  on GitHub by a creation whose answer was lost: it looks under the title it knows, and
  the property asks that the page knows the title that goes (`previous`).
* *A creation whose answer is lost* is unknown to the page and may be repeated (ADR 0052).
* *Lookup of an invitee* is not tied to the field: its answer may show the person of a
  login typed before.  What is sent is the login and the person shown together,
  and `InvitedAsShown` holds.  Readings of the member list are not ordered either.
* *A revocation and a later reading* of the connections may cross, so that a revoked row
  is shown until the dialog is opened again.
* *Times out of order.*  `withinWindow` drops from the front as far as the times are
  too old and says that they are in order.  `LLMLimiter.Acquire` reads the clock under its
  mutex; `AuthService.Start` and `OAuthServer.Register` read it before theirs.  A start with
  an older time behind a younger one is counted longer than the window: one more
  start may be refused than there were in the window, never one more admitted
  (`StatesBounded`).
* *A lost rotation.*  GitHub refreshes and the answer is lost, or the process dies before
  the new pair is stored: the user has to sign in again (`lost` in `SignIn`).
* *A run that could not be saved* is gone (`lost` in `BoardWrites`): the ids go to the log.
* *Roles read earlier.*  The role is read before and only membership is asked for in
  the `WHERE` clause: `SaveScene` therefore takes any member, and an owner who is being
  demoted may still invite.  No property forbids it.

### What the models leave out, and why

* A call to GitHub that times out may still take effect *after* the error, even
  after the next creation has begun.  The model lets it take effect at the latest
  with the error.
* `ListStates` reads by four queries without a snapshot; they are
  modelled on one state of the history.  It only feeds the display.
* The size limit over all files is checked against sizes read before the transaction;
  sizes are not in the model.
* The premise is compared by its text: a value changed and changed back goes unnoticed,
  which is what `OnlyTheSeenIsReplaced` says ("a text this user was shown").
* Two saves within one tick of the server's clock get one version; versions are
  numbers here.
* The claim and revoke commands are processes of their own beside the server; each is
  a single statement that the in-process lock does not order.
* `AddTokens` after a revocation is refused by its own transaction; a crash between
  two statements of a request is a request that fails there (`Fail`).
* While the login page is shown the history of the browser is not listened to, and its
  moves are left out.  A session that is read again as signed in after the login page
  was shown, which takes a reading that fails (`useSession.ts:41-48`), does not read the
  list anew in the model.
* The limit on registrations (`admitRegistration`) is the window of `SignIn` once more.

### Not modelled

Prompts, JSON, paging, rendering and layout, notifications, templates, tables, the
conversion of Mermaid, the fetching of client metadata, path checks of the return
address, the secret box, URL functions, the migrations, the fake upstream and the
development scripts: they keep no state that anything else reads back, or are pure
functions on text and bytes, which tests cover better.  The page of consent is one
form.  The rest of the schema of interpretations is a set of checks on one value.

## 7. Plan

1. *(done)* Creation and the operations around it, with proofs.
2. *(done)* `OAuthGrants`, `JobTable`, `SignIn`.
3. *(done)* The front end: navigation, the page, its panels.
4. *(done)* Proofs of the board and its history, of `OAuthGrants`, `JobTable`, `SignIn`,
   `BoardNavigation` and `Ekidoki`.
5. *(done)* Proofs of the panels.
6. A request to GitHub that takes effect after its error (section 6), and the four queries
   of `ListStates` one by one.
