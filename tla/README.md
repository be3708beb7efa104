# Formal models of dsh-pi-tui

dsh-pi-tui is the terminal client of DeepSeek Harness (DSH).  It keeps one
*live session* on the screen: an Agent of the Host together with the exclusive
write lease of a persisted session.  Everything that replaces that session, that
writes to it and that ends the program meets in a few hundred lines of
asynchronous TypeScript under `src/src/app/session` and `src/src/app/direct`.
This directory specifies that core in TLA+, together with three things that hang on
it: the pull-back of queued messages, the refresh of the command catalog, and the transcript
of a Client that follows its Host over a connection that breaks.  TLC checks all
of it on small instances.  TLAPS proves, for instances of any size, every safety invariant,
action property and refinement that the passing runs check; liveness is model-checked only.
Paths below are relative to `src/src/` of the repository.

## 1. Inventory

| Part (sources) | State | Operations | Who it talks to | Hard behaviour | What makes it correct |
|---|---|---|---|---|---|
| **Session admission** (`app/session/transition-gate.ts`, `operation-barrier.ts`) | promise chain, `active`, `queued`; `frozen`, `writers`, `wait` | `run`, `runTransition(stop, body)`, `runWriter`, `busy`, `pending` | called by everything that replaces or writes a session | interleaving of microtasks; a stop hook that throws; a writer that leaves while the drain looks | exclusion, FIFO, no lost wakeup, always unfrozen again |
| **Session runtime, Direct** (`app/session/runtime.ts`, `ownership-core.ts`, `scope.ts`, `navigation-identity.ts`, `commit-order.ts`, `transition.ts`; `app/direct/owner-retirement.ts`, `app/direct/runtime.ts`; `runtime/direct/session-lifecycle-direct.ts`, `owned-session-retirement.ts`; `app/bootstrap/exit.ts`, `lifecycle.ts`) | current owner, generation, navigation epoch; pins of forks; parked owners; ledgers of forks, settlement windows and source retirements; shutdown-cancel set | switch, `/new`, deferred first session, fork, rewind, plain transition, interrupt, writer and control sections, retirement, exit | the gate and barrier; `agents.create/resume/fork`, `Agent.cancel/whenIdle/dispose` of the Host; the session browser and slash commands | stale intents, A->B->A, acquire/commit/retire across awaits, failures before and after publication, the exit at any point | one holder per lease, one keeper per owner, stale intents publish nothing, nothing is waited for in a ring, the exit ends and leaves nothing |
| **Submission and queue pull-back** (`app/submission/*`) | FIFO turn, pending recalls, draft pins, settlement windows | submit, steer, pull back, settle | runtime (writer sections, `pending`, the settlements of a transition) | partial failure of removals, two presses that see the same rows, a transition committing meanwhile | each text is in exactly one place (queue, turn, editor, pull-back), and never in another session |
| **Command catalog** (`app/command/catalog-refresh.ts`, `surface.ts`, `commands.ts`, `tui/commands/models.ts`, `skills.ts`) | epoch, active read, applied target, snapshot; in-flight and dirty bits; the wrappers and skills on the surface | refresh, dispose, notify, settled | runtime (after a publication), `/preset`, `/reload`, `skills/change` of the Host | overlapping reads that settle in any order, changes during a read | latest-only commit, no lost invalidation, the catalog of the owner |
| **Default-write barrier** (`app/command/model-default-write-barrier.ts`) | set of writes | track, wait | `/model`, creation of a session | a write that starts during the wait | no default read before its writes |
| **Remote owners** (`app/remote/session-owners.ts`, `runtime/remote/*`) | owners by exact binding, authoritative wrapper, released wrappers | fromHandle, cancel, quiesce, retire | Client sessions, Connection generation | reconnects, double retain, a running->idle edge before a subscription | a wrapper is released once; no answer of another generation counts |
| **Remote live ingress** (`app/remote/live-ingress.ts`, `presentation-source.ts`, `app/surface/session-presentation.ts`, `runtime/remote/presentation-read-remote.ts`, `app/bootstrap/remote-init-retry.ts`, init and pump in `app/bootstrap.ts`) | mode, attached binding, delivered revision, rollover baseline; init attempts, armed retry; pump and its pending request | hydrate, subscribe, deliver, require, re-fold, acknowledge, roll over, retry | the official Client (generation, binding, window, open state), the fold of the transcript | window replaced while it is read; the window of a dead generation; an init overtaken by the next | no acknowledged hole in the transcript, and in the end the whole log |
| **Interaction delivery** (`app/remote-process/client-interaction-delivery.ts`) | attachment, presentation epoch, navigation hold | attach, hold, present, withdraw, dispose | Host interactions, runtime | withdrawal by navigation racing the user's answer | a withdrawal is never an answer; an answer is given once |
| **Input recall** (`client/history/*`, `app/surface/input-history.ts`) | scope inputs, bounded settlements, snapshot | accept, settle, reseed, adopt | submission | settlement before, during or after the reseed; the cap | no input lost or doubled in recall |
| **Host/Client processes** (`app/remote-process/*`) | discovery records, scopes, activity epoch | connect, observe, reload, exit | OS, Host services | services changing under a snapshot | a mixed snapshot never says idle |
| **Schedule, plugin manager** (`app/schedule`, `app/plugin-manager`) | read/edit state of a screen | list, edit, toggle | ports of the Host | stale answers | the latest request wins |
| **Projections** (`transcript.ts`, `domain/*`) | none (folds) | fold | surface | data only | tested by example |
| **Surface, commands, client services, extensions, composition** (`tui/*`, `tui-app.ts`, `client/*`, `extension/*`, `app/bootstrap.ts`) | widgets, drafts | render, keys, I/O | everything | mostly presentation | - |

`PROJECT.json` lists the parts with their status and, under `hazards`, what in
them is hard to test, each with the properties that cover it or the reason none
does yet.

## 2. Modules

| Module | Models | Grain of a step |
|---|---|---|
| `ExclusiveTransition` | the promise of admission: transitions one at a time in the order of their calls, writers only outside | abstract |
| `SessionAdmission` | `SessionTransitionGate` and `SessionOperationBarrier` | one microtask |
| `SessionAdmission_proofs` | theorems about it | |
| `SessionLease` | the promise of the runtime: the life of a session's lease | abstract |
| `SessionRuntime` | the session runtime over the Direct backend | from one wait on something outside to the next |
| `SessionRuntime_invariant` | its inductive invariant, and lemmas about the parts of it | |
| `SessionRuntime_requests`, `SessionRuntime_owners` | the kinds of step of the runtime, and that each keeps the invariant: up to the commit; commit, retirement, settlement and exit | |
| `SessionRuntime_proofs` | every action is a step of one of the kinds; theorems | |
| `CatalogRefresh` | `CatalogRefreshCoordinator`, `CoalescingRefreshGate` and those who ask for a refresh | from one wait on the Host to the next |
| `CatalogRefresh_proofs` | theorems about it | |
| `QueuePullBack` | the pull-back of queued messages, the ledger of recalls and the transitions that settle it | from one wait on the Host to the next |
| `QueuePullBack_proofs` | theorems about it | |
| `RemoteLiveView` | the transcript of the main session on a Client: subscription, cold init, re-fold pump | from one await to the next |
| `RemoteLiveView_proofs` | theorems about it | |
| `MCSessionRuntime` | symmetry sets for TLC | |

### SessionAdmission

`line`, `active` and `queued` are `tail`, `active` and `queued` of the gate;
`frozen`, `writers` and `wait` those of the barrier.  `pc` says where each caller
of a transition is, `wpc` each writer.  The actions follow the suspension points:
`Queue` (the synchronous part of `run`), `StartNoOp`, `StartPlain` and
`StartNavigation` (the chained task: nothing to do, no stop hook, a stop hook),
`StopAccepted` / `StopThrows`, `Resume` (the drain's loop after a wakeup),
`BodyEnds` with the `finally` that unfreezes, and `Settle`, the reaction that
clears `active` and `queued` a microtask later.  `AdmitWriter`, `RefuseWriter`,
`RetryLater` and `LeaveWriter` are `runWriter`.

### SessionRuntime

An *owner* is one generation of a live session.  The model keeps for each owner
its session, whether it holds the lease (`life`), its turn, the phase of its
retirement (`ret`) and how often it was cancelled after the exit began (`late`).
An *intent* (`Op`) is one user request, used once; `kind` says which:

| kind | code | path of `pc` |
|---|---|---|
| `switch` | `switchSession` with the scope of the browser row | chosen, queued, drain, body, quiesce, flushOld, open, (awaitPin), resuming, commit, retireOld ..., leave |
| `pick` | the same without a scope; the runtime captures one itself when the task starts | the same without chosen |
| `new` | `/new`: preset and default writes are awaited in the body | queued, drain, body, resolved, quiesce, ..., creating, commit |
| `first` | `ensureSession` of the first submission | queued, drain, body, resolved, creating, commit |
| `fork` | `/fork` and the rewind picker: Host fork first, adoption through the gate afterwards | forking, attaching, queued, drain, body, flushNew ... |
| `plain` | transitions of preset selection and extensions | queued, drain, body |

`Exit` is the exit of the program: the abort, the synchronous pre-cancel, the
ledgers of forks, settlement windows and source retirements, then the gate, the
current owner and the parked ones.  `seen[p]` is what the user had in front of him
(`SessionScope`, `RewindNavigationIdentity`); `pins`, `window`, `deferred` and
`handed` are the release ledger and the settlement ledgers of forks.

The gate and the barrier are taken at the grain `ExclusiveTransition` justifies:
`line` is a queue, `frozen` a flag, and `Drain` waits for the writers.  The
refinement theorem of `SessionAdmission` is what makes that reduction sound.

Abstractions: what a session contains, ids, notices and receipts are left out;
a Host call either settles with success, or (where `MayFail`) fails; a flush is a
step without a result; catalog, history and display updates inside a commit touch
none of this state.  Bounds: each intent runs once, one owner per intent and the
one of the startup resume, `Stored` persisted sessions.

### CatalogRefresh

A call of `refresh()` is named by its epoch.  `epoch`, `active`, `applied` and
`snap` are `epoch`, `active`, `appliedTarget` and `snapshot` of the coordinator;
`inFlight` and `dirty` the fields of the gate; `phase`, `target`, `changed` and
`answer` the locals of each call; `shown` what the surface offers.  A catalog is the
pair of the target it was read for and the number of changes the Host's
skills had seen (`ver`) when the Host answered.  `Refresh` is the part of `refresh()` up to
its await, `HostAnswers` the read, `Settle` the rest with the commit, the failure
and the `finally`; a read answers although it was aborted, or rejects early.
`Notify` and `GateSettled` are the gate.  `ChoosePreset`, `Reload`,
`Publish`/`RefreshLive` and `SaveDefault`/`DefaultSaved` are those who ask; a
transition asks for its catalog before the session gate lets the next one
publish (`due`), which `SessionRuntime` models in detail.  Bounds: `MaxRequests`, `MaxChanges`, and one
save at a time for an id.  An *incomplete* answer stands for a standing
read without `complete` and a live read whose skills provider failed.

### QueuePullBack

Alt+Up takes the queued messages out of the inbox of the Host, one call at a time,
and puts their texts back into the editor, while `/new`, a switch, `/preset` or the
adoption of a fork may be queued or run.  A message is a number, the older the
smaller; its text and its attachments have one fate, so one number stands
for both.  `queue` and `taken` are the inbox rows of the Host and those that a turn has
claimed; `rows[p]`, `gone[p]`, `subject[p]` and `keep[p]` are `queued`,
`settledRemovals`, `queuedSubject` and the texts of a recall; `staged` and `pins`
the recalled drafts and their pin.  The ledger `pendingQueueRecalls` is the set of
pull-backs in phase `deferred`.

`PullBack` is `pullBackQueue` up to its first removal (`PullRefused`: the barrier is
frozen).  `Removed`, `NotRemoved` and `Unknown` are the outcomes of a removal: done;
gone, refused or cancelled; lost or thrown.  Each runs the tail of the writer section in the
same step (`Finish`): nothing after the disposal, into the ledger when a transition is pending,
else into the editor.  `SettleRecalls` is `settleQueueRecalls`, and the actions of a
transition call it where the code does: a no-op and a body that ends without a commit
abort (`StartNoOp`, `BodyEnds`), `Commit` commits (the texts go with the session that is
replaced), and the settlement that a navigation or a fork registers on the gate's promise
aborts what is left (`EndTask`).  Only navigations and forks have a commit section
(`Commits`): the body of `/preset` on a live session (`tui/commands/models.ts:636-647`)
replaces neither owner nor generation and settles the recalls as aborted when it ends
(`app/command/surface.ts:1452-1461`).  `StopFails` never reaches the body, so only that last settlement applies.

The gate and the barrier have the grain of `ExclusiveTransition`: a pull-back is a
write, a transition a task, and that this is so is checked by the run and proved
(`Implements`).  One fact of the event loop is used: a key press is a macrotask and never falls
between the end of a body and the gate's reaction, which are microtasks of
one another (`Pressed`).  Without it a recall could be deferred to a preset task that
has nothing left to settle it.

### RemoteLiveView

The official Client is external: `conn` is its Connection generation, `bind` the binding
of the session, `win` the window of the Host's log which that binding shows
(revision, last event, generation it came from, kind of its last change), `open` the open
state.  `log` is the Host's log.  The transcript is `fold`, a sequence of event numbers.
An attempt of `initRemoteLiveSurface` is an entry of `tries`; its states `read`,
`hydrated`, `failed` are the awaits of the init, `pending`, `attached` and `gone` those of
the handle that it subscribed; `slot` is `remoteIngressHandle`.  The other fields of a handle are
`mode`, `lastDeliveredRevision`, `rolloverBaselineRevision`, the last notification and its queued
microtask.  `pump` and `pending` are the re-fold pump.

`Publish` gives a new window to every attached handle of the binding (`Published` is `publish`
of the ingress, `SnapshotChanged` its `onSnapshot`, `RolledOver` its `onGeneration`); a handle
in incremental mode folds exactly the last event of the window, others ask for a re-fold.  A
handle whose binding was replaced listens to the channels of that binding only, and retires
when one of them speaks (`LatePublication`).
`Hydrate`, `Subscribe`, `InitSuperseded` and `InitFailed` are the init, `Wake`, `Refold`
and `EndRound` the pump, whose acknowledgement is `Acknowledges`.

Assumptions about the Client, from how the code uses it: after a reconnect the window is
still the one of the dead generation until an opening page *replaces* it
(`live-ingress.ts:407-412` says so); while no window of the current generation is there
the Host's log grows unseen (`Produce`), afterwards a window grows with the log (`Deliver`, by one
event or by two of which only the last is announced).  The opening page needs a
round trip, so it outlasts the microtasks of an attempt that read before it
(`Outlasts`).  That matters: were the opening page to arrive between a hydrate and its subscription, a
handle that reads its rollover baseline when it attaches (`live-ingress.ts:507-511`)
would take the republished revision for the dead one and wait for one more publication.
Bounds: `MaxEvents` of the log; `MaxIncidents` disconnects, direct rollovers, pages of older
history and owner changes together; one change of the owner.  That there
is a single publisher, at most one handle that is not gone, is the last conjunct of `TypeOK`.

## 3. What the runs check

| Run | Instance | Question | Size (distinct states) |
|---|---|---|---|
| `admission` | 4 callers, 3 writers | exclusion, re-entrance, wakeups, flags; every queued transition settles; gate + barrier implement `ExclusiveTransition` | 7 500 |
| `runtime` | 2 intents of 5 kinds (switch, new, first, fork, the exit), 1 write, failures, Host-started turns | the safety properties of the runtime; it implements `SessionLease` | 640 000 |
| `pins` | 3 intents (switch, new, fork), no exit | pins against the gate, A->B->A | 560 000 |
| `live` | 2 intents (switch, new, fork), 1 write, exit | navigations get past their drain; pins are released | 134 000 |
| `exit` | 2 intents of all kinds, 1 write, exit, Host-started turns | the exit completes | 335 000 |
| `unscoped` | 2 unscoped switches, 1 fork | expected violation, section 5 | until found |
| `catalog` | 3 requests (preset, reload, session), 1 change, exit | superseded reads leave no trace | 1 700 000 |
| `catalog_live` | 1 request of any kind, 2 changes, exit | no change is lost | 39 000 |
| `catalog_default` | a default saved, a session | expected violation, section 5 | until found |
| `pullback` | 2 queued messages, 2 presses, 2 transitions, exit | each text is in one place; recalls are settled; every pull-back ends; the promise of admission holds | 665 000 |
| `pullback_commit` | 2 messages, 1 press, 1 transition that throws after the bump | expected violation, section 5 | until found |
| `view` | 2 events, 2 incidents | no hole, nothing taken back, all shown in the end | 811 000 |

Why these bounds are enough to be interesting.  *Runtime:* a stale intent needs another one
that overtakes it, so two intents show every pair of overlapping operations, each
with the exit, a turn and a write.  Cycles through pins need three (the fork, the
switch that waits, and one that moves the surface away), which is what `pins` has; the exit
would abort every wait there and is left out.  *Admission:* three callers show a transition
running, two queued and one arriving; three writers show a drain that is woken by
the last of several.  *Catalog:* three requests show one for another target
that supersedes one under way while a session is published; two changes are a burst, the
second of them met by the gate in flight.  *Pull-back:* two rows are the least with a partial
failure (the first removed, the second not); two presses that saw the same rows are the
least that could double a text; two transitions show a recall deferred by one while the other
is queued behind it.  *View:* two events are the least with a hole or a repetition in
the middle of a window; two incidents show a disconnect that meets the recovery from
the first one, a page during a recovery, or an owner change during an init.  In every cfg but
that of `admission` deadlock checking is off, since intents, presses, requests and
events are used up.

The safety properties:

* `BodyIsExclusive`, `NoLostWakeup`, `PendingCoversTransition`, `NeverReentrant`: admission.
* `SurfaceIsAlive`: the owner on the screen holds its lease and is not being retired.
* `ResumeMeetsNoLiveOwner`: opening a session never meets a live lease of it, save
  a fork's child between its creation and its adoption (the Host refuses that one).
* `OneKeeperPerOwner`: surface, pool, retirement, acquiring or replacing intent;
  exactly one of them answers for each live owner.
* `WritesKeepTheirOwner`: nothing replaces or retires the owner of a write in progress.
* `AtMostOneShutdownCancel`: the comment at `app/direct/owner-retirement.ts:59-70`.
* `ExitLeavesNothing`: after the exit's retirement no lease is held.
* `GateNeverWaitsForItself`: no wait inside the gate for something behind it.
* `ReplacesOnlyWhatItSaw` (action property): an intent with a scope replaces only
  the owner that was current when the user asked.
* `ImplementsSessionLease`: one holder per session, one current owner, release once.
* `QuietIsFresh`: with nothing under way, the last outcome that was not
  superseded was read after the last change; after a success surface and coordinator agree.
* `ShownFollowsOwner`: ... and it is the catalog of the live session or the chosen preset.
* `CatalogNeverGoesBack` (action property): never an older catalog of a target, of an
  earlier session, or of a preset once a session is live.
* `EveryChangeIsRead` (liveness): each change is followed by the outcome of a read that saw it.
* `NoTextLost`: while its session stays, the text of a queued message is never nowhere:
  queued, claimed, in the editor, or in the hands of a pull-back, whichever removals failed and
  whatever transition came by.
* `NoTextTwice`: nor is it in the editor twice, or in the editor and still queued, unless the
  Host's answer to its removal was lost (then the code prefers a copy to a loss).
* `RecallHasItsTransition`: nothing is parked in the ledger behind the last task of the gate.
* `DraftsFollowTheEditor`: the attachments kept alive are those the editor refers to.
* `NeverInAnotherSession` (action property): recalled text lands only in the editor of its session.
* `EveryPullBackEnds` (liveness): deferred or not, it ends and gives its pin back.
* `FoldHasNoHole`: the transcript never misses an event before one it shows, nor shows one twice.
* `TrustedFoldIsTheWindow`: while deltas are trusted, the transcript is exactly the window of
  the binding on the surface, so the next delta continues it.
* `FoldNeverGoesBack` (action property): no re-fold takes back what an owner's transcript showed.
* `EventuallyShown` (liveness): the surface ends with the whole log under the owner that stands.

## 4. Fairness

`SessionAdmission!Fairness`: a promise reaction that can run runs, a stop hook
settles, a body ends, an admitted writer leaves.

`SessionRuntime!Fairness`: each intent that can take a step takes it (calls of the
Host settle, microtasks run), retirement goes on, an opened browser is
eventually answered or dismissed *when a command waits for it*, an Agent that was
**asked to stop** stops, and a write whose turn does not run leaves the barrier.
A turn that nobody stopped may run for ever: `NavigationSettles` and
`ExitCompletes` are checked without any assumption on such turns, since the code
stops the old owner before it drains (`app/session/runtime.ts:484`) and the exit
cancels.  `NavigationSettles` speaks of the head of the gate only: a fork's adoption or a
plain transition in front of it stops nobody and may wait for a writer of an
endless turn.  `PinsAreReleased` therefore assumes `TurnsEnd`.  `NavigationSettles` also
excludes turns that the Host starts by itself (`HostWakes`): one started between the stop and
the drain is stopped by nobody, and a write may wait for it.

`CatalogRefresh!Fairness`: a read of the Host settles, the rest of the call and the
callback of the gate run, and a published session comes to its refresh.  A
saved default needs no fairness: `EveryChangeIsRead` does not wait for it.

`QueuePullBack!Fairness`: a removal is answered (or its call fails), a stop and a body of a
transition settle, promise reactions run.  Nobody has to press a key.

`RemoteLiveView!Fairness`: the Client reconnects, the opening page of a generation
arrives, the Session opens, a binding that was replaced is committed, and
promises and microtasks settle, those of each attempt for themselves.  None of it is a further
publication: the surface catches up without one.

## 5. Divergences between comments and code

`runtime/direct/session-lifecycle-direct.ts:140-147` argues that two rules keep
the gate and the pins from waiting for one another; the second is the
same-session no-op of a switch.  The run `unscoped` shows that the rule does not
cover a switch without a scope: a switch to B runs, a switch back to A is queued,
a fork of A completes and queues its adoption; once B is published the second switch is not
a no-op any more and waits for A's pin, which the adoption behind it holds.
Switches with a scope are refused as superseded in that state, and the run `pins`
shows that they never deadlock.  Every caller of today's commands and bootstrap
passes a scope.

`tui/commands/models.ts:538-540` says that saving a default leaves the live catalog
untouched.  The run `catalog_default` shows that it is replaced: the refresh that
follows the save asks only whether a pending or launch preset masks the
default (`models.ts:553`), not whether a session is live.  `ShownFollowsOwner` is
therefore checked and proved without `/preset default`; `CatalogNeverGoesBack` is checked in the
same run, and proved with it.  `QuietIsFresh` and `EveryChangeIsRead` are checked, the first
also proved, with it.

`app/session/commit-order.ts:72-74` says that recalls stay restorable if a seam of the
commit section fails before the publication; `docs/architecture/concurrency.md:489-491`
and `app/session/runtime.ts:686-687` say the same.  The run `pullback_commit` shows a window in
which they are not: `runOrdinaryCommit` bumps the generation (line 79) before it publishes
the owner (80), and `runForkCommit` likewise (92, 93).  TLC's trace is that of a navigation.
If something throws between the two, the old session stays on the surface, but
the abort of the recall compares owner *and* generation (`app/submission/runtime.ts:586`),
takes its own session for another one and discards the text, whose rows
the Host has already removed.  The repository's test throws before the bump
(`test/app/session-runtime-remote-owner-handoff.test.ts:929`), where the statement holds.

Observations by reading, without a run:

* `live-ingress.ts:423` looks at `prepend` before it looks for a skipped revision, so an
  append that is coalesced with a page of older history is recovered as *paging*, that is
  without measuring the context.  The transcript itself is right (`FoldHasNoHole`).
* A recovery that joins a paging between a dropped re-fold and the next round's read
  (`bootstrap.ts:1658`) is committed unmeasured, since the request was consumed before.
* A page of older history that arrives before the opening page changes the revision and
  makes the window of a dead generation eligible for acknowledgement; the model contains
  this, and the opening page, always a `replace`, repairs it.
* On the Remote backend nothing waits for the pin of a fork: `waitForOwnerRelease`
  (`ownership-core.ts:121`) is consulted by the Direct backend (`bootstrap.ts:777`), and
  `open` of `runtime/remote/session-lifecycle-remote.ts` does not ask.  When the retirement of a
  fork's source is deferred to the end of another command (`runtime.ts:1111`) and the user
  switches back to the source before that, the same binding yields the same owner with a new
  wrapper, and it is to be checked whether the deferred retirement then releases the wrapper
  of the surface.  This is a question for the module `RemoteOwners` of the plan and not a result.

## 6. What is proved

`SessionAdmission_proofs` proves for any finite sets of callers and writers:

* `Inductive`: `IInv` is an invariant of `SafeSpec`.  `TypeOK` and the four safety
  invariants are not inductive: they say nothing of how the counters relate to the callers.
  `IInv` adds `LineInv` (who is in the line, and that only its head has started),
  `FlagInv` (what `active`, `queued` and `frozen` mean in terms of the callers) and
  `DrainInv` (`writers` counts the admitted writers, `wait` holds the parked
  caller, and someone parked means someone inside).
* `TypeCorrect`, `Exclusive`, `NotReentrant`, `WakeupNotLost`, `PendingCovers`:
  each from `IInv` without a further induction.
* `Implements`: each step of `SessionAdmission` is a step of
  `ExclusiveTransition` or a stutter.

The proofs assume what the module assumes of its constants, and no more.  One lemma
per action preserves `IInv`; `NextKeeps` joins them.

`CatalogRefresh_proofs` proves for any finite roster and any bounds:

* `TypeCorrect`, and with it that a call is paid for by a request or a change.
* `Fresh`: `QuietIsFresh`.  Its inductive invariant says of every state in between where the
  knowledge of the last change is (`FreshInv`: in the last outcome, in an answer,
  in a read that has not been answered, or in `dirty`), that no answer to the latest call
  is older than the last outcome and that the latest call is not aborted before
  the exit (`CallsOK`).
* `FollowsOwner`: `ShownFollowsOwner`, assuming that no default is saved; `FollowInv`
  adds that the latest call reads for the owner unless a session was just published.
* `NothingGoesBack`: `CatalogNeverGoesBack`, the saved default included.  What the
  surface shows says nothing of the answers that are still to come, so `BackInv` adds that the
  latest call has either blanked the surface (another target) or reads the
  applied target anew, with an answer not older than what is shown.

`QueuePullBack_proofs` proves for any number of messages, any finite set of presses and any
set of transitions:

* `Inductive`: `IInv` is an invariant of `SafeSpec`.  None of the properties is inductive:
  `NoTextTwice` does not say that of two pull-backs which saw the same row only one has
  removed it, nor that what a pull-back holds is in no other place.  `IInv` adds `LineInv` (each
  transition under way is in the line once, only its head has started, and the barrier is
  frozen exactly while one is in its section), `WriteInv` (no removal during a body; no
  pull-back outlives its session or the body of a preset, which has no settlement at the gate),
  `PullInv` (`gone`, `rows`, `keep` and `staged` by phase), `PlaceInv` (a text whose
  removal is certain has one holder at most, and a holder excludes editor, queue and
  turns) and `DraftInv` (editor against drafts).
* `TypeCorrect`, `NotTwice`, `RecallsAreSettled`, `DraftsFollow`: each from `IInv`.
* `StaysInItsSession`: the action property, from `IInv` and one case per action that
  touches the editor.
* `NotLost`: `NoTextLost`, assuming `"afterBump" \notin Throws`, that is that nothing throws
  between the bump and the publication; the run `pullback_commit` shows that the
  assumption is needed.  It rests on a second invariant, `KeptInv`: owner and generation
  move together, so the subject of a pull-back under way is the current one.
* `Implements`: every step is a step of `ExclusiveTransition` or a stutter.

`SessionRuntime_proofs` proves, for any finite set of intents, any number of persisted sessions and
writers, with and without failures and turns started by the Host:

* `Inductive`: `IInv` is an invariant of `SafeSpec`.  The properties are far from inductive.  That
  two keepers never share an owner, say, needs to know who can come to hold it next, and that
  depends on how far every intent, every fork and the exit has got.  The parts of `IInv`, each
  there for a step that the others do not exclude:
  - `LineInv`, as in the admission proofs: only the head of the line has started, so two
    transitions never work on the surface at once.
  - `PathInv`, `LocalInv`: the steps each kind of intent goes through, and what it holds at each;
    in particular a navigation before its commit has the current owner as the one to replace.
  - `CountInv`: owners are born in order and one per intent, so an intent that acquires finds
    one unborn, of a session nobody has.
  - `OwnerInv`, `KeeperInv`: a live owner that is not being retired is on the surface, in
    the pool, carried by the intent that acquired it, or left by the one that replaced it, and
    never two of these; no two live owners are of one session.
  - `RetireInv`, `ForkInv`: whoever began a retirement has not lost sight of it; a fork
    keeps its pin while the retirement of its source is deferred, handed over or under way.
  - `ExitInv`: which ledgers are empty at each step of the exit.  `CancelInv`: an Agent cancelled by
    the exit is not in the pool and nobody carries it, hence nobody can publish, claim or
    release it afterwards as if it had not been cancelled.
  - `WriteInv`: no write is in the barrier once a transition has drained it.
  - `SeenInv`, `ScopeInv`, `EpochInv`: what a capture still stands for.  A capture never names an owner
    that was not shown; a navigation in the gate has the scope it was asked in; and the epoch and
    the session that a fork compares identify the *owner*, though `isNavigationCurrent` does not
    look at it.
  - `PinInv`, `GateInv`: what a wait for a pin may find in the pool, and which forks and windows
    can be behind a switch in the line.
* From it, `TypeCorrect`, `SurfaceStaysAlive`, `ResumesAreGranted`, `KeepersAreUnique`,
  `WritesAreSafe`, `CancelledOnce` and `ExitIsClean`, each without a further induction.
* `GateIsNoDeadlock`: `GateNeverWaitsForItself`, assuming `"pick" \notin Kinds`, that is that every
  switch carries a scope, as those of the commands and of the bootstrap do.  The run `unscoped`
  shows that the assumption is needed.
* `CommitsReplaceWhatTheySaw`: the action property `ReplacesOnlyWhatItSaw`.
* `RefinesSessionLease`: each step of the runtime is a step of `SessionLease` or a stutter.  `RoleOf`
  reads the role of an owner off its life, its retirement and the intents that have replaced it;
  a commit moves one owner from spare to current and the one it replaces to
  leaving in the same step, which is where `KeeperInv` is needed once more.

The argument does not go action by action.  Many of the actions do the same thing to the
state that the invariant speaks of, so `SessionRuntime_requests` and `SessionRuntime_owners` describe
twenty-odd *kinds of step* (`Walks`, `Begins`, `Joins`, `Obtains`, `Commits`, `Adopts`,
`RetiresOld`, `Closes`, `ExitTakes`, ...) by what they may change, and prove once for each that it
keeps `IInv`.  `SessionRuntime_proofs` proves of each action that it keeps the types and is of one of
these kinds (`NextMoves`); the action property and the refinement are then proved over the kinds.

`RemoteLiveView_proofs` proves for any numbers of events and incidents:

* `Inductive`: `IInv` is an invariant of `SafeSpec`.  `FoldHasNoHole` and `TrustedFoldIsTheWindow` do
  not say what a read that is still to be folded, or an acknowledgement that is still to be
  given, knows of the window.  `IInv` adds:
  - `Owners`, `Generations`: there are two owners at most, and a generation costs an incident; the
    window of the generation that is up shows the whole log.
  - `Reads`: a read is no newer than the window of its binding, and is that window if the
    revision is the same.  This is what the comparison of revisions in an acknowledgement relies on.
  - `Attempts`: only the newest attempt of the owner is under way, never beside an installed
    handle, an init that is due or an armed retry.
  - `Pump`: a round whose handle was replaced does not find it installed; what a round is about to
    acknowledge is the transcript; and its read is no later than that of an attempt beside it,
    without which a late round could take back what the attempt folded.
  - `Folds`: the transcript is not ahead of the window, nor of what an attempt is about to fold.
  - `Count`: two attempts for each generation and one for each owner, less what is still due.
* `TypeCorrect`: `TypeOK`, with the single publisher and `MaxAttempts`; the proof shows that
  half of that bound suffices.
* `NoHoleEver`, `TrustIsEarned`: from `IInv`.  `NothingIsTakenBack`: the action property, from `IInv`
  and the steps that fold.

TLC checked each `IInv` as an invariant of the instances of section 3 or smaller ones before it was
proved, which is how most of its parts were found: a part that is too strong
fails there at once, and one that is too weak leaves a step of the proof open.  The proofs assume
what the modules assume of their constants, and beyond that only the three assumptions named
above (`FollowsOwner`, `NotLost`, `GateIsNoDeadlock`).  They are about `SafeSpec`; `Spec` is
`SafeSpec` with fairness, so all of it holds of `Spec` too.

Only model-checked: the liveness properties (`EveryTransitionSettles`, `NavigationSettles`,
`PinsAreReleased`, `ExitCompletes`, `EveryChangeIsRead`, `EveryPullBackEnds`, `EventuallyShown`).  They
rest on fairness, that is on ENABLED, which the prover does not handle.  What a proof of them
would need beyond the invariants above are the measures by which each wait shrinks.

## 7. Not modelled

The parts marked `not_modelled` in `PROJECT.json`, with reasons there.  Inside the
runtime: the Remote backend's owner wrapping; failures of the phases of a
retirement and the durability they imply; the throw of a metadata read in the
middle of the first session's commit; the coalesced scope notifications; the notices
and receipts of a stop.  (The settlement of recalls at the end of a gate task is
`QueuePullBack`'s.)
Of the catalog: the transport identity that fences the Remote backend's reads and the refresh
after a reconnect; failures of the commands provider beside the skills; how single wrappers are
registered.  Of the submission: the FIFO of submissions, local acknowledgements, the
bookkeeping of prompts; a pull-back whose drafts cannot be staged changes nothing and is left
out.  Of the Remote transcript: transient chunks and their settlement (taken for an
append), whether a re-fold measures the context, the working fold, the viewer of a child
session with a pump of its own (`viewer-runtime.ts`), the opening journal and the exit.

The map names some 3 300 lines of the 353 000 the repository holds.  The share cannot become
large: by far the most of those lines draw and lay out
(`tui-app.ts` and `tui/*` alone are more than half of the program), fold events into display lines, parse
and format, or are the vendored terminal toolkit, generated tables and types.  They
have no state that two actors share; what they do is a function of one input,
which the repository tests by example and a model checker would only restate.

## 8. Plan

1. `RemoteOwners` (`app/remote/session-owners.ts`, `runtime/remote/session-lifecycle-remote.ts`),
   under the runtime's forks and switches: the current owner always holds a live reference; a
   wrapper is released once; an answer of another generation counts neither as success nor
   as refusal; an idle edge before the subscription is not missed.
2. `InteractionDelivery` (`client-interaction-delivery.ts:303`) with its abstract specification:
   an interaction is answered once, by a presentation that was current, and a withdrawal is never
   an answer.
3. The default-write barrier (a wait returns only when no write is in flight), and
   the Remote side of the catalog: reads fenced by a transport identity, the refresh
   after a reconnect.
4. Phases of a retirement with failures and the durability they imply; the first
   session's commit that throws; scope notifications; the FIFO of submissions.
5. `RecallScope` (`recall-scope.ts:125`); the activity observer of the Host process
   (`host-activity.ts:629`).
6. Proofs about the modules above as they are written.  In those that exist no safety property
   is unproved; whatever extends them extends their `IInv` with it.
