--------------------------- MODULE SessionRuntime ---------------------------
(***************************************************************************)
(* The session runtime over the in-process ("Direct") backend:             *)
(*   app/session/runtime.ts         navigation, fork, first session, exit  *)
(*   app/session/ownership-core.ts  current owner, generation, epoch, pins *)
(*   app/direct/owner-retirement.ts cancel, quiesce and retirement         *)
(*   runtime/direct/...             open/create/fork, the parked-owner pool *)
(* An owner is one generation of a live session: an Agent together with    *)
(* the exclusive write lease of the session.  The gate and the barrier are *)
(* taken as SessionAdmission describes them, without their inner steps.    *)
(* A step is what happens between two awaits on something outside.         *)
(***************************************************************************)
EXTENDS Integers, Sequences, FiniteSets

CONSTANTS Op,        \* user intents; each slot is used once
          Exit,      \* the exit of the program
          Writer,    \* slots of ordinary session writes
          Kinds,     \* the intents a configuration lets the user have
          Stored,    \* how many sessions are persisted at startup
          HostWakes, \* may the Host start a turn during a transition?
          MayFail    \* may a Host call or a commit seam fail?

AllKinds == {"switch", "pick", "new", "first", "fork", "plain", "exit"}

ASSUME KindsAssumption == Kinds \subseteq AllKinds
ASSUME ExitAssumption == Exit \notin Op
ASSUME BoundsAssumption == Stored \in Nat \ {0} /\ IsFiniteSet(Op)
ASSUME FlagsAssumption == HostWakes \in BOOLEAN /\ MayFail \in BOOLEAN

Task == Op \union {Exit}

\* The owner of the startup resume, and at most one per intent.
Owner == 1..(Cardinality(Op) + 1)
None == 0                            \* no owner, no session
Session == 1..(Stored + Cardinality(Op))

VARIABLES
  line,      \* the gate: tasks queued or running, oldest first
  frozen,    \* the barrier is frozen
  writing,   \* for each write in progress the owner it was admitted on
  cur,       \* core.owner()
  gen,       \* core.generation()
  epoch,     \* core.navigationEpoch()
  sessions,  \* how many sessions exist, persisted or live
  sess,      \* the session of each owner
  life,      \* does the owner hold its write lease?
  turn,      \* what its Agent is doing
  ret,       \* the phase of its retirement
  parked,    \* the parked-owner pool
  exiting,   \* lifecycleSignal.aborted, together with isSurfaceDisposed
  cancelled, \* shutdownCancelledAgents
  late,      \* number of cancels an Agent got after the exit began
  pc, kind, target, seen, next, old,   \* per intent
  pins,      \* forks that pin their source session
  window,    \* commands whose settlement window is open
  deferred,  \* forks whose source retirement waits for the window to close
  handed     \* forks whose source retirement is under way

admission == <<line, frozen>>
identity == <<cur, gen, epoch>>
agents == <<turn, cancelled, late>>
owners == <<sessions, sess, life, parked>>
intents == <<kind, target, seen>>
forks == <<pins, window, deferred, handed>>
vars == <<line, frozen, writing, cur, gen, epoch, sessions, sess, life, turn,
          ret, parked, exiting, cancelled, late, pc, kind, target, seen,
          next, old, pins, window, deferred, handed>>

----------------------------------------------------------------------------
SessionOf(o) == IF o = None THEN None ELSE sess[o]

\* captureScope() and captureNavigationIdentity() in one record.
Capture == [own |-> cur, gen |-> gen, session |-> SessionOf(cur), epoch |-> epoch]

\* A capture of the past is taken for current.
BadIsScopeCurrent(s) == s.gen <= gen

\* SessionScopeAuthority.isCurrent
IsScopeCurrent(s) == s.own = cur /\ s.gen = gen

\* The session alone is compared: A -> B -> A looks unmoved.
BadIsNavigationCurrent(s) == s.session = SessionOf(cur)

\* isRewindIdentityCurrent: the session on the surface and the navigation epoch.
IsNavigationCurrent(s) == s.session = SessionOf(cur) /\ s.epoch = epoch

(* Definitions named Bad... are slips that one property excludes; no      *)
(* specification uses them.                                                *)

OpState == {"idle", "chosen", "queued", "drain", "body", "resolved", "quiesce",
            "flushOld", "create", "awaitPin", "resuming", "creating", "commit",
            "releasing", "flushNew", "retireOld", "childIdle", "init",
            "forking", "attaching", "leave", "done",
            "running", "cleanup", "prepared", "forks", "settlements", "sources",
            "retireCurrent", "retireParked"}
RetPhase == {"no", "idle", "idleShutdown", "flush", "dispose", "done", "twice"}

TypeOK ==
  /\ line \in Seq(Task)
  /\ frozen \in BOOLEAN
  /\ writing \in [Writer -> Owner \union {None}]
  /\ cur \in Owner \union {None}
  /\ gen \in Nat /\ epoch \in Nat
  /\ sessions \in Session
  /\ sess \in [Owner -> Session \union {None}]
  /\ life \in [Owner -> {"unborn", "held", "gone"}]
  /\ turn \in [Owner -> {"idle", "running", "stopping"}]
  /\ ret \in [Owner -> RetPhase]
  /\ parked \in SUBSET Owner
  /\ exiting \in BOOLEAN
  /\ cancelled \in SUBSET Owner
  /\ late \in [Owner -> Nat]
  /\ pc \in [Task -> OpState]
  /\ kind \in [Op -> (AllKinds \ {"exit"}) \union {"none"}]
  /\ target \in [Op -> Session \union {None}]
  /\ seen \in [Op -> [own : Owner \union {None}, gen : Nat,
                      session : Session \union {None}, epoch : Nat]]
  /\ next \in [Op -> Owner \union {None}]
  /\ old \in [Op -> Owner \union {None}]
  /\ pins \in SUBSET Op
  /\ window \in SUBSET Op
  /\ deferred \in SUBSET Op
  /\ handed \in SUBSET Op

\* The startup resume published the owner of session 1, or there is none yet.
Init ==
  /\ line = <<>> /\ frozen = FALSE
  /\ writing = [w \in Writer |-> None]
  /\ cur \in {None, 1}
  /\ gen = 0 /\ epoch = 0
  /\ sessions = Stored
  /\ sess = [o \in Owner |-> IF o = cur THEN 1 ELSE None]
  /\ life = [o \in Owner |-> IF o = cur THEN "held" ELSE "unborn"]
  /\ turn = [o \in Owner |-> "idle"]
  /\ ret = [o \in Owner |-> "no"]
  /\ parked = {}
  /\ exiting = FALSE
  /\ cancelled = {} /\ late = [o \in Owner |-> 0]
  /\ pc = [t \in Task |-> IF t = Exit THEN "running" ELSE "idle"]
  /\ kind = [p \in Op |-> "none"]
  /\ target = [p \in Op |-> None]
  /\ seen = [p \in Op |-> [own |-> None, gen |-> 0, session |-> None, epoch |-> 0]]
  /\ next = [p \in Op |-> None]
  /\ old = [p \in Op |-> None]
  /\ pins = {} /\ window = {} /\ deferred = {} /\ handed = {}

----------------------------------------------------------------------------
Goto(t, s) == pc' = [pc EXCEPT ![t] = s]
At(t, s) == pc[t] = s

\* The Agents of a set of owners are asked to stop: a running turn ends soon.
Stopped(os) == [o \in Owner |->
                 IF o \in os /\ turn[o] = "running" THEN "stopping" ELSE turn[o]]

\* agent.cancel outside the exactly-once set of the shutdown.
Cancel(o) ==
  /\ turn' = Stopped({o})
  /\ late' = [late EXCEPT ![o] = IF exiting THEN @ + 1 ELSE @]
  /\ UNCHANGED cancelled

\* The set records the current owner, not the one that was cancelled.
BadCancelShutdown(o) ==
  IF o \in cancelled
    THEN UNCHANGED agents
    ELSE /\ turn' = Stopped({o})
         /\ late' = [late EXCEPT ![o] = @ + 1]
         /\ cancelled' = cancelled \union {cur}

\* The Agent is recorded, but never asked to stop.
BadCancelShutdownRecords(o) ==
  /\ cancelled' = cancelled \union {o}
  /\ UNCHANGED <<turn, late>>

\* cancelShutdownAgent: at most one cancel per Agent.
CancelShutdown(o) ==
  IF o \in cancelled
    THEN UNCHANGED agents
    ELSE /\ turn' = Stopped({o})
         /\ late' = [late EXCEPT ![o] = @ + 1]
         /\ cancelled' = cancelled \union {o}

\* A late retirement cancels without asking the set.
BadCancelRetired(o) == Cancel(o)

\* cancelRetiredOwner
CancelRetired(o) == IF exiting THEN CancelShutdown(o) ELSE Cancel(o)

\* A retirement of an owner begins; a second one must never happen.
BeginRetirement(os, phase) ==
  ret' = [o \in Owner |-> IF o \notin os THEN ret[o]
                          ELSE IF ret[o] = "no" THEN phase ELSE "twice"]

Enqueue(t) == line' = Append(line, t) /\ Goto(t, "queued")

----------------------------------------------------------------------------
(* The retirement of one owner: cancel -> idle -> descendants -> flush,    *)
(* only of a transition and only while the Host is live -> dispose.        *)

RetireIdle(o) ==
  /\ ret[o] \in {"idle", "idleShutdown"}
  /\ turn[o] = "idle"
  /\ ret' = [ret EXCEPT ![o] = IF ret[o] = "idle" /\ ~exiting
                                 THEN "flush" ELSE "dispose"]
  /\ UNCHANGED <<admission, writing, identity, agents, owners, exiting,
                 pc, intents, next, old, forks>>

RetireFlush(o) ==
  /\ ret[o] = "flush"
  /\ ret' = [ret EXCEPT ![o] = "dispose"]
  /\ UNCHANGED <<admission, writing, identity, agents, owners, exiting,
                 pc, intents, next, old, forks>>

\* handle.dispose() closes the lease; a fork's pin ends with its retirement.
RetireDispose(o) ==
  /\ ret[o] = "dispose"
  /\ ret' = [ret EXCEPT ![o] = "done"]
  /\ life' = [life EXCEPT ![o] = "gone"]
  /\ LET finished == {p \in handed : old[p] = o}
     IN  handed' = handed \ finished /\ pins' = pins \ finished
  /\ UNCHANGED <<admission, writing, identity, agents, sessions, sess, parked,
                 exiting, pc, intents, next, old, window, deferred>>

----------------------------------------------------------------------------
(* Turns and ordinary writes.                                              *)

\* A prompt is an ordinary write of the current owner; a continuation of the
\* Host wakes any Agent that nobody retires.
TurnStarts(o) ==
  /\ life[o] = "held" /\ ret[o] = "no" /\ turn[o] = "idle" /\ o \notin cancelled
  /\ HostWakes \/ (o = cur /\ ~frozen /\ ~exiting)
  /\ turn' = [turn EXCEPT ![o] = "running"]
  /\ UNCHANGED <<admission, writing, identity, cancelled, late, owners, ret,
                 exiting, pc, intents, next, old, forks>>

TurnEnds(o) ==
  /\ turn[o] # "idle"
  /\ turn' = [turn EXCEPT ![o] = "idle"]
  /\ UNCHANGED <<admission, writing, identity, cancelled, late, owners, ret,
                 exiting, pc, intents, next, old, forks>>

\* Esc: a control section is admitted whatever the barrier says, except that the
\* exit cancels by itself.
Interrupt ==
  /\ ~exiting /\ cur # None /\ turn[cur] = "running"
  /\ Cancel(cur)
  /\ UNCHANGED <<admission, writing, identity, owners, ret, exiting, pc,
                 intents, next, old, forks>>

\* withWriter: the scope check and the admission are one synchronous stretch.
\* The process ends with the retirement of the exit.
AdmitWriter(w) ==
  /\ writing[w] = None /\ cur # None /\ ~frozen /\ ~At(Exit, "done")
  /\ writing' = [writing EXCEPT ![w] = cur]
  /\ UNCHANGED <<admission, identity, agents, owners, ret, exiting, pc,
                 intents, next, old, forks>>

LeaveWriter(w) ==
  /\ writing[w] # None
  /\ writing' = [writing EXCEPT ![w] = None]
  /\ UNCHANGED <<admission, identity, agents, owners, ret, exiting, pc,
                 intents, next, old, forks>>

----------------------------------------------------------------------------
(* Asking for a transition.                                                *)

\* The submit FIFO has at most one command in its settlement window, and only
\* a command given to a live session has one.
MayOpenWindow == window = {} /\ cur # None

InWindow(p, c) == IF c THEN MayOpenWindow /\ window' = window \union {p}
                       ELSE UNCHANGED window

\* The Session Browser, /new and the rewind picker capture what they leave
\* when they are opened and ask for it later.
Choose(p, k, c) ==
  /\ At(p, "idle") /\ k \in Kinds \cap {"switch", "new", "fork"} /\ ~exiting
  /\ k = "fork" => cur # None /\ ~c
  /\ k = "new" => /\ c <=> cur # None
                  /\ \A q \in Op : kind[q] = "new" => At(q, "done")
  /\ InWindow(p, c)
  /\ kind' = [kind EXCEPT ![p] = k]
  /\ seen' = [seen EXCEPT ![p] = Capture]
  /\ Goto(p, "chosen")
  /\ UNCHANGED <<admission, writing, identity, agents, owners, ret, exiting,
                 target, next, old, pins, deferred, handed>>

\* The Browser or the picker is closed, or nothing matched.
Dismiss(p) ==
  /\ At(p, "chosen") /\ kind[p] \in {"switch", "fork"}
  /\ Goto(p, "done")
  /\ UNCHANGED <<admission, writing, identity, agents, owners, ret, exiting,
                 intents, next, old, forks>>

\* switchSessionOutcome with a captured scope: a stale intent is superseded.
RequestSwitch(p, s) ==
  /\ At(p, "chosen") /\ kind[p] = "switch" /\ s \in 1..sessions
  /\ target' = [target EXCEPT ![p] = s]
  /\ IF IsScopeCurrent(seen[p]) /\ ~exiting
       THEN Enqueue(p)
       ELSE Goto(p, "done") /\ UNCHANGED line
  /\ UNCHANGED <<frozen, writing, identity, agents, owners, ret, exiting,
                 kind, seen, next, old, forks>>

\* switchSessionOutcome without a scope: the epoch moves at once, the scope is
\* captured when its turn comes.
PickSession(p, s) ==
  /\ At(p, "idle") /\ "pick" \in Kinds /\ s \in 1..sessions /\ ~exiting
  /\ kind' = [kind EXCEPT ![p] = "pick"]
  /\ target' = [target EXCEPT ![p] = s]
  /\ epoch' = epoch + 1
  /\ Enqueue(p)
  /\ UNCHANGED <<frozen, writing, cur, gen, agents, owners, ret, exiting, seen,
                 next, old, forks>>

\* /new after its workspace selection, which fails or finds the scope stale.
RequestNew(p) ==
  /\ At(p, "chosen") /\ kind[p] = "new"
  /\ \/ IsScopeCurrent(seen[p]) /\ Enqueue(p)
     \/ Goto(p, "done") /\ UNCHANGED line
  /\ UNCHANGED <<frozen, writing, identity, agents, owners, ret, exiting,
                 intents, next, old, forks>>

\* ensureSession: the first message creates the session, once.
RequestFirst(p) ==
  /\ At(p, "idle") /\ "first" \in Kinds /\ cur = None /\ ~exiting
  /\ \A q \in Op : kind[q] = "first" => At(q, "done")
  /\ kind' = [kind EXCEPT ![p] = "first"]
  /\ Enqueue(p)
  /\ UNCHANGED <<frozen, writing, identity, agents, owners, ret, exiting,
                 target, seen, next, old, forks>>

\* A transition that replaces nothing (/preset).
RequestPlain(p) ==
  /\ At(p, "idle") /\ "plain" \in Kinds /\ ~exiting
  /\ kind' = [kind EXCEPT ![p] = "plain"]
  /\ Enqueue(p)
  /\ UNCHANGED <<frozen, writing, identity, agents, owners, ret, exiting,
                 target, seen, next, old, forks>>

\* forkSession claims an epoch of its own for what the caller saw and pins the
\* source session.
ClaimFork(p, saw) ==
  /\ epoch' = epoch + 1
  /\ seen' = [seen EXCEPT ![p] = [saw EXCEPT !.epoch = epoch + 1]]
  /\ pins' = pins \union {p}
  /\ Goto(p, "forking")

\* The rewind picker hands over the identity it captured.
RequestRewind(p) ==
  /\ At(p, "chosen") /\ kind[p] = "fork"
  /\ IF ~exiting /\ IsNavigationCurrent(seen[p])
       THEN ClaimFork(p, seen[p])
       ELSE Goto(p, "done") /\ UNCHANGED <<epoch, seen, pins>>
  /\ UNCHANGED <<admission, writing, cur, gen, agents, owners, ret, exiting,
                 kind, target, next, old, window, deferred, handed>>

\* /fork captures and asks in one stretch, inside its command's window.
RequestFork(p) ==
  /\ At(p, "idle") /\ "fork" \in Kinds /\ cur # None /\ ~exiting
  /\ InWindow(p, TRUE)
  /\ kind' = [kind EXCEPT ![p] = "fork"]
  /\ ClaimFork(p, Capture)
  /\ UNCHANGED <<admission, writing, cur, gen, agents, owners, ret, exiting,
                 target, next, old, deferred, handed>>

\* Close one command window: the last one starts the queued retirements.
CloseWindow(p) ==
  /\ p \in window /\ At(p, "done")
  /\ window' = window \ {p}
  /\ IF window' = {}
       THEN LET sources == {old[q] : q \in deferred}
            IN  /\ BeginRetirement(sources, "idle")
                /\ turn' = Stopped(sources)
                /\ late' = [o \in Owner |->
                      IF exiting /\ o \in sources \ cancelled
                        THEN late[o] + 1 ELSE late[o]]
                /\ cancelled' = IF exiting THEN cancelled \union sources
                                           ELSE cancelled
                /\ handed' = handed \union deferred
                /\ deferred' = {}
       ELSE UNCHANGED <<ret, agents, deferred, handed>>
  /\ UNCHANGED <<admission, writing, identity, owners, exiting, pc, intents,
                 next, old, pins>>

----------------------------------------------------------------------------
(* The gate task: admission, freeze, navigation stop, drain.               *)

IsHead(t) == line # <<>> /\ t = Head(line) /\ At(t, "queued")

\* A fork gives its pin back although its retirement owns it.
BadEndTask(t) ==
  /\ line' = Tail(line)
  /\ frozen' = FALSE
  /\ Goto(t, "done")
  /\ pins' = pins \ {t}

\* A fork that did not commit keeps its pin.
BadEndTaskKeepsPin(t) ==
  /\ line' = Tail(line)
  /\ frozen' = FALSE
  /\ Goto(t, "done")
  /\ UNCHANGED pins

\* The task is over: the barrier unfreezes and the gate moves on.  A fork also
\* gives its pin back unless the retirement of its source owns it.
EndTask(t) ==
  /\ line' = Tail(line)
  /\ frozen' = FALSE
  /\ Goto(t, "done")
  /\ pins' = IF t \in deferred \union handed THEN pins ELSE pins \ {t}

\* A navigation enters like any other transition, without the stop.
BadNavigationStop == UNCHANGED agents

\* One stop addressed to the owner that is left; the exit stops it by itself.
NavigationStop == IF exiting \/ cur = None THEN UNCHANGED agents ELSE Cancel(cur)

\* runNavigationTransition: freeze, then stop, then drain.  A stop that is
\* refused or unproven ends the navigation before anything else happened.
FreezeAndStop(p) ==
  \/ /\ frozen' = TRUE
     /\ NavigationStop
     /\ Goto(p, "drain")
     /\ UNCHANGED <<line, pins>>
  \/ /\ MayFail /\ ~exiting /\ cur # None
     /\ Cancel(cur)
     /\ EndTask(p)

\* The same-session no-op is forgotten.
BadStartSwitch(p) ==
  /\ IsHead(p) /\ kind[p] \in {"switch", "pick"}
  /\ IF kind[p] = "switch" /\ ~IsScopeCurrent(seen[p])
       THEN EndTask(p) /\ UNCHANGED <<epoch, agents, seen>>
       ELSE /\ epoch' = IF kind[p] = "switch" THEN epoch + 1 ELSE epoch
            /\ FreezeAndStop(p)
            /\ UNCHANGED seen
  /\ UNCHANGED <<writing, cur, gen, owners, ret, exiting, kind, target, next,
                 old, window, deferred, handed>>

\* switchSessionOutcome inside the gate: recheck, same-session no-op, then
\* the navigation transition.
StartSwitch(p) ==
  /\ IsHead(p) /\ kind[p] \in {"switch", "pick"}
  /\ LET scope == IF kind[p] = "pick" THEN Capture ELSE seen[p]
     IN  IF ~IsScopeCurrent(scope) \/ SessionOf(cur) = target[p]
           THEN EndTask(p) /\ UNCHANGED <<epoch, agents, seen>>
           ELSE /\ epoch' = IF kind[p] = "switch" THEN epoch + 1 ELSE epoch
                /\ seen' = [seen EXCEPT ![p] = scope]
                /\ FreezeAndStop(p)
  /\ UNCHANGED <<writing, cur, gen, owners, ret, exiting, kind, target, next,
                 old, window, deferred, handed>>

\* withNavigation of /new.
StartNew(p) ==
  /\ IsHead(p) /\ kind[p] = "new"
  /\ IF ~exiting /\ ~IsScopeCurrent(seen[p])
       THEN EndTask(p) /\ UNCHANGED agents
       ELSE FreezeAndStop(p)
  /\ UNCHANGED <<writing, identity, owners, ret, exiting, intents, next, old,
                 window, deferred, handed>>

\* No stop of the old owner: the freeze alone.
StartPlain(t) ==
  /\ IsHead(t) /\ (t # Exit => kind[t] \in {"first", "fork", "plain"})
  /\ frozen' = TRUE
  /\ Goto(t, "drain")
  /\ UNCHANGED <<line, writing, identity, agents, owners, ret, exiting,
                 intents, next, old, forks>>

\* The freeze alone is taken for exclusion.
BadDrain(t) ==
  /\ At(t, "drain")
  /\ Goto(t, "body")
  /\ UNCHANGED <<admission, writing, identity, agents, owners, ret, exiting,
                 intents, next, old, forks>>

\* The writers admitted before the freeze have left.
Drain(t) ==
  /\ At(t, "drain")
  /\ \A w \in Writer : writing[w] = None
  /\ Goto(t, "body")
  /\ UNCHANGED <<admission, writing, identity, agents, owners, ret, exiting,
                 intents, next, old, forks>>

\* The body ends without replacing the owner, or has nothing more to do.
Finish(t) ==
  /\ EndTask(t)
  /\ UNCHANGED <<writing, identity, agents, owners, ret, exiting, intents, next,
                 old, window, deferred, handed>>

Leave(t) == At(t, "leave") /\ Finish(t)
PlainBody(p) == p \in Op /\ kind[p] = "plain" /\ At(p, "body") /\ Finish(p)

----------------------------------------------------------------------------
(* transitionTo: quiesce and flush the old owner, acquire the new one.     *)

\* whenIdleOrAbort on an owner: entered after the abort it cancels at once,
\* before the abort it leaves that to the abort listener (ExitBegins).
WaitIdle(o) == IF exiting THEN CancelShutdown(o) ELSE UNCHANGED agents

BeginTransition(p) ==
  /\ epoch' = epoch + 1
  /\ old' = [old EXCEPT ![p] = cur]
  /\ IF cur = None THEN Goto(p, "create") /\ UNCHANGED agents
                   ELSE Goto(p, "quiesce") /\ WaitIdle(cur)
  /\ UNCHANGED <<admission, writing, cur, gen, owners, ret, exiting, intents,
                 next, forks>>

SwitchBody(p) ==
  /\ At(p, "body") /\ kind[p] \in {"switch", "pick"}
  /\ IF exiting THEN Finish(p) ELSE BeginTransition(p)

\* /new resolves its preset and waits for the pending default writes; /first
\* resolves its workspace.
Prepare(p) ==
  /\ At(p, "body") /\ kind[p] \in {"new", "first"}
  /\ \/ ~exiting /\ Goto(p, "resolved")
     \/ (exiting \/ MayFail) /\ Goto(p, "leave")
  /\ UNCHANGED <<admission, writing, identity, agents, owners, ret, exiting,
                 intents, next, old, forks>>

\* The exit may begin between the last check of the signal and this point.
NewBody(p) == At(p, "resolved") /\ kind[p] = "new" /\ BeginTransition(p)

Step(p, from, to) ==
  /\ At(p, from)
  /\ Goto(p, to)
  /\ UNCHANGED <<admission, writing, identity, agents, owners, ret, exiting,
                 intents, next, old, forks>>

QuiesceEnds(p) ==
  /\ At(p, "quiesce") /\ turn[old[p]] = "idle"
  /\ \/ Step(p, "quiesce", IF exiting THEN "create" ELSE "flushOld")
     \/ MayFail /\ Step(p, "quiesce", "leave")

FlushOldEnds(p) == \/ Step(p, "flushOld", "create")
                   \/ MayFail /\ Step(p, "flushOld", "leave")

\* Direct open: the pool is asked before anything is awaited.
Open(p) ==
  /\ At(p, "create") /\ kind[p] \in {"switch", "pick"}
  /\ LET mine == {o \in parked : sess[o] = target[p]}
     IN  \/ /\ exiting
            /\ Goto(p, "leave")
            /\ UNCHANGED <<parked, next>>
         \/ /\ ~exiting /\ mine = {}
            /\ Goto(p, "awaitPin")
            /\ UNCHANGED <<parked, next>>
         \/ \E o \in mine :
              /\ ~exiting
              /\ parked' = parked \ {o}
              /\ next' = [next EXCEPT ![p] = o]
              /\ Goto(p, "commit")
  /\ UNCHANGED <<admission, writing, identity, agents, sessions, sess, life,
                 ret, exiting, intents, old, forks>>

Pinned(s) == \E q \in pins : seen[q].session = s

\* waitForReleaseOrAbort
AwaitPin(p) == \/ exiting /\ Step(p, "awaitPin", "leave")
               \/ ~Pinned(target[p]) /\ Step(p, "awaitPin", "resuming")

\* The Host hands out a live Agent with the write lease of a session.
Acquire(p, s) ==
  LET o == Cardinality({x \in Owner : life[x] # "unborn"}) + 1
  IN  /\ sess' = [sess EXCEPT ![o] = s]
      /\ life' = [life EXCEPT ![o] = "held"]
      /\ next' = [next EXCEPT ![p] = o]

\* The write claim of a session is exclusive: the Host refuses a second one.
Claimed(s) == \E o \in Owner : life[o] = "held" /\ sess[o] = s

\* agents.resume: an abort usually cancels it but may come too late.
Resumed(p) ==
  /\ At(p, "resuming") /\ ~Claimed(target[p])
  /\ Acquire(p, target[p])
  /\ Goto(p, "commit")
  /\ UNCHANGED <<admission, writing, identity, agents, sessions, parked, ret,
                 exiting, intents, old, forks>>

ResumeFails(p) == /\ exiting \/ MayFail \/ Claimed(target[p])
                  /\ Step(p, "resuming", "leave")

\* /new waits once more for the default writes and dispatches its create.
DispatchNew(p) == kind[p] = "new" /\ Step(p, "create", IF exiting THEN "leave" ELSE "creating")

DispatchFirst(p) ==
  /\ kind[p] = "first"
  /\ Step(p, "resolved", IF exiting \/ cur # None THEN "leave" ELSE "creating")

\* agents.create of a fresh session; the one of /new carries no abort signal.
\* A session that exists but cannot join its workspace is parked.
Created(p) ==
  /\ At(p, "creating")
  /\ sessions' = sessions + 1
  /\ Acquire(p, sessions + 1)
  /\ \/ Goto(p, "commit") /\ UNCHANGED parked
     \/ MayFail /\ Goto(p, "leave") /\ parked' = parked \union {next'[p]}
  /\ UNCHANGED <<admission, writing, identity, agents, ret, exiting, intents,
                 old, forks>>

CreateFails(p) == /\ MayFail \/ (exiting /\ kind[p] = "first")
                  /\ Step(p, "creating", "leave")

----------------------------------------------------------------------------
(* Commit and what follows it.                                             *)

\* bumpGeneration does nothing once the surface is disposed.
Bumped == IF exiting THEN gen ELSE gen + 1

\* A seam throws before the publication: the new owner is released, the old
\* one stays.  The generation may already have moved.
CommitThrows(p) ==
  /\ MayFail
  /\ gen' \in {gen, Bumped}
  /\ BeginRetirement({next[p]}, "idle")
  /\ CancelRetired(next[p])
  /\ Goto(p, "releasing")
  /\ UNCHANGED <<admission, writing, cur, epoch, owners, exiting, intents,
                 next, old, forks>>

\* runOrdinaryCommit, and the durability checkpoint of the child is issued.
OrdinaryCommit(p) ==
  /\ At(p, "commit") /\ kind[p] \in {"switch", "pick", "new"}
  /\ \/ CommitThrows(p)
     \/ /\ cur' = next[p]
        /\ gen' = Bumped
        /\ Goto(p, "flushNew")
        /\ UNCHANGED <<admission, writing, epoch, agents, owners, ret, exiting,
                       intents, next, old, forks>>

Released(p) == /\ At(p, "releasing") /\ ret[next[p]] = "done"
               /\ Step(p, "releasing", "leave")

\* runFirstSessionCommit publishes without moving the generation.
FirstCommit(p) ==
  /\ At(p, "commit") /\ kind[p] = "first"
  /\ cur' = next[p]
  /\ WaitIdle(next[p])
  /\ Goto(p, "childIdle")
  /\ UNCHANGED <<admission, writing, gen, epoch, owners, ret, exiting, intents,
                 next, old, forks>>

\* The owner to retire is read again after the commit.
BadRetireOld(p) ==
  /\ At(p, "flushNew")
  /\ IF old[p] = None
       THEN Goto(p, "childIdle") /\ WaitIdle(next[p]) /\ UNCHANGED ret
       ELSE /\ BeginRetirement({cur}, "idle")
            /\ CancelRetired(cur)
            /\ Goto(p, "retireOld")
  /\ UNCHANGED <<admission, writing, identity, owners, exiting, intents, next,
                 old, forks>>

\* The checkpoint settled, whatever its outcome: retire the replaced owner.
RetireOld(p) ==
  /\ At(p, "flushNew")
  /\ IF old[p] = None
       THEN Goto(p, "childIdle") /\ WaitIdle(next[p]) /\ UNCHANGED ret
       ELSE /\ BeginRetirement({old[p]}, "idle")
            /\ CancelRetired(old[p])
            /\ Goto(p, "retireOld")
  /\ UNCHANGED <<admission, writing, identity, owners, exiting, intents, next,
                 old, forks>>

RetireOldEnds(p) ==
  /\ At(p, "retireOld") /\ ret[old[p]] = "done"
  /\ Goto(p, "childIdle")
  /\ WaitIdle(next[p])
  /\ UNCHANGED <<admission, writing, identity, owners, ret, exiting, intents,
                 next, old, forks>>

\* The exit skips the initialization of the surface; the first session moves
\* the generation here.
ChildIdle(p) ==
  /\ At(p, "childIdle") /\ turn[next[p]] = "idle"
  /\ Goto(p, IF exiting THEN "leave" ELSE "init")
  /\ gen' = IF kind[p] = "first" THEN Bumped ELSE gen
  /\ UNCHANGED <<admission, writing, cur, epoch, agents, owners, ret, exiting,
                 intents, next, old, forks>>

SurfaceReady(p) == Step(p, "init", "leave")

----------------------------------------------------------------------------
(* Fork: the Host makes the child outside the gate, the gate adopts it.    *)

\* agents.create of the child, or a refusal: there is no child.
HostFork(p) ==
  /\ At(p, "forking")
  /\ \/ /\ MayFail
        /\ Goto(p, "done")
        /\ pins' = pins \ {p}
        /\ UNCHANGED <<sessions, sess, life, next>>
     \/ /\ sessions' = sessions + 1
        /\ Acquire(p, sessions + 1)
        /\ Goto(p, "attaching")
        /\ UNCHANGED pins
  /\ UNCHANGED <<admission, writing, identity, agents, parked, ret, exiting,
                 intents, old, window, deferred, handed>>

\* The child is a member of its workspace.  It waits for the gate unless the
\* navigation moved or the membership failed: then it is parked.
ForkSettles(p) ==
  /\ At(p, "attaching")
  /\ \/ /\ IsNavigationCurrent(seen[p])
        /\ Enqueue(p)
        /\ UNCHANGED <<parked, pins>>
     \/ /\ ~IsNavigationCurrent(seen[p]) \/ MayFail
        /\ parked' = parked \union {next[p]}
        /\ Goto(p, "done")
        /\ pins' = pins \ {p}
        /\ UNCHANGED line
  /\ UNCHANGED <<frozen, writing, identity, agents, sessions, sess, life, ret,
                 exiting, intents, next, old, window, deferred, handed>>

\* The child of a refused adoption is dropped.
BadAdoptRefused(p) ==
  /\ exiting \/ ~IsNavigationCurrent(seen[p])
  /\ EndTask(p)
  /\ UNCHANGED <<writing, identity, agents, owners, ret, exiting, intents, next,
                 old, window, deferred, handed>>

\* The navigation moved while the adoption waited for the gate.
AdoptRefused(p) ==
  /\ exiting \/ ~IsNavigationCurrent(seen[p])
  /\ parked' = parked \union {next[p]}
  /\ EndTask(p)
  /\ UNCHANGED <<writing, identity, agents, sessions, sess, life, ret, exiting,
                 intents, next, old, window, deferred, handed>>

\* runForkCommit; the retirement of the source takes over the pin, and waits
\* for the command window if one is open.
AdoptCommit(p) ==
  /\ cur' = next[p]
  /\ gen' = Bumped
  /\ old' = [old EXCEPT ![p] = cur]
  /\ IF window = {}
       THEN /\ BeginRetirement({cur}, "idle")
            /\ CancelRetired(cur)
            /\ handed' = handed \union {p}
            /\ Goto(p, "retireOld")
            /\ UNCHANGED deferred
       ELSE /\ deferred' = deferred \union {p}
            /\ WaitIdle(next[p])
            /\ Goto(p, "childIdle")
            /\ UNCHANGED <<ret, handed>>
  /\ UNCHANGED <<admission, writing, epoch, owners, exiting, intents, next,
                 pins, window>>

AdoptFork(p) ==
  /\ At(p, "body") /\ kind[p] = "fork"
  /\ \/ AdoptRefused(p)
     \/ /\ ~exiting /\ IsNavigationCurrent(seen[p])
        /\ AdoptCommit(p) \/ CommitThrows(p)

----------------------------------------------------------------------------
(* The exit: disposal, pre-cancel, the ledgers, then one task of the gate. *)

ExitStep(from, to) ==
  /\ At(Exit, from)
  /\ Goto(Exit, to)
  /\ UNCHANGED <<admission, writing, identity, agents, owners, ret, exiting,
                 intents, next, old, forks>>

\* The owners whose idle a transition awaits under the abort listener.
Awaited == {old[p] : p \in {q \in Op : At(q, "quiesce")}}
             \union {next[p] : p \in {q \in Op : At(q, "childIdle")}}

\* disposeSurface marks the surface disposed and aborts the lifecycle in one
\* stretch; each abort listener cancels the Agent it waits for.
ExitBegins ==
  /\ At(Exit, "running") /\ "exit" \in Kinds
  /\ Goto(Exit, "cleanup")
  /\ exiting' = TRUE
  /\ LET fresh == Awaited \ cancelled
     IN  /\ turn' = Stopped(fresh)
         /\ late' = [o \in Owner |-> IF o \in fresh THEN late[o] + 1 ELSE late[o]]
         /\ cancelled' = cancelled \union fresh
  /\ UNCHANGED <<admission, writing, identity, owners, ret, intents, next,
                 old, forks>>

\* preCancel of the current owner: once before the Host tears down, once more
\* when the retirement is entered.
PreCancel(from, to) ==
  /\ At(Exit, from)
  /\ Goto(Exit, to)
  /\ IF cur = None THEN UNCHANGED agents ELSE CancelShutdown(cur)
  /\ UNCHANGED <<admission, writing, identity, owners, ret, exiting, intents,
                 next, old, forks>>

ExitPrepares == PreCancel("cleanup", "prepared")
ExitRetires == PreCancel("prepared", "forks")

PendingForks == {p \in Op : kind[p] = "fork" /\ pc[p] \notin {"idle", "chosen", "done"}}

\* The exit does not wait for the forks in flight.
BadExitForks == ExitStep("forks", "settlements")

ExitForks == PendingForks = {} /\ ExitStep("forks", "settlements")
ExitSettlements == window = {} /\ ExitStep("settlements", "sources")

ExitQueues ==
  /\ At(Exit, "sources") /\ handed = {}
  /\ Enqueue(Exit)
  /\ UNCHANGED <<frozen, writing, identity, agents, owners, ret, exiting,
                 intents, next, old, forks>>

\* The current owner is read again inside the gate.
ExitRetiresCurrent ==
  /\ At(Exit, "body")
  /\ IF cur = None
       THEN Goto(Exit, "retireParked") /\ UNCHANGED <<ret, agents>>
       ELSE /\ BeginRetirement({cur}, "idleShutdown")
            /\ CancelShutdown(cur)
            /\ Goto(Exit, "retireCurrent")
  /\ UNCHANGED <<admission, writing, identity, owners, exiting, intents, next,
                 old, forks>>

ExitCurrentGone == /\ At(Exit, "retireCurrent") /\ ret[cur] = "done"
                   /\ ExitStep("retireCurrent", "retireParked")

\* takeAllParkedOwners, retired one after the other with a plain cancel.
NothingRetiring == \A o \in Owner : ret[o] \in {"no", "done"}

ExitRetiresParked(o) ==
  /\ At(Exit, "retireParked") /\ o \in parked /\ NothingRetiring
  /\ parked' = parked \ {o}
  /\ BeginRetirement({o}, "idleShutdown")
  /\ Cancel(o)
  /\ UNCHANGED <<admission, writing, identity, sessions, sess, life, exiting,
                 pc, intents, next, old, forks>>

ExitEnds == /\ At(Exit, "retireParked") /\ parked = {} /\ NothingRetiring
            /\ Finish(Exit)

----------------------------------------------------------------------------
Retire(o) == RetireIdle(o) \/ RetireFlush(o) \/ RetireDispose(o)

\* What an intent does once it has been asked for.
Proceed(p) ==
  \/ RequestNew(p)
  \/ StartSwitch(p) \/ StartNew(p) \/ StartPlain(p) \/ Drain(p)
  \/ SwitchBody(p) \/ PlainBody(p) \/ Prepare(p) \/ NewBody(p)
  \/ QuiesceEnds(p) \/ FlushOldEnds(p) \/ Open(p) \/ AwaitPin(p)
  \/ Resumed(p) \/ ResumeFails(p)
  \/ DispatchNew(p) \/ DispatchFirst(p) \/ Created(p) \/ CreateFails(p)
  \/ OrdinaryCommit(p) \/ Released(p) \/ FirstCommit(p)
  \/ RetireOld(p) \/ RetireOldEnds(p) \/ ChildIdle(p) \/ SurfaceReady(p)
  \/ HostFork(p) \/ ForkSettles(p) \/ AdoptFork(p) \/ CloseWindow(p) \/ Leave(p)

ExitProceeds ==
  \/ ExitPrepares \/ ExitRetires \/ ExitForks \/ ExitSettlements \/ ExitQueues
  \/ StartPlain(Exit) \/ Drain(Exit)
  \/ ExitRetiresCurrent \/ ExitCurrentGone
  \/ (\E o \in Owner : ExitRetiresParked(o)) \/ ExitEnds

Request(p) ==
  \/ \E k \in Kinds, c \in BOOLEAN : Choose(p, k, c)
  \/ \E s \in Session : RequestSwitch(p, s) \/ PickSession(p, s)
  \/ RequestRewind(p) \/ Dismiss(p)
  \/ RequestFirst(p) \/ RequestPlain(p) \/ RequestFork(p)

Next == \/ \E p \in Op : Request(p) \/ Proceed(p)
        \/ Interrupt \/ ExitBegins \/ ExitProceeds
        \/ \E o \in Owner : TurnStarts(o) \/ TurnEnds(o) \/ Retire(o)
        \/ \E w \in Writer : AdmitWriter(w) \/ LeaveWriter(w)

SafeSpec == Init /\ [][Next]_vars

\* Calls of the Host settle, microtasks run and an Agent that was asked to stop
\* stops.  Nothing makes a turn end that nobody stopped, and a write may wait
\* for the turn of its owner.
Fairness ==
  /\ \A p \in Op : /\ WF_vars(Proceed(p))
                   /\ WF_vars(/\ p \in window
                              /\ \/ Dismiss(p)
                                 \/ \E s \in Session : RequestSwitch(p, s))
  /\ \A o \in Owner : WF_vars(Retire(o)) /\ WF_vars(turn[o] = "stopping" /\ TurnEnds(o))
  /\ \A w \in Writer : WF_vars(/\ writing[w] # None => turn[writing[w]] # "running"
                               /\ LeaveWriter(w))
  /\ WF_vars(ExitProceeds)

Spec == SafeSpec /\ Fairness

\* The user does not leave turns running for ever.
TurnsEnd == \A o \in Owner : WF_vars(TurnEnds(o))

----------------------------------------------------------------------------
(* Safety.                                                                 *)

\* The owner on the surface holds its lease and nobody retires it, until the
\* exit reaches it: a commit publishes only live owners and a retirement never
\* takes the owner that a later transition made current.
SurfaceIsAlive ==
  cur # None /\ pc[Exit] \notin {"retireCurrent", "retireParked", "done"}
    => life[cur] = "held" /\ ret[cur] = "no"

\* A resume meets no live owner of its session, which the Host would refuse: an
\* open waits for the retirement of a fork's source, a switch to the session on
\* the surface does nothing, and a parked owner is claimed.  The one exception
\* is a fork's child that was neither adopted nor parked when the open looked.
ResumeMeetsNoLiveOwner ==
  \A p \in Op, o \in Owner :
    At(p, "resuming") /\ life[o] = "held" /\ sess[o] = target[p]
      => o # cur /\ ret[o] = "no" /\ \E q \in Op : kind[q] = "fork" /\ next[q] = o

\* Who answers for a live owner: the surface, the pool, its retirement, the
\* intent that acquired it, or the intent that replaced it and retires it later.
Role(k, o) ==
  CASE k = "current"    -> o = cur /\ ret[o] = "no"
    [] k = "parked"     -> o \in parked
    [] k = "retirement" -> ret[o] \notin {"no", "done"}

Acquired(p, o) == next[p] = o /\ pc[p] \in {"attaching", "queued", "drain",
                                             "body", "commit"}
Replaced(p, o) == old[p] = o /\ (At(p, "flushNew") \/ p \in deferred)

Keepers(o) == {k \in {"current", "parked", "retirement"} : Role(k, o)}
                \union {<<p, "acquired">> : p \in {q \in Op : Acquired(q, o)}}
                \union {<<p, "replaced">> : p \in {q \in Op : Replaced(q, o)}}

\* Exactly one of them does at any time: a live owner is neither forgotten (its
\* lease would block the session for ever) nor released twice.
OneKeeperPerOwner ==
  \A o \in Owner : /\ life[o] = "held" => Cardinality(Keepers(o)) = 1
                   /\ life[o] # "held" => Keepers(o) = {}
                   /\ ret[o] # "twice"

\* A write in progress keeps the owner it was admitted on: nothing replaces or
\* retires that owner before the write has left the barrier.
WritesKeepTheirOwner ==
  \A w \in Writer :
    writing[w] # None => writing[w] = cur /\ ret[writing[w]] = "no"

\* Once the exit has begun an Agent is cancelled at most once, whichever of the
\* pre-cancel, the abort listener, a late retirement, the command window or the
\* shutdown gets there first (a second one hits a dead inbox projection).
AtMostOneShutdownCancel == \A o \in Owner : late[o] <= 1

\* When the retirement of the program has ended, no lease is left behind: not by
\* the pool, a late fork, a queued command retirement or a late navigation.
ExitLeavesNothing ==
  At(Exit, "done") => \A o \in Owner : life[o] # "held"

\* A navigation that waits for a pin inside the gate never waits for what waits
\* for the gate: neither for a fork that is queued behind it nor for a source
\* retirement that waits for a command that is queued behind it.
InLine == {line[i] : i \in DOMAIN line}

GateNeverWaitsForItself ==
  \A p \in Op : At(p, "awaitPin") =>
    \A q \in pins : seen[q].session = target[p] =>
      /\ q \notin InLine
      /\ q \in deferred => window \cap InLine = {}

\* An intent replaces only the owner its user saw when he asked: a stale Browser
\* row, a stale /new and a rewind picker of an earlier generation of the same
\* session (A -> B -> A) publish nothing.
Publishes(p) == cur' # cur /\ pc'[p] # pc[p]

ReplacesOnlyWhatItSaw ==
  [][\A p \in Op : kind[p] \in {"switch", "new", "fork"} /\ Publishes(p)
       => cur = seen[p].own]_vars

----------------------------------------------------------------------------
(* Liveness and refinement.                                                *)

\* A navigation at the head of the gate gets past its drain, although a turn of
\* the session it leaves runs for ever and a write waits for that turn: the stop
\* comes before the drain.
HeadsLine(p) == line # <<>> /\ Head(line) = p

NavigationSettles ==
  \A p \in Op : kind[p] \in {"switch", "new"} /\ At(p, "queued") /\ HeadsLine(p)
                  ~> pc[p] \in {"flushNew", "leave", "done"}

\* The exit ends: every ledger it waits for drains, with the gate and the pins
\* in whatever state they were.
ExitCompletes == exiting ~> At(Exit, "done")

\* A fork gives its pin back, whatever becomes of it, unless a turn runs for ever.
PinsAreReleased == TurnsEnd => \A p \in Op : p \in pins ~> p \notin pins

RoleOf(o) ==
  IF life[o] # "held" THEN life[o]
  ELSE IF ret[o] # "no" \/ (\E p \in Op : Replaced(p, o)) THEN "leaving"
  ELSE IF o = cur THEN "current"
  ELSE "spare"

Lease == INSTANCE SessionLease
           WITH role <- [o \in Owner |-> RoleOf(o)], of <- sess

\* Every step of the runtime is a step of the lease protocol or changes no lease.
ImplementsSessionLease == Lease!Spec
============================================================================
