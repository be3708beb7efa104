------------------------ MODULE SessionRuntime_proofs -----------------------
(***************************************************************************)
(* The safety of SessionRuntime for every finite set of intents, every set *)
(* of writers and every number of stored sessions: each action is one of   *)
(* the kinds of step that keep the inductive invariant, so the invariant   *)
(* holds, and with it the invariants that TLC checks on small sets, the    *)
(* property of its commits and the refinement of SessionLease.             *)
(***************************************************************************)
EXTENDS SessionRuntime_owners

-----------------------------------------------------------------------------
\* Actions that ask and wait.

\* Types.

AgentsOK == /\ turn \in [Owner -> {"idle", "running", "stopping"}]
            /\ late \in [Owner -> Nat]
            /\ cancelled \in SUBSET Owner

(* Requests to stop keep the types of the Agents.                          *)
LEMMA AgentTypes ==
  ASSUME TypeOK, NEW o \in Owner,
         \/ UNCHANGED agents \/ Cancel(o) \/ CancelShutdown(o)
         \/ CancelRetired(o) \/ WaitIdle(o)
  PROVE  AgentsOK'
<1>1. CASE UNCHANGED agents
  BY <1>1 DEF TypeOK, AgentsOK, agents
<1>2. CASE Cancel(o)
  BY <1>2 DEF TypeOK, AgentsOK, Cancel, Stopped
<1>3. CASE CancelShutdown(o)
  BY <1>1, <1>3 DEF TypeOK, AgentsOK, CancelShutdown, Stopped
<1> QED
  BY <1>1, <1>2, <1>3 DEF CancelRetired, WaitIdle

(* Nothing but Agents and writes changes.                                  *)
LEMMA QuietTypes == ASSUME TypeOK, UNCHANGED agents PROVE AgentsOK'
BY DEF TypeOK, AgentsOK, agents

(* The start of retirements keeps the type of their states.                *)
LEMMA RetireTypes ==
  ASSUME TypeOK, NEW S, NEW phase \in {"idle", "idleShutdown"}, BeginRetirement(S, phase)
  PROVE  ret' \in [Owner -> RetPhase]
BY DEF TypeOK, BeginRetirement, RetPhase

(* Joining or leaving the line keeps its type.                             *)
LEMMA LineTypes ==
  ASSUME TypeOK
  PROVE  /\ \A t \in Task : Append(line, t) \in Seq(Task)
         /\ line # <<>> => Tail(line) \in Seq(Task)
BY DEF TypeOK

(* A move keeps the type of the program counters.                          *)
LEMMA GotoTypes ==
  ASSUME TypeOK, NEW t \in Task, NEW s \in OpState, Goto(t, s)
  PROVE  pc' \in [Task -> OpState] /\ pc'[t] = s
BY DEF TypeOK, Goto

-----------------------------------------------------------------------------
(* A move inside a transition keeps the types.                             *)
LEMMA WalkTypes ==
  ASSUME TypeOK, NEW p \in Op, Walks(p), AgentsOK', gen' \in Nat
  PROVE  TypeOK'
<1> USE OwnerFacts
<1>1. pc'[p] \in OpState
  BY DEF Walks, Walk, OpState
<1>2. pc' \in [Task -> OpState]
  BY <1>1, GotoTypes DEF Walks
<1> QED
  BY <1>2 DEF Walks, AgentsOK, TypeOK, owners, intents, forks

(* Steps inside the gate that acquire, publish and release nothing.        *)
LEMMA QuietWalks ==
  ASSUME IInv, NEW p \in Op,
         \/ Drain(p) \/ Prepare(p) \/ QuiesceEnds(p) \/ FlushOldEnds(p)
         \/ AwaitPin(p) \/ ResumeFails(p) \/ DispatchNew(p) \/ DispatchFirst(p)
         \/ CreateFails(p) \/ Released(p) \/ ChildIdle(p) \/ SurfaceReady(p)
  PROVE  IInv' /\ Walks(p)
<1> USE OwnerFacts
<1>1. \A s \in OpState : Goto(p, s) => pc'[p] = s
  BY DEF IInv, TypeOK, Goto
<1>2. Walk(p) /\ Goto(p, pc'[p])
  <2> USE <1>1 DEF At, OpState, Step
  <2>1. CASE Drain(p)
    BY <2>1 DEF Drain, Walk
  <2>2. CASE Prepare(p)
    BY <2>2 DEF Prepare, Walk
  <2>3. CASE QuiesceEnds(p) \/ FlushOldEnds(p)
    BY <2>3 DEF QuiesceEnds, FlushOldEnds, Walk
  <2>4. CASE AwaitPin(p) \/ ResumeFails(p)
    BY <2>4 DEF AwaitPin, ResumeFails, Walk
  <2>5. CASE DispatchNew(p) \/ DispatchFirst(p) \/ CreateFails(p)
    BY <2>5 DEF DispatchNew, DispatchFirst, CreateFails, Walk
  <2>6. CASE Released(p) \/ ChildIdle(p) \/ SurfaceReady(p)
    BY <2>6 DEF Released, ChildIdle, SurfaceReady, Walk
  <2> QED
    BY <2>1, <2>2, <2>3, <2>4, <2>5, <2>6
<1>3. /\ UNCHANGED <<line, frozen, writing, cur, epoch, owners, ret, exiting, intents,
                     next, old, forks, agents>>
      /\ gen' = gen \/ (pc[p] = "childIdle" /\ gen' \in {gen, gen + 1})
  <2> USE DEF Step, admission, identity, At
  <2>1. CASE Drain(p) \/ Prepare(p) \/ QuiesceEnds(p) \/ FlushOldEnds(p)
    BY <2>1 DEF Drain, Prepare, QuiesceEnds, FlushOldEnds
  <2>2. CASE \/ AwaitPin(p) \/ ResumeFails(p) \/ DispatchNew(p) \/ DispatchFirst(p)
             \/ CreateFails(p) \/ Released(p) \/ SurfaceReady(p)
    BY <2>2 DEF AwaitPin, ResumeFails, DispatchNew, DispatchFirst, CreateFails, Released,
                SurfaceReady
  <2>3. CASE ChildIdle(p)
    BY <2>3 DEF ChildIdle, Bumped
  <2> QED
    BY <2>1, <2>2, <2>3
<1>4. Walks(p)
  BY <1>2, <1>3, AskNobody DEF Walks
<1>5. TypeOK'
  <2>1. gen' \in Nat
    BY <1>3 DEF IInv, TypeOK
  <2>2. AgentsOK'
    BY <1>3, QuietTypes DEF IInv
  <2> QED
    BY <1>4, <2>1, <2>2, WalkTypes DEF IInv
<1> QED
  BY <1>4, <1>5, WalkKeeps

-----------------------------------------------------------------------------
(* The wait for a new owner; the wait for a child ends with its retirement *)
(* of the replaced one.                                                    *)
LEMMA RetireOldEndsStep ==
  ASSUME IInv, NEW p \in Op, RetireOldEnds(p)
  PROVE  IInv' /\ Walks(p)
<1> USE OwnerFacts
<1>1. pc[p] = "retireOld" /\ Goto(p, "childIdle") /\ ret[old[p]] = "done" /\ WaitIdle(next[p])
  BY DEF RetireOldEnds, At
<1>2. next[p] = cur /\ next[p] \in Owner /\ cur # None
  BY <1>1 DEF IInv, LocalInv, Published, TypeOK
<1>3. pc'[p] = "childIdle"
  BY <1>1, GotoFacts DEF IInv
<1>4. Asked({cur}) /\ AgentsOK'
  BY <1>1, <1>2, AskByWait, AgentTypes DEF IInv
<1>5. Walks(p) /\ gen' = gen
  BY <1>1, <1>2, <1>3, <1>4 DEF RetireOldEnds, Walks, Walk, Published, admission, identity
<1> QED
  BY <1>4, <1>5, WalkTypes, WalkKeeps DEF IInv, TypeOK

(* The ways of open that retire nothing.                                   *)
LEMMA OpenWalks ==
  ASSUME IInv, NEW p \in Op, At(p, "create"), kind[p] \in {"switch", "pick"},
         \/ Goto(p, "leave")
         \/ Goto(p, "awaitPin") /\ \A o \in parked : sess[o] # target[p],
         UNCHANGED <<admission, writing, identity, agents, owners,
                     ret, exiting, intents, next, old, forks>>
  PROVE  IInv' /\ Walks(p)
<1> USE OwnerFacts
<1>1. \A s \in OpState : Goto(p, s) => pc'[p] = s
  BY DEF IInv, TypeOK, Goto
<1>2. Walk(p) /\ Goto(p, pc'[p])
  BY <1>1 DEF At, Walk, OpState
<1>3. Walks(p) /\ gen' = gen
  BY <1>2, AskNobody DEF Walks, admission, identity
<1> QED
  BY <1>3, QuietTypes, WalkTypes, WalkKeeps DEF IInv, TypeOK

-----------------------------------------------------------------------------
\* Starting and ending.

(* The start of a transition keeps the types.                              *)
LEMMA BeginTypes ==
  ASSUME TypeOK, NEW p \in Op, Begins(p), AgentsOK', epoch' \in Nat,
         seen' = seen \/ seen' = [seen EXCEPT ![p] = Capture]
  PROVE  TypeOK'
<1> USE OwnerFacts
<1>1. pc' \in [Task -> OpState]
  BY GotoTypes DEF Begins, OpState
<1>2. Capture \in [own : Owner \union {None}, gen : Nat,
                   session : Session \union {None}, epoch : Nat]
  BY DEF Capture, SessionOf, TypeOK
<1>3. seen' \in [Op -> [own : Owner \union {None}, gen : Nat,
                        session : Session \union {None}, epoch : Nat]]
  BY <1>2 DEF TypeOK
<1> QED
  BY <1>1, <1>3 DEF Begins, AgentsOK, TypeOK, owners, forks

(* The end of a transition keeps the types.                                *)
LEMMA QuitTypes ==
  ASSUME IInv, NEW p \in Op, Quits(p), AgentsOK'
  PROVE  TypeOK'
<1> USE OwnerFacts
<1>1. pc' \in [Task -> OpState]
  BY GotoTypes DEF Quits, EndTask, OpState, IInv
<1>2. Capture \in [own : Owner \union {None}, gen : Nat,
                   session : Session \union {None}, epoch : Nat]
  BY DEF Capture, SessionOf, IInv, TypeOK
<1>3. seen' \in [Op -> [own : Owner \union {None}, gen : Nat,
                        session : Session \union {None}, epoch : Nat]]
  BY <1>2 DEF IInv, TypeOK, Quits
<1>4. line # <<>>
  <2>1. CASE IsHead(p)
    BY <2>1 DEF IsHead
  <2>2. CASE pc[p] \in {"leave", "body"}
    BY <2>2, StartedIsHead DEF IInv, Started
  <2> QED
    BY <2>1, <2>2 DEF Quits
<1>5. line' \in Seq(Task) /\ frozen' = FALSE /\ pins' \in SUBSET Op /\ epoch' \in Nat
  BY <1>4, LineTypes DEF Quits, EndTask, IInv, TypeOK
<1> QED
  BY <1>1, <1>3, <1>5 DEF Quits, AgentsOK, IInv, TypeOK, owners

(* Leaving the gate ends the transition.                                   *)
LEMMA LeaveStep ==
  ASSUME IInv, NEW p \in Op,
         \/ Leave(p) \/ PlainBody(p)
         \/ (At(p, "body") /\ kind[p] \in {"switch", "pick"} /\ Finish(p))
  PROVE  IInv' /\ Quits(p)
<1>1. /\ Finish(p)
      /\ pc[p] = "leave" \/ (pc[p] = "body" /\ kind[p] \in {"plain", "switch", "pick"})
  BY DEF Leave, PlainBody, At
<1>2. Quits(p)
  BY <1>1, AskNobody DEF Finish, Quits, identity, intents
<1>3. AgentsOK'
  BY <1>1, QuietTypes DEF Finish, IInv
<1> QED
  BY <1>2, <1>3, QuitTypes, QuitKeeps

(* The call of a transition that stops nobody.                             *)
LEMMA StartPlainStep ==
  ASSUME IInv, NEW p \in Op, StartPlain(p)
  PROVE  IInv' /\ Begins(p)
<1>1. kind[p] \in {"first", "fork", "plain"}
  BY OwnerFacts DEF StartPlain
<1>2. Begins(p) /\ epoch' = epoch /\ seen' = seen
  BY <1>1, AskNobody DEF StartPlain, Begins, identity, intents
<1>3. AgentsOK'
  BY QuietTypes DEF StartPlain, IInv
<1> QED
  BY <1>2, <1>3, BeginTypes, BeginKeeps DEF IInv, TypeOK

(* The stop of the owner that is left, before the exit began.              *)
LEMMA StopAsksNobody ==
  ASSUME TypeOK, NavigationStop \/ (~exiting /\ cur # None /\ Cancel(cur))
  PROVE  Asked({}) /\ AgentsOK'
<1>1. CASE UNCHANGED agents
  BY <1>1, AskNobody, QuietTypes
<1>2. CASE ~exiting /\ cur # None /\ Cancel(cur)
  <2>1. cur \in Owner
    BY <1>2 DEF TypeOK
  <2> QED
    BY <1>2, <2>1, AskByCancel, AgentTypes DEF Asked
<1> QED
  BY <1>1, <1>2 DEF NavigationStop

(* The call of a switch or a pick, which stops the owner it leaves.        *)
LEMMA StartSwitchStep ==
  ASSUME IInv, NEW p \in Op, StartSwitch(p)
  PROVE  IInv' /\ (Begins(p) \/ Quits(p))
<1> DEFINE scope == IF kind[p] = "pick" THEN Capture ELSE seen[p]
           refused == ~IsScopeCurrent(scope) \/ SessionOf(cur) = target[p]
<1>1. /\ IsHead(p) /\ kind[p] \in {"switch", "pick"}
      /\ UNCHANGED <<writing, cur, gen, owners, ret, exiting, kind, target, next,
                     old, window, deferred, handed>>
  BY DEF StartSwitch
<1>2. TypeOK
  BY DEF IInv
<1>3. CASE refused
  <2>1. EndTask(p) /\ UNCHANGED <<epoch, agents, seen>>
    BY <1>3 DEF StartSwitch
  <2>2. Quits(p)
    BY <1>1, <2>1, AskNobody DEF Quits
  <2> QED
    BY <1>2, <2>1, <2>2, QuietTypes, QuitTypes, QuitKeeps
<1>4. CASE ~refused
  <2>1. /\ epoch' = IF kind[p] = "switch" THEN epoch + 1 ELSE epoch
        /\ seen' = [seen EXCEPT ![p] = scope]
        /\ FreezeAndStop(p)
    BY <1>4 DEF StartSwitch
  <2>2. epoch' \in Nat /\ epoch' \in {epoch, epoch + 1}
    BY <1>2, <2>1 DEF TypeOK
  <2>3. /\ kind[p] = "switch" => seen' = seen /\ IsScopeCurrent(seen[p])
        /\ kind[p] = "pick" => seen' = [seen EXCEPT ![p] = Capture]
        /\ SessionOf(cur) # target[p]
    BY <1>1, <1>2, <1>4, <2>1 DEF TypeOK
  <2>4. CASE /\ frozen' = TRUE /\ NavigationStop /\ Goto(p, "drain") /\ UNCHANGED <<line, pins>>
    <3>1. Asked({}) /\ AgentsOK'
      BY <1>2, <2>4, StopAsksNobody
    <3>2. Begins(p)
      BY <1>1, <2>1, <2>3, <2>4, <3>1 DEF Begins, forks
    <3> QED
      BY <1>1, <1>2, <2>2, <2>3, <3>1, <3>2, BeginTypes, BeginKeeps
  <2>5. CASE ~exiting /\ cur # None /\ Cancel(cur) /\ EndTask(p)
    <3>1. Asked({}) /\ AgentsOK'
      BY <1>2, <2>5, StopAsksNobody
    <3>2. Quits(p)
      BY <1>1, <2>2, <2>3, <2>5, <3>1 DEF Quits
    <3> QED
      BY <3>1, <3>2, QuitTypes, QuitKeeps
  <2> QED
    BY <2>1, <2>4, <2>5 DEF FreezeAndStop
<1> QED
  BY <1>3, <1>4

(* The call of /new, which stops the owner it leaves.                      *)
LEMMA StartNewStep ==
  ASSUME IInv, NEW p \in Op, StartNew(p)
  PROVE  IInv' /\ (Begins(p) \/ Quits(p))
<1>1. /\ IsHead(p) /\ kind[p] = "new"
      /\ UNCHANGED <<writing, cur, gen, epoch, owners, ret, exiting, kind, target, seen, next,
                     old, window, deferred, handed>>
  BY DEF StartNew, identity, intents
<1>2. TypeOK
  BY DEF IInv
<1>3. CASE ~exiting /\ ~IsScopeCurrent(seen[p])
  <2>1. EndTask(p) /\ UNCHANGED agents
    BY <1>3 DEF StartNew
  <2>2. Quits(p)
    BY <1>1, <2>1, AskNobody DEF Quits
  <2> QED
    BY <1>2, <2>1, <2>2, QuietTypes, QuitTypes, QuitKeeps
<1>4. CASE exiting \/ IsScopeCurrent(seen[p])
  <2>1. FreezeAndStop(p)
    BY <1>4 DEF StartNew
  <2>2. CASE /\ frozen' = TRUE /\ NavigationStop /\ Goto(p, "drain") /\ UNCHANGED <<line, pins>>
    <3>1. Asked({}) /\ AgentsOK'
      BY <1>2, <2>2, StopAsksNobody
    <3>2. Begins(p)
      BY <1>1, <1>4, <2>2, <3>1 DEF Begins, forks
    <3> QED
      BY <1>1, <1>2, <3>1, <3>2, BeginTypes, BeginKeeps DEF TypeOK
  <2>3. CASE ~exiting /\ cur # None /\ Cancel(cur) /\ EndTask(p)
    <3>1. Asked({}) /\ AgentsOK'
      BY <1>2, <2>3, StopAsksNobody
    <3>2. Quits(p)
      BY <1>1, <2>3, <3>1 DEF Quits
    <3> QED
      BY <3>1, <3>2, QuitTypes, QuitKeeps
  <2> QED
    BY <2>1, <2>2, <2>3 DEF FreezeAndStop
<1> QED
  BY <1>3, <1>4

-----------------------------------------------------------------------------
\* Actions up to the commit.

\* Asking.

(* Joining the line keeps the types.                                       *)
LEMMA JoinTypes ==
  ASSUME IInv, NEW p \in Op, Joins(p), AgentsOK',
         kind' \in [Op -> (AllKinds \ {"exit"}) \union {"none"}],
         target' \in [Op -> Session \union {None}]
  PROVE  TypeOK'
<1> USE OwnerFacts
<1>1. pc' \in [Task -> OpState] /\ line' \in Seq(Task)
  BY GotoTypes, LineTypes DEF Joins, Enqueue, OpState, IInv
<1>2. epoch' \in Nat
  BY DEF Joins, IInv, TypeOK
<1> QED
  BY <1>1, <1>2 DEF Joins, AgentsOK, IInv, TypeOK, owners, forks

(* Giving up keeps the types.                                              *)
LEMMA WithdrawTypes ==
  ASSUME IInv, NEW p \in Op, Withdraws(p), AgentsOK',
         target' \in [Op -> Session \union {None}]
  PROVE  TypeOK'
<1> USE OwnerFacts
<1>1. pc' \in [Task -> OpState]
  BY GotoTypes DEF Withdraws, OpState, IInv
<1>2. line' \in Seq(Task) /\ frozen' \in BOOLEAN
  <2>1. CASE UNCHANGED <<line, frozen>>
    BY <2>1 DEF IInv, TypeOK
  <2>2. CASE pc[p] = "body" /\ line' = Tail(line) /\ frozen' = FALSE
    <3>1. line # <<>>
      BY <2>2, StartedIsHead DEF IInv, Started
    <3> QED
      BY <2>2, <3>1, LineTypes DEF IInv
  <2> QED
    BY <2>1, <2>2 DEF Withdraws
<1>3. parked' \in SUBSET Owner
  <2>1. CASE parked' = parked
    BY <2>1 DEF IInv, TypeOK
  <2>2. CASE /\ parked' = parked \union {next[p]}
             /\ pc[p] = "attaching" \/ (pc[p] = "body" /\ kind[p] = "fork")
    <3>1. kind[p] = "fork"
      BY <2>2 DEF IInv, PathInv, TypeOK, AllKinds, Early, Before, Late, Published
    <3>2. next[p] # None
      BY <2>2, <3>1 DEF IInv, LocalInv, Early
    <3> QED
      BY <2>2, <3>2 DEF IInv, TypeOK
  <2> QED
    BY <2>1, <2>2 DEF Withdraws
<1> QED
  BY <1>1, <1>2, <1>3 DEF Withdraws, AgentsOK, IInv, TypeOK, identity

(* A capture keeps the types.                                              *)
LEMMA LookTypes ==
  ASSUME IInv, NEW p \in Op, Looks(p), AgentsOK',
         kind' \in [Op -> (AllKinds \ {"exit"}) \union {"none"}],
         seen' \in [Op -> [own : Owner \union {None}, gen : Nat,
                           session : Session \union {None}, epoch : Nat]]
  PROVE  TypeOK'
<1> USE OwnerFacts
<1>1. pc' \in [Task -> OpState]
  BY GotoTypes DEF Looks, OpState, IInv
<1>2. epoch' \in Nat /\ pins' \in SUBSET Op /\ window' \in SUBSET Op
  BY DEF Looks, IInv, TypeOK
<1> QED
  BY <1>1, <1>2 DEF Looks, AgentsOK, IInv, TypeOK, owners

(* A capture of the surface has the type of captures.                      *)
LEMMA CaptureType ==
  ASSUME TypeOK
  PROVE  /\ Capture \in [own : Owner \union {None}, gen : Nat,
                         session : Session \union {None}, epoch : Nat]
         /\ Capture.own = cur /\ Capture.session = SessionOf(cur) /\ Capture.epoch = epoch
BY DEF Capture, SessionOf, TypeOK

(* The user opens a picker or types a command.                             *)
LEMMA ChooseStep ==
  ASSUME IInv, NEW p \in Op, NEW k \in Kinds, NEW c \in BOOLEAN, Choose(p, k, c)
  PROVE  IInv' /\ Looks(p)
<1> USE OwnerFacts
<1>1. TypeOK
  BY DEF IInv
<1>2. /\ pc[p] = "idle" /\ k \in {"switch", "new", "fork"} /\ ~exiting
      /\ k = "fork" => cur # None /\ ~c
      /\ kind' = [kind EXCEPT ![p] = k]
      /\ seen' = [seen EXCEPT ![p] = Capture]
      /\ Goto(p, "chosen") /\ InWindow(p, c)
      /\ UNCHANGED <<admission, writing, identity, agents, owners, ret, exiting,
                     target, next, old, pins, deferred, handed>>
  BY DEF Choose, At
<1>3. pc'[p] = "chosen"
  BY <1>1, <1>2, GotoFacts
<1>4. /\ kind'[p] = k /\ seen'[p] = Capture
      /\ \A q \in Op \ {p} : kind'[q] = kind[q] /\ seen'[q] = seen[q]
  BY <1>1, <1>2 DEF TypeOK
<1>5. /\ window' = window \/ (window = {} /\ window' = {p})
      /\ k = "fork" => window' = window
  BY <1>2 DEF InWindow, MayOpenWindow
<1>6. Looks(p)
  BY <1>1, <1>2, <1>3, <1>4, <1>5, CaptureType, AskNobody DEF Looks, admission, identity
<1>7. /\ kind' \in [Op -> (AllKinds \ {"exit"}) \union {"none"}]
      /\ seen' \in [Op -> [own : Owner \union {None}, gen : Nat,
                           session : Session \union {None}, epoch : Nat]]
  BY <1>1, <1>2, CaptureType DEF TypeOK, AllKinds
<1> QED
  BY <1>1, <1>2, <1>6, <1>7, QuietTypes, LookTypes, LookKeeps

(* The user asks for a fork.                                               *)
LEMMA RequestForkStep ==
  ASSUME IInv, NEW p \in Op, RequestFork(p)
  PROVE  IInv' /\ Looks(p)
<1> USE OwnerFacts
<1> DEFINE claim == [Capture EXCEPT !.epoch = epoch + 1]
<1>1. TypeOK
  BY DEF IInv
<1>2. /\ pc[p] = "idle" /\ "fork" \in Kinds /\ cur # None /\ ~exiting
      /\ window = {} /\ window' = {p}
      /\ kind' = [kind EXCEPT ![p] = "fork"]
      /\ seen' = [seen EXCEPT ![p] = claim]
      /\ epoch' = epoch + 1 /\ pins' = pins \union {p}
      /\ Goto(p, "forking")
      /\ UNCHANGED <<admission, writing, cur, gen, agents, owners, ret, exiting,
                     target, next, old, deferred, handed>>
  BY DEF RequestFork, ClaimFork, At, InWindow, MayOpenWindow
<1>3. pc'[p] = "forking"
  BY <1>1, <1>2, GotoFacts
<1>4. /\ claim \in [own : Owner \union {None}, gen : Nat,
                    session : Session \union {None}, epoch : Nat]
      /\ claim.own = cur /\ claim.session = SessionOf(cur) /\ claim.epoch = epoch + 1
  BY <1>1 DEF Capture, SessionOf, TypeOK
<1> HIDE DEF claim
<1>5. /\ kind'[p] = "fork" /\ seen'[p] = claim
      /\ \A q \in Op \ {p} : kind'[q] = kind[q] /\ seen'[q] = seen[q]
  BY <1>1, <1>2 DEF TypeOK
<1>6. Looks(p)
  BY <1>1, <1>2, <1>3, <1>4, <1>5, AskNobody DEF Looks, admission
<1>7. /\ kind' \in [Op -> (AllKinds \ {"exit"}) \union {"none"}]
      /\ seen' \in [Op -> [own : Owner \union {None}, gen : Nat,
                           session : Session \union {None}, epoch : Nat]]
  BY <1>1, <1>2, <1>4 DEF TypeOK, AllKinds
<1> QED
  BY <1>1, <1>2, <1>6, <1>7, QuietTypes, LookTypes, LookKeeps

(* The user confirms a rewind, which forks.                                *)
LEMMA RequestRewindStep ==
  ASSUME IInv, NEW p \in Op, RequestRewind(p)
  PROVE  IInv' /\ (Looks(p) \/ Withdraws(p))
<1> USE OwnerFacts
<1> DEFINE claim == [seen[p] EXCEPT !.epoch = epoch + 1]
<1>1. TypeOK
  BY DEF IInv
<1>2. /\ pc[p] = "chosen" /\ kind[p] = "fork"
      /\ UNCHANGED <<admission, writing, cur, gen, agents, owners, ret, exiting,
                     kind, target, next, old, window, deferred, handed>>
  BY DEF RequestRewind, At
<1>3. CASE ~exiting /\ IsNavigationCurrent(seen[p])
  <2>1. /\ seen' = [seen EXCEPT ![p] = claim]
        /\ epoch' = epoch + 1 /\ pins' = pins \union {p}
        /\ Goto(p, "forking")
    BY <1>3 DEF RequestRewind, ClaimFork
  <2>2. pc'[p] = "forking"
    BY <1>1, <2>1, GotoFacts
  <2>3. /\ claim \in [own : Owner \union {None}, gen : Nat,
                      session : Session \union {None}, epoch : Nat]
        /\ claim.own = seen[p].own /\ claim.session = seen[p].session
        /\ claim.epoch = epoch + 1
    <3>1. /\ seen[p] \in [own : Owner \union {None}, gen : Nat,
                           session : Session \union {None}, epoch : Nat]
          /\ epoch + 1 \in Nat
      BY <1>1 DEF TypeOK
    <3> QED
      BY <3>1
  <2> HIDE DEF claim
  <2>4. seen'[p] = claim /\ \A q \in Op \ {p} : seen'[q] = seen[q]
    BY <1>1, <2>1 DEF TypeOK
  <2>5. Looks(p)
    BY <1>2, <1>3, <2>1, <2>2, <2>3, <2>4, AskNobody DEF Looks, admission
  <2>6. seen' \in [Op -> [own : Owner \union {None}, gen : Nat,
                          session : Session \union {None}, epoch : Nat]]
    BY <1>1, <2>1, <2>3 DEF TypeOK
  <2>7. kind' \in [Op -> (AllKinds \ {"exit"}) \union {"none"}]
    BY <1>1, <1>2 DEF TypeOK
  <2> QED
    BY <1>1, <1>2, <2>5, <2>6, <2>7, QuietTypes, LookTypes, LookKeeps
<1>4. CASE ~(~exiting /\ IsNavigationCurrent(seen[p]))
  <2>1. Goto(p, "done") /\ UNCHANGED <<epoch, seen, pins>>
    BY <1>4 DEF RequestRewind
  <2>2. Withdraws(p)
    BY <1>1, <1>2, <2>1, AskNobody DEF Withdraws, admission, identity, owners, IInv, LocalInv
  <2> QED
    BY <1>1, <1>2, <2>2, QuietTypes, WithdrawTypes, WithdrawKeeps DEF TypeOK
<1> QED
  BY <1>3, <1>4

(* The user closes a picker.                                               *)
LEMMA DismissStep ==
  ASSUME IInv, NEW p \in Op, Dismiss(p)
  PROVE  IInv' /\ Withdraws(p)
<1>1. Withdraws(p) /\ target' = target
  BY AskNobody DEF Dismiss, Withdraws, At, admission, owners, intents, forks, IInv, LocalInv
<1>2. AgentsOK'
  BY QuietTypes DEF Dismiss, IInv
<1> QED
  BY <1>1, <1>2, WithdrawTypes, WithdrawKeeps DEF IInv, TypeOK

(* The user confirms a row of the browser.                                 *)
LEMMA RequestSwitchStep ==
  ASSUME IInv, NEW p \in Op, NEW s \in Session, RequestSwitch(p, s)
  PROVE  IInv' /\ (Joins(p) \/ Withdraws(p))
<1> USE OwnerFacts
<1>1. TypeOK
  BY DEF IInv
<1>2. /\ pc[p] = "chosen" /\ kind[p] = "switch" /\ s \in 1..sessions
      /\ target' = [target EXCEPT ![p] = s]
      /\ UNCHANGED <<frozen, writing, identity, agents, owners, ret, exiting,
                     kind, seen, next, old, forks>>
  BY DEF RequestSwitch, At
<1>3. /\ target' \in [Op -> Session \union {None}]
      /\ target'[p] = s /\ \A q \in Op \ {p} : target'[q] = target[q]
  BY <1>1, <1>2 DEF TypeOK
<1>4. sessions \in Nat /\ s <= sessions /\ s # None
  BY <1>1, <1>2 DEF TypeOK, Session, None
<1>5. AgentsOK'
  BY <1>1, <1>2, QuietTypes
<1>6. CASE IsScopeCurrent(seen[p]) /\ ~exiting
  <2>1. Enqueue(p)
    BY <1>6 DEF RequestSwitch
  <2>2. Joins(p)
    BY <1>2, <1>3, <1>4, <1>6, <2>1, AskNobody DEF Joins, identity
  <2> QED
    BY <1>1, <1>2, <1>3, <1>5, <2>2, JoinTypes, JoinKeeps DEF TypeOK
<1>7. CASE ~(IsScopeCurrent(seen[p]) /\ ~exiting)
  <2>1. Goto(p, "done") /\ UNCHANGED line
    BY <1>7 DEF RequestSwitch
  <2>2. Withdraws(p)
    BY <1>2, <1>3, <1>4, <2>1, AskNobody DEF Withdraws, owners, forks
  <2> QED
    BY <1>3, <1>5, <2>2, WithdrawTypes, WithdrawKeeps
<1> QED
  BY <1>6, <1>7

(* The user names a session to resume.                                     *)
LEMMA PickSessionStep ==
  ASSUME IInv, NEW p \in Op, NEW s \in Session, PickSession(p, s)
  PROVE  IInv' /\ Joins(p)
<1> USE OwnerFacts
<1>1. TypeOK
  BY DEF IInv
<1>2. /\ pc[p] = "idle" /\ "pick" \in Kinds /\ s \in 1..sessions
      /\ kind' = [kind EXCEPT ![p] = "pick"]
      /\ target' = [target EXCEPT ![p] = s]
      /\ epoch' = epoch + 1 /\ Enqueue(p)
      /\ UNCHANGED <<frozen, writing, cur, gen, agents, owners, ret, exiting, seen,
                     next, old, forks>>
  BY DEF PickSession, At
<1>3. /\ target' \in [Op -> Session \union {None}]
      /\ kind' \in [Op -> (AllKinds \ {"exit"}) \union {"none"}]
      /\ target'[p] = s /\ kind'[p] = "pick"
      /\ \A q \in Op \ {p} : target'[q] = target[q] /\ kind'[q] = kind[q]
  BY <1>1, <1>2 DEF TypeOK, AllKinds
<1>4. sessions \in Nat /\ s <= sessions /\ s # None
  BY <1>1, <1>2 DEF TypeOK, Session, None
<1>5. AgentsOK'
  BY <1>1, <1>2, QuietTypes
<1>6. Joins(p)
  BY <1>2, <1>3, <1>4, AskNobody DEF Joins
<1> QED
  BY <1>3, <1>5, <1>6, JoinTypes, JoinKeeps

(* The command /new reaches the runtime.                                   *)
LEMMA RequestNewStep ==
  ASSUME IInv, NEW p \in Op, RequestNew(p)
  PROVE  IInv' /\ (Joins(p) \/ Withdraws(p))
<1>1. TypeOK
  BY DEF IInv
<1>2. /\ pc[p] = "chosen" /\ kind[p] = "new"
      /\ UNCHANGED <<frozen, writing, identity, agents, owners, ret, exiting,
                     kind, target, seen, next, old, forks>>
  BY DEF RequestNew, At, intents
<1>3. AgentsOK' /\ target[p] <= sessions
  BY <1>1, <1>2, QuietTypes DEF IInv, LocalInv
<1>4. CASE IsScopeCurrent(seen[p]) /\ Enqueue(p)
  <2>1. Joins(p)
    BY <1>2, <1>3, <1>4, AskNobody DEF Joins, identity, owners
  <2> QED
    BY <1>1, <1>2, <1>3, <2>1, JoinTypes, JoinKeeps DEF TypeOK
<1>5. CASE Goto(p, "done") /\ UNCHANGED line
  <2>1. Withdraws(p)
    BY <1>2, <1>3, <1>5, AskNobody DEF Withdraws, owners, forks
  <2> QED
    BY <1>1, <1>2, <1>3, <2>1, WithdrawTypes, WithdrawKeeps DEF TypeOK
<1> QED
  BY <1>4, <1>5 DEF RequestNew

(* The first prompt, or any other transition, is asked for.                *)
LEMMA RequestFirstStep ==
  ASSUME IInv, NEW p \in Op, RequestFirst(p) \/ RequestPlain(p)
  PROVE  IInv' /\ Joins(p)
<1>1. TypeOK
  BY DEF IInv
<1>2. PICK k \in {"first", "plain"} \intersect Kinds :
        /\ pc[p] = "idle" /\ ~exiting /\ kind' = [kind EXCEPT ![p] = k] /\ Enqueue(p)
        /\ UNCHANGED <<frozen, writing, identity, agents, owners, ret, exiting,
                       target, seen, next, old, forks>>
  BY DEF RequestFirst, RequestPlain, At
<1>3. AgentsOK' /\ target[p] <= sessions /\ pc[Exit] # "done"
  BY <1>1, <1>2, QuietTypes DEF IInv, LocalInv, ExitInv
<1>4. /\ kind' \in [Op -> (AllKinds \ {"exit"}) \union {"none"}]
      /\ kind'[p] = k /\ \A q \in Op \ {p} : kind'[q] = kind[q]
  BY <1>1, <1>2 DEF TypeOK, AllKinds
<1>5. Joins(p)
  BY <1>2, <1>3, <1>4, AskNobody DEF Joins, identity, owners
<1> QED
  BY <1>1, <1>2, <1>3, <1>4, <1>5, JoinTypes, JoinKeeps DEF TypeOK

(* What became of a fork at the Host reaches the runtime.                  *)
LEMMA ForkSettlesStep ==
  ASSUME IInv, NEW p \in Op, ForkSettles(p)
  PROVE  IInv' /\ (Joins(p) \/ Withdraws(p))
<1>1. TypeOK
  BY DEF IInv
<1>2. /\ pc[p] = "attaching"
      /\ UNCHANGED <<frozen, writing, identity, agents, sessions, sess, life, ret,
                     exiting, kind, target, seen, next, old, window, deferred, handed>>
  BY DEF ForkSettles, At, intents
<1>3. AgentsOK' /\ target[p] <= sessions
  BY <1>1, <1>2, QuietTypes DEF IInv, LocalInv
<1>4. CASE IsNavigationCurrent(seen[p]) /\ Enqueue(p) /\ UNCHANGED <<parked, pins>>
  <2>1. kind[p] = "fork"
    BY <1>1, <1>2 DEF IInv, PathInv, TypeOK, AllKinds, Early, Before, Late, Published
  <2>2. Joins(p)
    BY <1>2, <1>3, <1>4, <2>1, AskNobody DEF Joins, identity, owners, forks
  <2> QED
    BY <1>1, <1>2, <1>3, <2>2, JoinTypes, JoinKeeps DEF TypeOK
<1>5. CASE /\ parked' = parked \union {next[p]}
           /\ Goto(p, "done") /\ pins' = pins \ {p} /\ UNCHANGED line
  <2>1. Withdraws(p)
    BY <1>2, <1>3, <1>5, AskNobody DEF Withdraws
  <2> QED
    BY <1>1, <1>2, <1>3, <2>1, WithdrawTypes, WithdrawKeeps DEF TypeOK
<1> QED
  BY <1>4, <1>5 DEF ForkSettles

-----------------------------------------------------------------------------
\* Acquiring.

(* An acquisition keeps the types.                                         *)
LEMMA GetTypes ==
  ASSUME IInv, NEW p \in Op, NEW s \in Session, Gets(p, s), next[p] = None
  PROVE  TypeOK'
<1> USE OwnerFacts
<1>1. pc' \in [Task -> OpState]
  BY GotoTypes DEF Gets, OpState, IInv
<1>2. Fresh \in Owner /\ Fresh = Cardinality({x \in Owner : life[x] # "unborn"}) + 1
  BY FreshOwner DEF Fresh, Born
<1>3. /\ sess' \in [Owner -> Session \union {None}]
      /\ life' \in [Owner -> {"unborn", "held", "gone"}]
      /\ next' \in [Op -> Owner \union {None}] /\ next'[p] \in Owner
  BY <1>2 DEF Gets, Acquire, IInv, TypeOK
<1>4. parked' \in SUBSET Owner /\ sessions' \in Session
  BY <1>3 DEF Gets, IInv, TypeOK
<1> QED
  BY <1>1, <1>3, <1>4 DEF Gets, IInv, TypeOK, admission, identity, agents, intents, forks

(* There is room for one more session: every intent makes at most one.     *)
LEMMA RoomForSession ==
  ASSUME IInv, NEW p \in Op, next[p] = None
  PROVE  sessions + 1 \in Session
<1>1. IsFiniteSet(Op) /\ Cardinality(Op) \in Nat /\ Stored \in Nat
  BY BoundsAssumption, FS_CardinalityType
<1>2. Users \subseteq Op \ {p}
  BY DEF Users
<1>3. /\ IsFiniteSet(Op \ {p}) /\ Cardinality(Op \ {p}) = Cardinality(Op) - 1
  BY <1>1, FS_RemoveElement
<1>4. IsFiniteSet(Users) /\ Cardinality(Users) <= Cardinality(Op) - 1 /\ Cardinality(Users) \in Nat
  BY <1>2, <1>3, FS_Subset, FS_CardinalityType
<1>5. sessions \in Nat /\ sessions >= 1 /\ sessions <= Stored + Cardinality(Users)
  BY DEF IInv, TypeOK, CountInv, Session
<1> QED
  BY <1>1, <1>4, <1>5 DEF Session

(* An intent that has no owner yet obtains one.                            *)
Obtains(p) == next[p] = None /\ \E s \in Session : Gets(p, s)

(* The Host has resumed a session.                                         *)
LEMMA ResumedStep ==
  ASSUME IInv, NEW p \in Op, Resumed(p)
  PROVE  IInv' /\ Obtains(p)
<1>1. pc[p] = "resuming" /\ Gets(p, target[p])
  BY DEF Resumed, Gets, At, owners
<1>2. kind[p] \in {"switch", "pick"}
  BY <1>1 DEF IInv, PathInv, TypeOK, AllKinds, Early, Before, Late, Published
<1>3. next[p] = None /\ target[p] \in Session
  BY <1>1, <1>2 DEF IInv, LocalInv, ScopeInv, Before, TypeOK
<1> QED
  BY <1>1, <1>3, GetTypes, GetKeeps DEF Obtains

(* The Host has created a session.                                         *)
LEMMA CreatedStep ==
  ASSUME IInv, NEW p \in Op, Created(p)
  PROVE  IInv' /\ Obtains(p)
<1>1. pc[p] = "creating" /\ Gets(p, sessions + 1)
  BY DEF Created, Gets, At
<1>2. kind[p] \in {"new", "first"}
  BY <1>1 DEF IInv, PathInv, TypeOK, AllKinds, Early, Before, Late, Published
<1>3. next[p] = None
  BY <1>1, <1>2 DEF IInv, LocalInv, Before
<1> QED
  BY <1>1, <1>3, RoomForSession, GetTypes, GetKeeps DEF Obtains

(* The Host has forked a session.                                          *)
LEMMA HostForkStep ==
  ASSUME IInv, NEW p \in Op, HostFork(p)
  PROVE  IInv' /\ (Obtains(p) \/ Withdraws(p))
<1>1. pc[p] = "forking"
  BY DEF HostFork, At
<1>2. kind[p] = "fork"
  BY <1>1 DEF IInv, PathInv, TypeOK, AllKinds, Early, Before, Late, Published
<1>3. CASE Goto(p, "done") /\ pins' = pins \ {p} /\ UNCHANGED <<sessions, sess, life, next>>
  <2>1. Withdraws(p) /\ target' = target
    BY <1>1, <1>3, AskNobody DEF HostFork, Withdraws, admission, intents, IInv, LocalInv
  <2> QED
    BY <2>1, QuietTypes, WithdrawTypes, WithdrawKeeps DEF HostFork, IInv, TypeOK
<1>4. CASE /\ sessions' = sessions + 1 /\ Acquire(p, sessions + 1)
           /\ Goto(p, "attaching") /\ UNCHANGED pins
  <2>1. Gets(p, sessions + 1)
    BY <1>1, <1>4 DEF HostFork, Gets, forks
  <2>2. next[p] = None
    BY <1>1, <1>2 DEF IInv, LocalInv
  <2> QED
    BY <2>1, <2>2, RoomForSession, GetTypes, GetKeeps DEF Obtains
<1> QED
  BY <1>3, <1>4 DEF HostFork

-----------------------------------------------------------------------------
\* The transition.

(* The turn of a navigation to the owner it leaves keeps the types.        *)
LEMMA TurnTypes ==
  ASSUME IInv, NEW p \in Op, Turns(p), AgentsOK'
  PROVE  TypeOK'
<1> USE OwnerFacts
<1>1. pc' \in [Task -> OpState]
  BY GotoTypes DEF Turns, OpState, IInv
<1>2. old' \in [Op -> Owner \union {None}] /\ epoch' \in Nat
  BY DEF Turns, IInv, TypeOK
<1> QED
  BY <1>1, <1>2 DEF Turns, AgentsOK, IInv, TypeOK, owners, intents, forks

(* The body of a navigation quiesces the owner it leaves.                  *)
LEMMA TransitionStep ==
  ASSUME IInv, NEW p \in Op, BeginTransition(p),
         \/ pc[p] = "body" /\ kind[p] \in {"switch", "pick"} /\ ~exiting
         \/ pc[p] = "resolved" /\ kind[p] = "new"
  PROVE  IInv' /\ Turns(p)
<1> USE OwnerFacts
<1>1. TypeOK
  BY DEF IInv
<1>2. AgentsOK' /\ Goto(p, pc'[p])
      /\ \/ cur = None /\ pc'[p] = "create" /\ Asked({})
         \/ cur # None /\ pc'[p] = "quiesce" /\ Asked({cur})
  <2>1. CASE cur = None
    <3>1. Goto(p, "create") /\ UNCHANGED agents
      BY <2>1 DEF BeginTransition
    <3> QED
      BY <1>1, <2>1, <3>1, GotoFacts, AskNobody, QuietTypes
  <2>2. CASE cur # None
    <3>1. Goto(p, "quiesce") /\ WaitIdle(cur) /\ cur \in Owner
      BY <1>1, <2>2 DEF BeginTransition, TypeOK
    <3>2. Asked({cur}) /\ AgentsOK'
      BY <1>1, <3>1, AskByWait, AgentTypes
    <3> QED
      BY <1>1, <2>2, <3>1, <3>2, GotoFacts
  <2> QED
    BY <2>1, <2>2
<1>3. Turns(p)
  BY <1>2 DEF BeginTransition, Turns, admission
<1> QED
  BY <1>2, <1>3, TurnTypes, TurnKeeps

(* The body of a switch.                                                   *)
LEMMA SwitchBodyStep ==
  ASSUME IInv, NEW p \in Op, SwitchBody(p)
  PROVE  IInv' /\ (Turns(p) \/ Quits(p))
BY LeaveStep, TransitionStep DEF SwitchBody, At

(* The body of /new.                                                       *)
LEMMA NewBodyStep ==
  ASSUME IInv, NEW p \in Op, NewBody(p)
  PROVE  IInv' /\ Turns(p)
BY TransitionStep DEF NewBody, At

(* An open claims a parked owner or dispatches a resume.                   *)
LEMMA OpenStep ==
  ASSUME IInv, NEW p \in Op, Open(p)
  PROVE  IInv' /\ (Walks(p) \/ Claims(p))
<1> USE OwnerFacts
<1> DEFINE mine == {o \in parked : sess[o] = target[p]}
<1>1. /\ At(p, "create") /\ kind[p] \in {"switch", "pick"}
      /\ UNCHANGED <<admission, writing, identity, agents, sessions, sess, life,
                     ret, exiting, intents, old, forks>>
  BY DEF Open
<1>2. CASE Goto(p, "leave") /\ UNCHANGED <<parked, next>>
  BY <1>1, <1>2, OpenWalks DEF owners
<1>3. CASE mine = {} /\ Goto(p, "awaitPin") /\ UNCHANGED <<parked, next>>
  BY <1>1, <1>3, OpenWalks DEF owners
<1>4. CASE \E o \in mine : /\ ~exiting
                           /\ parked' = parked \ {o}
                           /\ next' = [next EXCEPT ![p] = o]
                           /\ Goto(p, "commit")
  <2>1. Claims(p)
    BY <1>1, <1>4 DEF Claims, At
  <2>2. parked' \in SUBSET Owner /\ next' \in [Op -> Owner \union {None}]
    BY <1>4 DEF IInv, TypeOK
  <2>3. pc' \in [Task -> OpState]
    BY <1>4, GotoTypes DEF IInv, OpState
  <2>4. TypeOK'
    BY <1>1, <2>2, <2>3 DEF IInv, TypeOK, admission, identity, agents, intents, forks
  <2> QED
    BY <2>1, <2>4, ClaimKeeps
<1> QED
  BY <1>2, <1>3, <1>4 DEF Open

-----------------------------------------------------------------------------
\* Commits, retirements and the exit.

\* Publishing and retiring.

(* Commits and retirements keep the types.                                 *)
LEMMA CommitTypes ==
  ASSUME IInv, NEW p \in Op, Commits(p) \/ Throws(p) \/ RetiresOld(p) \/ Adopts(p),
         AgentsOK', gen' \in Nat
  PROVE  TypeOK'
<1> USE OwnerFacts
<1>1. TypeOK
  BY DEF IInv
<1>2. pc' \in [Task -> OpState]
  BY <1>1, GotoTypes DEF Commits, Throws, RetiresOld, Adopts, OpState
<1>3. ret' \in [Owner -> RetPhase]
  BY <1>1, RetireTypes DEF Commits, Throws, RetiresOld, Adopts, TypeOK
<1>4. cur' \in Owner \union {None} /\ old' \in [Op -> Owner \union {None}]
  <2>1. next[p] \in Owner \union {None}
    BY <1>1 DEF TypeOK
  <2>2. CASE Commits(p) \/ Throws(p) \/ RetiresOld(p)
    BY <1>1, <2>1, <2>2 DEF Commits, Throws, RetiresOld, TypeOK, identity
  <2>3. CASE Adopts(p)
    BY <1>1, <2>1, <2>3 DEF Adopts, TypeOK
  <2> QED
    BY <2>2, <2>3
<1>5. handed' \in SUBSET Op /\ deferred' \in SUBSET Op
  BY <1>1 DEF Commits, Throws, RetiresOld, Adopts, TypeOK, forks
<1>6. UNCHANGED <<line, frozen, writing, epoch, owners, exiting, intents, next, pins, window>>
  BY DEF Commits, Throws, RetiresOld, Adopts, identity, forks
<1> QED
  BY <1>1, <1>2, <1>3, <1>4, <1>5, <1>6 DEF AgentsOK, TypeOK, owners, intents

(* A commit seam throws.                                                   *)
LEMMA ThrowsStep ==
  ASSUME IInv, NEW p \in Op, CommitThrows(p),
         \/ pc[p] = "commit" /\ kind[p] \in Ordinary
         \/ pc[p] = "body" /\ kind[p] = "fork"
  PROVE  IInv' /\ Throws(p)
<1>1. TypeOK
  BY DEF IInv
<1>2. next[p] \in Owner
  <2>1. next[p] # None
    BY DEF IInv, LocalInv, Early
  <2> QED
    BY <1>1, <2>1 DEF TypeOK
<1>3. Asked({next[p]}) /\ AgentsOK'
  BY <1>1, <1>2, AskByRetirement, AgentTypes DEF CommitThrows
<1>4. gen' \in Nat
  BY <1>1 DEF CommitThrows, Bumped, TypeOK
<1>5. Throws(p)
  BY <1>3 DEF CommitThrows, Throws, admission
<1> QED
  BY <1>3, <1>4, <1>5, CommitTypes, ThrowKeeps

(* The commit of a switch, a pick or /new.                                 *)
LEMMA OrdinaryCommitStep ==
  ASSUME IInv, NEW p \in Op, OrdinaryCommit(p)
  PROVE  IInv' /\ (Throws(p) \/ Commits(p))
<1>1. pc[p] = "commit" /\ kind[p] \in Ordinary
  BY DEF OrdinaryCommit, At, Ordinary
<1>2. CASE CommitThrows(p)
  BY <1>1, <1>2, ThrowsStep
<1>3. CASE /\ cur' = next[p] /\ gen' = Bumped /\ Goto(p, "flushNew")
           /\ UNCHANGED <<admission, writing, epoch, agents, owners, ret, exiting,
                          intents, next, old, forks>>
  <2>1. pc'[p] = "flushNew"
    BY <1>3, OwnerFacts, GotoFacts DEF IInv
  <2>2. Commits(p)
    BY <1>1, <1>3, <2>1, AskNobody DEF Commits, admission
  <2>3. AgentsOK' /\ gen' \in Nat
    BY <1>3, QuietTypes DEF IInv, Bumped, TypeOK
  <2> QED
    BY <2>2, <2>3, CommitTypes, CommitKeeps
<1> QED
  BY <1>2, <1>3 DEF OrdinaryCommit

(* The commit of the first session.                                        *)
LEMMA FirstCommitStep ==
  ASSUME IInv, NEW p \in Op, FirstCommit(p)
  PROVE  IInv' /\ Commits(p)
<1>1. pc[p] = "commit" /\ kind[p] = "first" /\ Goto(p, "childIdle") /\ WaitIdle(next[p])
  BY DEF FirstCommit, At
<1>2. pc'[p] = "childIdle"
  BY <1>1, OwnerFacts, GotoFacts DEF IInv
<1>3. next[p] \in Owner
  BY <1>1 DEF IInv, LocalInv, TypeOK
<1>4. Asked({next[p]}) /\ AgentsOK'
  BY <1>1, <1>3, AskByWait, AgentTypes DEF IInv
<1>5. Commits(p) /\ gen' = gen
  BY <1>1, <1>2, <1>4 DEF FirstCommit, Commits, admission
<1> QED
  BY <1>4, <1>5, CommitTypes, CommitKeeps DEF IInv, TypeOK

(* The retirement of the replaced owner begins.                            *)
LEMMA RetireOldStep ==
  ASSUME IInv, NEW p \in Op, RetireOld(p)
  PROVE  IInv' /\ (Walks(p) \/ RetiresOld(p))
<1> USE OwnerFacts
<1>1. TypeOK
  BY DEF IInv
<1>2. pc[p] = "flushNew"
  BY DEF RetireOld, At
<1>3. CASE old[p] = None
  <2>1. Goto(p, "childIdle") /\ WaitIdle(next[p]) /\ UNCHANGED ret
    BY <1>3 DEF RetireOld
  <2>2. next[p] = cur /\ next[p] \in Owner /\ cur # None
    BY <1>2 DEF IInv, LocalInv, Published, TypeOK
  <2>3. pc'[p] = "childIdle"
    BY <1>1, <2>1, GotoFacts
  <2>4. Asked({cur}) /\ AgentsOK'
    BY <1>1, <2>1, <2>2, AskByWait, AgentTypes
  <2>5. Walks(p) /\ gen' = gen
    BY <1>2, <1>3, <2>1, <2>2, <2>3, <2>4
    DEF RetireOld, Walks, Walk, Published, admission, identity
  <2> QED
    BY <1>1, <2>4, <2>5, WalkTypes, WalkKeeps DEF TypeOK
<1>4. CASE old[p] # None
  <2>1. BeginRetirement({old[p]}, "idle") /\ CancelRetired(old[p]) /\ Goto(p, "retireOld")
    BY <1>4 DEF RetireOld
  <2>2. old[p] \in Owner
    BY <1>1, <1>4 DEF TypeOK
  <2>3. Asked({old[p]}) /\ AgentsOK'
    BY <1>1, <2>1, <2>2, AskByRetirement, AgentTypes
  <2>4. RetiresOld(p) /\ gen' = gen
    BY <1>2, <1>4, <2>1, <2>3 DEF RetireOld, RetiresOld, admission, identity
  <2> QED
    BY <1>1, <2>3, <2>4, CommitTypes, RetireOldKeeps DEF TypeOK
<1> QED
  BY <1>3, <1>4

(* The gate adopts the child of a fork, or gives it up.                    *)
LEMMA AdoptForkStep ==
  ASSUME IInv, NEW p \in Op, AdoptFork(p)
  PROVE  IInv' /\ (Withdraws(p) \/ Throws(p) \/ Adopts(p))
<1> USE OwnerFacts
<1>1. TypeOK
  BY DEF IInv
<1>2. pc[p] = "body" /\ kind[p] = "fork"
  BY DEF AdoptFork, At
<1>3. CASE AdoptRefused(p)
  <2>1. /\ parked' = parked \union {next[p]} /\ Goto(p, "done")
        /\ line' = Tail(line) /\ frozen' = FALSE /\ pins' \in {pins, pins \ {p}}
        /\ UNCHANGED <<writing, identity, agents, sessions, sess, life, ret, exiting, kind,
                       target, seen, next, old, window, deferred, handed>>
    BY <1>3 DEF AdoptRefused, EndTask, intents
  <2>2. Withdraws(p)
    BY <1>2, <2>1, AskNobody DEF Withdraws, IInv, LocalInv
  <2> QED
    BY <1>1, <2>1, <2>2, QuietTypes, WithdrawTypes, WithdrawKeeps DEF TypeOK
<1>4. CASE ~exiting /\ CommitThrows(p)
  BY <1>2, <1>4, ThrowsStep
<1>5. CASE ~exiting /\ IsNavigationCurrent(seen[p]) /\ AdoptCommit(p)
  <2>1. cur \in Owner /\ next[p] \in Owner
    BY <1>1, <1>2 DEF IInv, LocalInv, Early, TypeOK
  <2>2. Asked({}) /\ AgentsOK' /\ Goto(p, pc'[p])
        /\ \/ /\ window = {} /\ BeginRetirement({cur}, "idle")
              /\ handed' = handed \union {p} /\ pc'[p] = "retireOld" /\ deferred' = deferred
           \/ /\ window # {} /\ ret' = ret
              /\ deferred' = deferred \union {p} /\ pc'[p] = "childIdle" /\ handed' = handed
    <3>1. CASE window = {}
      <4>1. /\ BeginRetirement({cur}, "idle") /\ CancelRetired(cur)
            /\ handed' = handed \union {p} /\ Goto(p, "retireOld") /\ UNCHANGED deferred
        BY <1>5, <3>1 DEF AdoptCommit
      <4>2. Asked({cur}) /\ AgentsOK'
        BY <1>1, <2>1, <4>1, AskByRetirement, AgentTypes
      <4>3. Asked({})
        BY <1>5, <4>2 DEF Asked
      <4> QED
        BY <1>1, <3>1, <4>1, <4>2, <4>3, GotoFacts
    <3>2. CASE window # {}
      <4>1. /\ deferred' = deferred \union {p} /\ WaitIdle(next[p])
            /\ Goto(p, "childIdle") /\ UNCHANGED <<ret, handed>>
        BY <1>5, <3>2 DEF AdoptCommit
      <4>2. Asked({next[p]}) /\ AgentsOK'
        BY <1>1, <2>1, <4>1, AskByWait, AgentTypes
      <4>3. Asked({})
        BY <1>5, <4>2 DEF Asked
      <4> QED
        BY <1>1, <3>2, <4>1, <4>2, <4>3, GotoFacts
    <3> QED
      BY <3>1, <3>2
  <2>3. Adopts(p)
    BY <1>2, <1>5, <2>2 DEF Adopts, AdoptCommit, admission
  <2>4. gen' \in Nat
    BY <1>1, <1>5 DEF AdoptCommit, Bumped, TypeOK
  <2> QED
    BY <2>2, <2>3, <2>4, CommitTypes, AdoptKeeps
<1> QED
  BY <1>3, <1>4, <1>5 DEF AdoptFork

(* The window of a command closes.                                         *)
LEMMA CloseWindowStep ==
  ASSUME IInv, NEW p \in Op, CloseWindow(p)
  PROVE  IInv' /\ Closes
<1>1. TypeOK
  BY DEF IInv
<1>2. window = {p} /\ window' = {}
  BY DEF CloseWindow, IInv, ForkInv
<1>3. /\ BeginRetirement(Sources, "idle")
      /\ turn' = Stopped(Sources)
      /\ late' = [o \in Owner |-> IF exiting /\ o \in Sources \ cancelled
                                    THEN late[o] + 1 ELSE late[o]]
      /\ cancelled' = IF exiting THEN cancelled \union Sources ELSE cancelled
      /\ handed' = handed \union deferred
      /\ deferred' = {}
      /\ UNCHANGED <<admission, writing, identity, owners, exiting, pc, intents,
                     next, old, pins>>
  BY <1>2 DEF CloseWindow, Sources
<1>4. Sources \in SUBSET Owner
  BY <1>1 DEF Sources, IInv, ForkInv, TypeOK
<1>5. Asked(Sources)
  BY <1>3 DEF Asked
<1>6. AgentsOK'
  BY <1>1, <1>3, <1>4 DEF AgentsOK, Stopped, TypeOK
<1>7. ret' \in [Owner -> RetPhase] /\ handed' \in SUBSET Op
  BY <1>1, <1>3, RetireTypes DEF TypeOK
<1>8. TypeOK'
  BY <1>1, <1>2, <1>3, <1>6, <1>7
  DEF TypeOK, AgentsOK, admission, identity, owners, intents
<1> QED
  BY <1>2, <1>3, <1>5, <1>8, CloseKeeps DEF Closes

-----------------------------------------------------------------------------
\* The exit.

(* A move of the exit keeps the types.                                     *)
LEMMA ExitWalkTypes ==
  ASSUME TypeOK, ExitWalks, AgentsOK'
  PROVE  TypeOK'
<1> USE OwnerFacts
<1>1. pc' \in [Task -> OpState]
  BY GotoTypes DEF ExitWalks, OpState
<1>2. frozen' \in BOOLEAN
  BY DEF ExitWalks, TypeOK
<1> QED
  BY <1>1, <1>2 DEF ExitWalks, AgentsOK, TypeOK, identity, owners, intents, forks

(* The exit waits for a ledger, or its retirement of the owner has ended.  *)
LEMMA ExitQuietStep ==
  ASSUME IInv, \/ ExitForks \/ ExitSettlements \/ StartPlain(Exit) \/ Drain(Exit)
               \/ ExitCurrentGone \/ (ExitRetiresCurrent /\ cur = None)
  PROVE  IInv' /\ ExitWalks
<1> USE OwnerFacts
<1>1. TypeOK
  BY DEF IInv
<1>2. /\ UNCHANGED <<line, writing, identity, agents, owners, ret, exiting, intents, next, old,
                     forks>>
      /\ \E s \in OpState : Goto(Exit, s)
  <2>1. CASE ExitForks \/ ExitSettlements \/ ExitCurrentGone
    BY <2>1 DEF ExitForks, ExitSettlements, ExitCurrentGone, ExitStep, admission, OpState
  <2>2. CASE StartPlain(Exit) \/ Drain(Exit)
    BY <2>2 DEF StartPlain, Drain, admission, OpState
  <2>3. CASE ExitRetiresCurrent /\ cur = None
    BY <2>3 DEF ExitRetiresCurrent, admission, OpState
  <2> QED
    BY <2>1, <2>2, <2>3
<1>3. \A s \in OpState : Goto(Exit, s) => pc'[Exit] = s
  BY <1>1, GotoTypes
<1>4. ExitWalks
  <2> USE <1>2, <1>3, AskNobody DEF ExitWalks, At, OpState
  <2>1. CASE ExitForks \/ ExitSettlements \/ ExitCurrentGone
    BY <2>1 DEF ExitForks, ExitSettlements, ExitCurrentGone, ExitStep, admission
  <2>2. CASE StartPlain(Exit)
    BY <2>2 DEF StartPlain
  <2>3. CASE Drain(Exit)
    BY <2>3 DEF Drain, admission
  <2>4. CASE ExitRetiresCurrent /\ cur = None
    BY <2>4 DEF ExitRetiresCurrent, admission
  <2> QED
    BY <2>1, <2>2, <2>3, <2>4
<1> QED
  BY <1>1, <1>2, <1>4, QuietTypes, ExitWalkTypes, ExitWalkKeeps

(* The exit cancels the Agent on the surface.                              *)
LEMMA PreCancelStep ==
  ASSUME IInv, ExitPrepares \/ ExitRetires
  PROVE  IInv' /\ ExitWalks
<1> USE OwnerFacts
<1>1. TypeOK
  BY DEF IInv
<1>2. /\ UNCHANGED <<line, frozen, writing, identity, owners, ret, exiting, intents, next, old,
                     forks>>
      /\ IF cur = None THEN UNCHANGED agents ELSE CancelShutdown(cur)
      /\ \/ pc[Exit] = "cleanup" /\ Goto(Exit, "prepared")
         \/ pc[Exit] = "prepared" /\ Goto(Exit, "forks")
  BY DEF ExitPrepares, ExitRetires, PreCancel, At, admission
<1>3. Goto(Exit, pc'[Exit]) /\ \/ pc[Exit] = "cleanup" /\ pc'[Exit] = "prepared"
                               \/ pc[Exit] = "prepared" /\ pc'[Exit] = "forks"
  BY <1>1, <1>2, GotoFacts
<1>4. AgentsOK' /\ (Asked({}) \/ (cur # None /\ Asked({cur})))
  <2>1. CASE cur = None
    BY <1>1, <1>2, <2>1, AskNobody, QuietTypes
  <2>2. CASE cur # None
    <3>1. cur \in Owner /\ CancelShutdown(cur) /\ exiting
      BY <1>1, <1>2, <2>2 DEF TypeOK, IInv, ExitInv
    <3> QED
      BY <1>1, <2>2, <3>1, AskByShutdown, AgentTypes
  <2> QED
    BY <2>1, <2>2
<1>5. ExitWalks
  BY <1>2, <1>3, <1>4 DEF ExitWalks
<1> QED
  BY <1>1, <1>4, <1>5, ExitWalkTypes, ExitWalkKeeps

(* The exit begins.                                                        *)
LEMMA ExitBeginsStep ==
  ASSUME IInv, ExitBegins
  PROVE  IInv'
<1> USE OwnerFacts
<1>1. TypeOK
  BY DEF IInv
<1>2. /\ UNCHANGED <<admission, writing, identity, owners, ret, intents, next, old, forks>>
      /\ Goto(Exit, "cleanup") /\ exiting' = TRUE
      /\ turn' = Stopped(Awaited \ cancelled)
      /\ late' = [o \in Owner |-> IF o \in Awaited \ cancelled THEN late[o] + 1 ELSE late[o]]
      /\ cancelled' = cancelled \union (Awaited \ cancelled)
  BY DEF ExitBegins
<1>3. Awaited \subseteq Owner
  BY <1>1, AwaitedIsCurrent DEF TypeOK
<1>4. AgentsOK'
  BY <1>1, <1>2, <1>3 DEF AgentsOK, Stopped, TypeOK
<1>5. pc' \in [Task -> OpState]
  BY <1>1, <1>2, GotoTypes DEF OpState
<1>6. TypeOK'
  BY <1>1, <1>2, <1>4, <1>5 DEF TypeOK, AgentsOK, admission, identity, owners, intents, forks
<1> QED
  BY <1>6, ExitBeginKeeps

(* The exit joins the line.                                                *)
LEMMA ExitQueuesStep ==
  ASSUME IInv, ExitQueues
  PROVE  IInv'
<1> USE OwnerFacts
<1>1. TypeOK
  BY DEF IInv
<1>2. line' \in Seq(Task) /\ pc' \in [Task -> OpState]
  BY <1>1, LineTypes, GotoTypes DEF ExitQueues, Enqueue, OpState
<1>3. TypeOK'
  BY <1>1, <1>2 DEF ExitQueues, TypeOK, identity, agents, owners, intents, forks
<1> QED
  BY <1>3, ExitQueueKeeps

(* The exit retires the owner on the surface.                              *)
LEMMA ExitRetiresCurrentStep ==
  ASSUME IInv, ExitRetiresCurrent
  PROVE  IInv' /\ (ExitWalks \/ \E o \in Owner : ExitTakes(o))
<1> USE OwnerFacts
<1>1. TypeOK
  BY DEF IInv
<1>2. CASE cur = None
  BY <1>2, ExitQuietStep
<1>3. CASE cur # None
  <2>1. /\ pc[Exit] = "body" /\ Goto(Exit, "retireCurrent")
        /\ BeginRetirement({cur}, "idleShutdown") /\ CancelShutdown(cur)
        /\ UNCHANGED <<admission, writing, identity, owners, exiting, intents, next, old, forks>>
    BY <1>3 DEF ExitRetiresCurrent, At
  <2>2. cur \in Owner /\ life[cur] = "held" /\ ret[cur] = "no" /\ cur \notin parked /\ exiting
    BY <1>3, <2>1, CurrentIsApart DEF IInv, ExitInv
  <2>3. Asked({cur}) /\ AgentsOK'
    BY <1>1, <2>1, <2>2, AskByShutdown, AgentTypes
  <2>4. pc' \in [Task -> OpState] /\ pc'[Exit] = "retireCurrent"
    BY <1>1, <2>1, GotoTypes DEF OpState
  <2>5. ret' \in [Owner -> RetPhase]
    BY <1>1, <2>1, RetireTypes
  <2>6. TypeOK'
    BY <1>1, <2>1, <2>3, <2>4, <2>5
       DEF TypeOK, AgentsOK, admission, identity, owners, intents, forks
  <2>7. parked' = parked \ {cur}
    BY <2>1, <2>2 DEF owners
  <2>8. ExitTakes(cur)
    BY <2>1, <2>2, <2>3, <2>4, <2>7 DEF ExitTakes, admission, owners
  <2> QED
    BY <2>2, <2>6, <2>8, ExitRetireKeeps
<1> QED
  BY <1>2, <1>3

(* The exit retires a parked owner.                                        *)
LEMMA ExitRetiresParkedStep ==
  ASSUME IInv, NEW o \in Owner, ExitRetiresParked(o)
  PROVE  IInv' /\ ExitTakes(o)
<1> USE OwnerFacts
<1>1. TypeOK
  BY DEF IInv
<1>2. /\ pc[Exit] = "retireParked" /\ o \in parked /\ parked' = parked \ {o}
      /\ BeginRetirement({o}, "idleShutdown") /\ Cancel(o)
      /\ UNCHANGED <<admission, writing, identity, sessions, sess, life, exiting,
                     pc, intents, next, old, forks>>
  BY DEF ExitRetiresParked, At
<1>3. ret[o] = "no" /\ life[o] = "held"
  BY <1>2 DEF IInv, KeeperInv, Spare
<1>4. AgentsOK' /\ ret' \in [Owner -> RetPhase]
  BY <1>1, <1>2, AgentTypes, RetireTypes
<1>5. TypeOK'
  BY <1>1, <1>2, <1>4 DEF TypeOK, AgentsOK, admission, identity, intents, forks
<1>6. Goto(Exit, pc'[Exit]) /\ pc'[Exit] = "retireParked"
  BY <1>1, <1>2 DEF Goto, TypeOK
<1>7. ExitTakes(o)
  BY <1>2, <1>3, <1>6 DEF ExitTakes, admission
<1> QED
  BY <1>5, <1>7, ExitRetireKeeps

(* The exit ends.                                                          *)
LEMMA ExitEndsStep ==
  ASSUME IInv, ExitEnds
  PROVE  IInv'
<1> USE OwnerFacts
<1>1. TypeOK
  BY DEF IInv
<1>2. /\ line' = Tail(line) /\ frozen' = FALSE /\ Goto(Exit, "done")
      /\ pins' \in {pins, pins \ {Exit}} /\ pc[Exit] = "retireParked"
      /\ UNCHANGED <<writing, identity, agents, owners, ret, exiting, intents, next,
                     old, window, deferred, handed>>
  BY DEF ExitEnds, Finish, EndTask, At
<1>3. line # <<>>
  BY <1>2, StartedIsHead DEF IInv, Started
<1>4. line' \in Seq(Task) /\ pc' \in [Task -> OpState] /\ pins' \in SUBSET Op
  BY <1>1, <1>2, <1>3, LineTypes, GotoTypes DEF OpState, TypeOK
<1>5. TypeOK'
  BY <1>1, <1>2, <1>4 DEF TypeOK, identity, agents, owners, intents
<1> QED
  BY <1>5, ExitEndKeeps

-----------------------------------------------------------------------------
\* Turns, writes and retirements.

(* A turn or a write keeps the types.                                      *)
LEMMA StirTypes ==
  ASSUME TypeOK, Stirs, AgentsOK', writing' \in [Writer -> Owner \union {None}]
  PROVE  TypeOK'
BY DEF Stirs, AgentsOK, TypeOK, admission, identity, owners, intents, forks

(* Turns start and end, and the user interrupts them.                      *)
LEMMA TurnSteps ==
  ASSUME IInv, Interrupt \/ \E o \in Owner : TurnStarts(o) \/ TurnEnds(o)
  PROVE  IInv' /\ Stirs
<1>1. TypeOK
  BY DEF IInv
<1>2. UNCHANGED <<admission, writing, identity, owners, ret, exiting, pc, intents, next, old,
                  forks>>
  BY DEF Interrupt, TurnStarts, TurnEnds
<1>3. Asked({}) /\ AgentsOK'
  <2>1. CASE Interrupt
    <3>1. cur \in Owner /\ ~exiting /\ Cancel(cur)
      BY <1>1, <2>1 DEF Interrupt, TypeOK
    <3> QED
      BY <1>1, <3>1, AskByCancel, AgentTypes DEF Asked
  <2>2. CASE \E o \in Owner : TurnStarts(o) \/ TurnEnds(o)
    BY <1>1, <2>2 DEF TurnStarts, TurnEnds, Asked, AgentsOK, TypeOK
  <2> QED
    BY <2>1, <2>2
<1>4. Stirs
  BY <1>2, <1>3 DEF Stirs
<1> QED
  BY <1>1, <1>2, <1>3, <1>4, StirTypes, StirKeeps DEF TypeOK

(* Writes enter and leave the barrier.                                     *)
LEMMA WriterSteps ==
  ASSUME IInv, NEW v \in Writer, AdmitWriter(v) \/ LeaveWriter(v)
  PROVE  IInv' /\ Stirs
<1>1. TypeOK
  BY DEF IInv
<1>2. UNCHANGED <<admission, identity, agents, owners, ret, exiting, pc, intents, next, old,
                  forks>>
  BY DEF AdmitWriter, LeaveWriter
<1>3. /\ writing' \in [Writer -> Owner \union {None}]
      /\ \A w \in Writer : writing'[w] \in {writing[w], None, cur}
  BY <1>1 DEF AdmitWriter, LeaveWriter, TypeOK
<1>4. \/ ~frozen /\ pc[Exit] # "done" /\ cur # None
      \/ \A w \in Writer : writing'[w] \in {writing[w], None}
  BY <1>1 DEF AdmitWriter, LeaveWriter, TypeOK, At
<1>5. Asked({}) /\ AgentsOK'
  BY <1>1, <1>2, AskNobody, QuietTypes
<1>6. Stirs
  BY <1>2, <1>3, <1>4, <1>5 DEF Stirs
<1> QED
  BY <1>1, <1>3, <1>5, <1>6, StirTypes, StirKeeps

(* A retirement waits for idle, flushes, disposes.                         *)
LEMMA RetireSteps ==
  ASSUME IInv, NEW o \in Owner, Retire(o)
  PROVE  IInv' /\ (RetirementGoesOn(o) \/ RetireDispose(o))
<1>1. TypeOK
  BY DEF IInv
<1>2. CASE RetireIdle(o) \/ RetireFlush(o)
  <2>1. RetirementGoesOn(o)
    BY <1>2 DEF RetireIdle, RetireFlush, RetirementGoesOn
  <2>2. TypeOK'
    BY <1>1, <2>1
    DEF RetirementGoesOn, TypeOK, RetPhase, admission, identity, agents, owners, intents, forks
  <2> QED
    BY <2>1, <2>2, GoOnKeeps
<1>3. CASE RetireDispose(o)
  <2>1. TypeOK'
    BY <1>1, <1>3 DEF RetireDispose, TypeOK, RetPhase, admission, identity, agents, intents
  <2> QED
    BY <1>3, <2>1, DisposeKeeps
<1> QED
  BY <1>2, <1>3 DEF Retire

-----------------------------------------------------------------------------
\* The invariant holds.

(* The invariant holds at startup.                                         *)
LEMMA InitIInv == Init => IInv
<1> SUFFICES ASSUME Init PROVE IInv
  OBVIOUS
<1> USE OwnerFacts
<1>1. IsFiniteSet(Op) /\ Cardinality(Op) \in Nat /\ Stored \in Nat /\ Stored >= 1
  BY BoundsAssumption, FS_CardinalityType
<1>2. 1 \in Owner /\ 1 \in Session /\ Stored \in Session
  BY <1>1 DEF Owner, Session
<1>3. /\ cur \in {None, 1} /\ \A o \in Owner : sess[o] = IF o = cur THEN 1 ELSE None
      /\ \A o \in Owner : life[o] = IF o = cur THEN "held" ELSE "unborn"
      /\ \A p \in Op : /\ pc[p] = "idle" /\ kind[p] = "none" /\ next[p] = None /\ old[p] = None
                       /\ target[p] = None /\ seen[p].own = None /\ seen[p].session = None
                       /\ seen[p].epoch = 0
      /\ pc[Exit] = "running"
  BY DEF Init
<1>4. TypeOK
  <2>1. seen \in [Op -> [own : Owner \union {None}, gen : Nat,
                         session : Session \union {None}, epoch : Nat]]
    BY DEF Init
  <2>2. pc \in [Task -> OpState]
    BY DEF Init, OpState
  <2>3. ret \in [Owner -> RetPhase] /\ kind \in [Op -> (AllKinds \ {"exit"}) \union {"none"}]
    BY DEF Init, RetPhase, AllKinds
  <2>4. /\ sess \in [Owner -> Session \union {None}]
        /\ life \in [Owner -> {"unborn", "held", "gone"}]
        /\ target \in [Op -> Session \union {None}]
    BY <1>2 DEF Init
  <2>5. line \in Seq(Task) /\ cur \in Owner \union {None} /\ sessions \in Session
    BY <1>2 DEF Init
  <2> QED
    BY <2>1, <2>2, <2>3, <2>4, <2>5 DEF Init, TypeOK
<1>5. LineInv /\ PathInv
  <2>1. \A t \in Task : pc[t] \notin InGate
    BY DEF Init, InGate, Started
  <2>2. line = <<>> /\ Len(line) = 0 /\ ~frozen
    BY DEF Init
  <2>3. LineInv
    BY <2>1, <2>2 DEF LineInv, InGate
  <2> QED
    BY <1>3, <2>3 DEF PathInv
<1>6. CountInv
  <2>1. Users = {} /\ Cardinality(Users) = 0
    BY <1>3, FS_EmptySet DEF Users
  <2>2. CASE cur = None
    <3>1. Born = {} /\ Cardinality(Born) = 0
      BY <1>3, <2>2, FS_EmptySet DEF Born
    <3> QED
      BY <1>1, <2>1, <3>1 DEF CountInv, Init
  <2>3. CASE cur = 1
    <3>1. Born = {1} /\ Cardinality(Born) = 1
      <4>1. Born = {1}
        BY <1>2, <1>3, <2>3 DEF Born
      <4> QED
        BY <4>1, FS_Singleton
    <3>2. Born = 1..Cardinality(Born)
      BY <3>1
    <3> QED
      BY <1>1, <2>1, <3>1, <3>2 DEF CountInv, Init
  <2> QED
    BY <1>3, <2>2, <2>3
<1>7. LocalInv /\ ScopeInv /\ PinInv
  <2>1. LocalInv
    BY <1>1, <1>3 DEF LocalInv, Published, Early, Before, Ordinary, Init, None
  <2>2. ScopeInv
    BY <1>3 DEF ScopeInv
  <2> QED
    BY <1>3, <2>1, <2>2 DEF PinInv
<1>8. OwnerInv
  <2>1. sessions = Stored /\ \A o \in Owner : ret[o] = "no"
    BY DEF Init
  <2>2. 1 \in 1..sessions
    BY <1>1, <2>1
  <2>3. \A o \in Owner : life[o] # "gone" /\ (life[o] # "unborn" => o = cur /\ sess[o] = 1)
    BY <1>3
  <2>4. cur # None => life[cur] = "held"
    BY <1>2, <1>3
  <2> QED
    BY <2>1, <2>2, <2>3, <2>4 DEF OwnerInv
<1>9. Carriers = {} /\ Leavers = {}
  BY <1>3 DEF Carriers, Leavers
<1>10. KeeperInv
  BY <1>3, <1>9 DEF KeeperInv, Init
<1>11. RetireInv /\ ForkInv
  <2>1. pins = {} /\ window = {} /\ deferred = {} /\ handed = {} /\ \A o \in Owner : ret[o] = "no"
    BY DEF Init
  <2>2. \A p \in Op : kind[p] # "fork"
    BY <1>3
  <2> QED
    BY <2>1, <2>2 DEF RetireInv, Retiring, ForkInv
<1>12. ExitInv /\ CancelInv
  <2>1. ~exiting /\ \A o \in Owner : ret[o] = "no" /\ late[o] = 0
    BY DEF Init
  <2>2. cancelled = {}
    BY DEF Init
  <2>3. ExitInv
    BY <1>2, <1>3, <2>1 DEF ExitInv, Early
  <2> QED
    BY <2>1, <2>2, <2>3 DEF CancelInv
<1>13. WriteInv
  BY DEF WriteInv, WritesKeepTheirOwner, Init, Inside, Started
<1>14. SeenInv
  BY <1>3, <1>9 DEF SeenInv, SessionOf, Init
<1>15. EpochInv /\ GateInv
  <2>1. Watching = {} /\ ForksOut = {}
    BY <1>3 DEF Watching, ForksOut
  <2>2. line = <<>> /\ deferred = {}
    BY DEF Init
  <2> QED
    BY <2>1, <2>2 DEF EpochInv, GateInv
<1> QED
  BY <1>4, <1>5, <1>6, <1>7, <1>8, <1>10, <1>11, <1>12, <1>13, <1>14, <1>15 DEF IInv

-----------------------------------------------------------------------------
Moves ==
  \/ \E p \in Op : \/ Walks(p) \/ Begins(p) \/ Quits(p) \/ Joins(p) \/ Withdraws(p)
                   \/ Looks(p) \/ Obtains(p) \/ Turns(p) \/ Claims(p) \/ Throws(p)
                   \/ Commits(p) \/ RetiresOld(p) \/ Adopts(p)
  \/ Closes \/ ExitWalks \/ ExitBegins \/ ExitQueues \/ ExitEnds \/ Stirs
  \/ \E o \in Owner : ExitTakes(o) \/ RetirementGoesOn(o) \/ RetireDispose(o)

(* Every request of a user is one of the moves and keeps the invariant.    *)
LEMMA RequestMoves ==
  ASSUME IInv, NEW p \in Op, Request(p)
  PROVE  IInv' /\ (Joins(p) \/ Withdraws(p) \/ Looks(p))
<1>1. CASE \E k \in Kinds, c \in BOOLEAN : Choose(p, k, c)
  BY <1>1, ChooseStep
<1>2. CASE \E s \in Session : RequestSwitch(p, s) \/ PickSession(p, s)
  BY <1>2, RequestSwitchStep, PickSessionStep
<1>3. CASE RequestRewind(p) \/ Dismiss(p)
  BY <1>3, RequestRewindStep, DismissStep
<1>4. CASE RequestFirst(p) \/ RequestPlain(p) \/ RequestFork(p)
  BY <1>4, RequestFirstStep, RequestForkStep
<1> QED
  BY <1>1, <1>2, <1>3, <1>4 DEF Request

(* Every step of an intent is one of the moves and keeps the invariant.    *)
LEMMA ProceedMoves ==
  ASSUME IInv, NEW p \in Op, Proceed(p)
  PROVE  /\ IInv'
         /\ \/ Walks(p) \/ Begins(p) \/ Quits(p) \/ Joins(p) \/ Withdraws(p)
            \/ Obtains(p) \/ Turns(p) \/ Claims(p) \/ Throws(p)
            \/ Commits(p) \/ RetiresOld(p) \/ Adopts(p) \/ Closes
<1>1. CASE RequestNew(p)
  BY <1>1, RequestNewStep
<1>2. CASE StartSwitch(p) \/ StartNew(p) \/ StartPlain(p)
  BY <1>2, StartSwitchStep, StartNewStep, StartPlainStep
<1>3. CASE \/ Drain(p) \/ Prepare(p) \/ QuiesceEnds(p) \/ FlushOldEnds(p)
           \/ AwaitPin(p) \/ ResumeFails(p) \/ DispatchNew(p) \/ DispatchFirst(p)
           \/ CreateFails(p) \/ Released(p) \/ ChildIdle(p) \/ SurfaceReady(p)
  BY <1>3, QuietWalks
<1>4. CASE SwitchBody(p) \/ NewBody(p) \/ Open(p)
  BY <1>4, SwitchBodyStep, NewBodyStep, OpenStep
<1>5. CASE PlainBody(p) \/ Leave(p)
  BY <1>5, LeaveStep
<1>6. CASE Resumed(p) \/ Created(p) \/ HostFork(p) \/ ForkSettles(p)
  BY <1>6, ResumedStep, CreatedStep, HostForkStep, ForkSettlesStep
<1>7. CASE OrdinaryCommit(p) \/ FirstCommit(p) \/ AdoptFork(p)
  BY <1>7, OrdinaryCommitStep, FirstCommitStep, AdoptForkStep
<1>8. CASE RetireOld(p) \/ RetireOldEnds(p) \/ CloseWindow(p)
  BY <1>8, RetireOldStep, RetireOldEndsStep, CloseWindowStep
<1> QED
  BY <1>1, <1>2, <1>3, <1>4, <1>5, <1>6, <1>7, <1>8 DEF Proceed

(* Every step of the exit is one of the moves and keeps the invariant.     *)
LEMMA ExitMoves ==
  ASSUME IInv, ExitBegins \/ ExitProceeds
  PROVE  /\ IInv'
         /\ \/ ExitWalks \/ ExitBegins \/ ExitQueues \/ ExitEnds
            \/ \E o \in Owner : ExitTakes(o)
<1>1. CASE ExitBegins \/ ExitQueues \/ ExitEnds
  BY <1>1, ExitBeginsStep, ExitQueuesStep, ExitEndsStep
<1>2. CASE ExitPrepares \/ ExitRetires
  BY <1>2, PreCancelStep
<1>3. CASE ExitForks \/ ExitSettlements \/ StartPlain(Exit) \/ Drain(Exit) \/ ExitCurrentGone
  BY <1>3, ExitQuietStep
<1>4. CASE ExitRetiresCurrent \/ \E o \in Owner : ExitRetiresParked(o)
  BY <1>4, ExitRetiresCurrentStep, ExitRetiresParkedStep
<1> QED
  BY <1>1, <1>2, <1>3, <1>4 DEF ExitProceeds

(* Every step keeps the invariant and is one of the moves.                 *)
LEMMA NextMoves ==
  ASSUME IInv, Next
  PROVE  IInv' /\ Moves
<1>1. CASE \E p \in Op : Request(p)
  BY <1>1, RequestMoves DEF Moves
<1>2. CASE \E p \in Op : Proceed(p)
  BY <1>2, ProceedMoves DEF Moves
<1>3. CASE ExitBegins \/ ExitProceeds
  BY <1>3, ExitMoves DEF Moves
<1>4. CASE Interrupt \/ \E o \in Owner : TurnStarts(o) \/ TurnEnds(o)
  BY <1>4, TurnSteps DEF Moves
<1>5. CASE \E o \in Owner : Retire(o)
  BY <1>5, RetireSteps DEF Moves
<1>6. CASE \E w \in Writer : AdmitWriter(w) \/ LeaveWriter(w)
  BY <1>6, WriterSteps DEF Moves
<1> QED
  BY <1>1, <1>2, <1>3, <1>4, <1>5, <1>6 DEF Next

(* So does a step that changes nothing.                                    *)
LEMMA StutterMoves ==
  ASSUME IInv, UNCHANGED vars
  PROVE  IInv' /\ Stirs
<1>1. /\ UNCHANGED <<admission, writing, identity, agents, owners, ret, exiting, pc, intents,
                     next, old, forks>>
  BY DEF vars, admission, identity, agents, owners, intents, forks
<1>2. Stirs
  BY <1>1, AskNobody DEF Stirs
<1>3. AgentsOK' /\ writing' \in [Writer -> Owner \union {None}]
  BY <1>1, QuietTypes DEF IInv, TypeOK
<1> QED
  BY <1>2, <1>3, StirTypes, StirKeeps DEF IInv

(* The inductive invariant holds in every reachable state, whatever the    *)
(* intents, the turns, the writes, the failures and the exit do in         *)
(* whatever order.                                                         *)
THEOREM Inductive == SafeSpec => []IInv
<1>1. IInv /\ [Next]_vars => IInv'
  BY NextMoves, StutterMoves
<1> QED
  BY <1>1, InitIInv, PTL DEF SafeSpec

-----------------------------------------------------------------------------

-----------------------------------------------------------------------------
\* What the invariant implies.

(* The surface shows an owner that nobody retires.                         *)
LEMMA IInvSurface == IInv => SurfaceIsAlive
BY CurrentIsApart DEF SurfaceIsAlive

(* A resume in flight meets at most the late child of a fork.              *)
LEMMA IInvResume == IInv => ResumeMeetsNoLiveOwner
<1> SUFFICES ASSUME IInv, NEW p \in Op, NEW o \in Owner,
                    pc[p] = "resuming", life[o] = "held", sess[o] = target[p]
             PROVE  o # cur /\ ret[o] = "no" /\ \E q \in Op : kind[q] = "fork" /\ next[q] = o
  BY DEF ResumeMeetsNoLiveOwner, At
<1> USE OwnerFacts
<1>1. kind[p] \in {"switch", "pick"}
  BY DEF IInv, PathInv, TypeOK, AllKinds, Early, Before, Late, Published
<1>2. target[p] # SessionOf(cur) /\ ~Pinned(target[p])
  BY <1>1 DEF IInv, ScopeInv, PinInv, Before
<1>3. o # cur
  BY <1>2 DEF SessionOf
<1>4. \A t \in Task \ {p} : pc[t] \notin Started
  BY StartedIsHead DEF IInv, Started
<1>5. \A q \in deferred \union handed : old[q] # o
  <2>1. \A q \in deferred \union handed : q \in pins /\ q \in Op /\ seen[q].session = sess[old[q]]
    BY DEF IInv, ForkInv, TypeOK
  <2> QED
    BY <1>2, <2>1 DEF Pinned
<1>6. \A q \in Op \ {p} : pc[q] \notin {"retireOld", "releasing", "flushNew", "commit"}
  BY <1>4 DEF Started
<1>7. ret[o] = "no"
  <2>1. ret[o] # "done"
    BY DEF IInv, OwnerInv
  <2>2. pc[Exit] \notin {"retireCurrent", "retireParked"}
    BY <1>4 DEF Started
  <2>3. ~Retiring(o)
    BY <1>5, <1>6, <2>2 DEF IInv, RetireInv
  <2> QED
    BY <2>1, <2>3 DEF Retiring
<1>8. CASE o \in parked
  BY <1>3, <1>7, <1>8 DEF IInv, PinInv
<1>9. CASE \E q \in Carriers : next[q] = o
  <2>1. PICK q \in Carriers : next[q] = o
    BY <1>9
  <2>2. q \in Op /\ pc[q] \in {"attaching"} \union Early /\ next[q] # None
    BY <1>6, <2>1 DEF Carriers
  <2>3. kind[q] = "fork"
    BY <2>2 DEF IInv, LocalInv, PathInv, TypeOK, AllKinds, Early, Before, Late, Published
  <2> QED
    BY <1>3, <1>7, <2>1, <2>2, <2>3
<1>10. \A q \in Leavers : old[q] # o
  BY <1>5, <1>6 DEF Leavers
<1> QED
  BY <1>3, <1>7, <1>8, <1>9, <1>10 DEF IInv, KeeperInv

(* Who answers for an owner, in the terms of the invariant.                *)
LEMMA KeepersAre ==
  ASSUME IInv, NEW o \in Owner
  PROVE  /\ \A q \in Op : Acquired(q, o) <=> q \in Carriers /\ next[q] = o
         /\ \A q \in Op : Replaced(q, o) <=> q \in Leavers /\ old[q] = o
         /\ Keepers(o) = {k \in {"current"} : o = cur /\ ret[o] = "no"}
                  \union {k \in {"parked"} : o \in parked}
                  \union {k \in {"retirement"} : Retiring(o)}
                  \union {<<q, "acquired">> : q \in {r \in Carriers : next[r] = o}}
                  \union {<<q, "replaced">> : q \in {r \in Leavers : old[r] = o}}
<1> USE OwnerFacts
<1>1. \A q \in Op : Acquired(q, o) <=> q \in Carriers /\ next[q] = o
  BY DEF Acquired, Carriers, Early
<1>2. \A q \in Op : Replaced(q, o) <=> q \in Leavers /\ old[q] = o
  BY DEF Replaced, Leavers, At
<1>3. /\ {q \in Op : Acquired(q, o)} = {r \in Carriers : next[r] = o}
      /\ {q \in Op : Replaced(q, o)} = {r \in Leavers : old[r] = o}
  BY <1>1, <1>2 DEF Carriers, Leavers
<1>4. {k \in {"current", "parked", "retirement"} : Role(k, o)}
        = {k \in {"current"} : o = cur /\ ret[o] = "no"}
            \union {k \in {"parked"} : o \in parked}
            \union {k \in {"retirement"} : Retiring(o)}
  <2>1. /\ Role("current", o) <=> (o = cur /\ ret[o] = "no")
        /\ Role("parked", o) <=> o \in parked
        /\ Role("retirement", o) <=> Retiring(o)
    BY DEF Role, Retiring
  <2> QED
    BY <2>1
<1> QED
  BY <1>1, <1>2, <1>3, <1>4 DEF Keepers

(* Exactly one answers for a live owner.                                   *)
LEMMA IInvKeepers == IInv => OneKeeperPerOwner
<1> SUFFICES ASSUME IInv, NEW o \in Owner
             PROVE  /\ life[o] = "held" => Cardinality(Keepers(o)) = 1
                    /\ life[o] # "held" => Keepers(o) = {}
                    /\ ret[o] # "twice"
  BY DEF OneKeeperPerOwner
<1> USE OwnerFacts
<1>1. /\ Keepers(o) = {k \in {"current"} : o = cur /\ ret[o] = "no"}
                  \union {k \in {"parked"} : o \in parked}
                  \union {k \in {"retirement"} : Retiring(o)}
                  \union {<<q, "acquired">> : q \in {r \in Carriers : next[r] = o}}
                  \union {<<q, "replaced">> : q \in {r \in Leavers : old[r] = o}}
  BY KeepersAre
<1>2. /\ ret[o] # "twice" /\ (ret[o] = "done" <=> life[o] = "gone")
      /\ life[o] = "unborn" => ret[o] = "no"
      /\ o = cur => life[o] # "unborn"
      /\ life[o] \in {"unborn", "held", "gone"}
  BY DEF IInv, OwnerInv, TypeOK
<1>3. /\ o \in parked => Spare(o)
      /\ \A q \in Carriers : next[q] = o => Spare(o)
      /\ \A q \in Leavers : old[q] = o => Spare(o)
  BY DEF IInv, KeeperInv
<1>4. CASE life[o] # "held"
  <2>1. ~(o = cur /\ ret[o] = "no") /\ ~Retiring(o) /\ ~Spare(o)
    BY <1>2, <1>4 DEF Retiring, Spare
  <2> QED
    BY <1>1, <1>2, <1>3, <1>4, <2>1
<1>5. ASSUME life[o] = "held"
      PROVE  \E k : Keepers(o) = {k}
  <2>1. CASE Retiring(o)
    <3>1. ret[o] # "no" /\ ~Spare(o)
      BY <2>1 DEF Retiring, Spare
    <3>2. Keepers(o) = {"retirement"}
      BY <1>1, <1>3, <2>1, <3>1
    <3> QED
      BY <3>2
  <2>2. CASE o = cur /\ ret[o] = "no"
    <3>1. ~Retiring(o) /\ ~Spare(o)
      BY <2>2 DEF Retiring, Spare
    <3>2. Keepers(o) = {"current"}
      BY <1>1, <1>3, <2>2, <3>1
    <3> QED
      BY <3>2
  <2>3. CASE o # cur /\ ret[o] = "no" /\ o \in parked
    <3>1. /\ ~Retiring(o)
          /\ \A q \in Carriers : next[q] # o
          /\ \A q \in Leavers : old[q] # o
      BY <2>3 DEF Retiring, IInv, KeeperInv
    <3>2. Keepers(o) = {"parked"}
      BY <1>1, <2>3, <3>1
    <3> QED
      BY <3>2
  <2>4. CASE o # cur /\ ret[o] = "no" /\ o \notin parked /\ \E q \in Carriers : next[q] = o
    <3>1. PICK q \in Carriers : next[q] = o
      BY <2>4
    <3>2. /\ ~Retiring(o)
          /\ \A r \in Carriers : next[r] = o => r = q
          /\ \A r \in Leavers : old[r] # o
      BY <2>4, <3>1 DEF Retiring, IInv, KeeperInv
    <3>3. Keepers(o) = {<<q, "acquired">>}
      BY <1>1, <2>4, <3>1, <3>2
    <3> QED
      BY <3>3
  <2>5. CASE o # cur /\ ret[o] = "no" /\ o \notin parked /\ \E q \in Leavers : old[q] = o
    <3>1. PICK q \in Leavers : old[q] = o
      BY <2>5
    <3>2. /\ ~Retiring(o)
          /\ \A r \in Leavers : old[r] = o => r = q
          /\ \A r \in Carriers : next[r] # o
      BY <2>5, <3>1 DEF Retiring, IInv, KeeperInv
    <3>3. Keepers(o) = {<<q, "replaced">>}
      BY <1>1, <2>5, <3>1, <3>2
    <3> QED
      BY <3>3
  <2>6. ret[o] = "no" \/ Retiring(o)
    BY <1>2, <1>5 DEF Retiring
  <2> QED
    BY <1>5, <2>1, <2>2, <2>3, <2>4, <2>5, <2>6 DEF IInv, KeeperInv
<1>6. life[o] = "held" => Cardinality(Keepers(o)) = 1
  BY <1>5, FS_Singleton
<1> QED
  BY <1>2, <1>4, <1>6

(* The pins a navigation waits for are not waiting for the gate.           *)
LEMMA IInvGate == IInv /\ "pick" \notin Kinds => GateNeverWaitsForItself
<1> SUFFICES ASSUME IInv, "pick" \notin Kinds, NEW p \in Op, pc[p] = "awaitPin",
                    NEW q \in pins, seen[q].session = target[p]
             PROVE  q \notin InLine /\ (q \in deferred => window \intersect InLine = {})
  BY DEF GateNeverWaitsForItself, At
<1> USE OwnerFacts
<1>1. kind[p] = "switch"
  <2>1. kind[p] \in {"switch", "pick"}
    BY DEF IInv, PathInv, TypeOK, AllKinds, Early, Before, Late, Published
  <2>2. kind[p] # "pick"
    BY DEF IInv, PathInv
  <2> QED
    BY <2>1, <2>2
<1>2. target[p] # SessionOf(cur) /\ seen[p].own = cur
  BY <1>1 DEF IInv, ScopeInv, Before, IsScopeCurrent
<1>3. Len(line) \in Nat /\ Len(line) >= 1 /\ line[1] = p
  BY StartedIsHead DEF IInv, TypeOK, Started
<1>4. q \in Op /\ kind[q] = "fork"
  BY DEF IInv, ForkInv, TypeOK
<1>5. \A r \in InLine : r = p \/ \E j \in 2..Len(line) : line[j] = r
  <2>1. DOMAIN line = 1..Len(line)
    BY DEF IInv, TypeOK
  <2>2. \A j \in 1..Len(line) : j = 1 \/ j \in 2..Len(line)
    BY <1>3
  <2> QED
    BY <1>3, <2>1, <2>2 DEF InLine
<1>6. q \notin InLine
  <2>1. ASSUME NEW j \in 2..Len(line), line[j] = q
        PROVE  FALSE
    <3>1. 1 \in 1..Len(line) /\ j \in 1..Len(line) /\ 1 < j
      BY <1>3
    <3>2. seen[q].session = SessionOf(cur)
      BY <1>1, <1>2, <1>3, <1>4, <2>1, <3>1 DEF IInv, GateInv
    <3> QED
      BY <1>2, <3>2
  <2> QED
    BY <1>1, <1>4, <1>5, <2>1
<1>7. ASSUME deferred # {}, NEW r \in window, r \in InLine
      PROVE  FALSE
  <2>1. CASE r = p
    BY <1>1, <1>2, <1>7, <2>1 DEF IInv, GateInv
  <2>2. ASSUME NEW j \in 2..Len(line), line[j] = r
        PROVE  FALSE
    <3>1. 1 \in 1..Len(line) /\ j \in 1..Len(line) /\ 1 < j
      BY <1>3
    <3> QED
      BY <1>1, <1>2, <1>3, <1>7, <2>2, <3>1 DEF IInv, GateInv
  <2> QED
    BY <1>5, <1>7, <2>1, <2>2
<1> QED
  BY <1>6, <1>7

-----------------------------------------------------------------------------
(* Every variable keeps its type; with it every owner and session an       *)
(* intent, the pool or the surface names is one there is.                  *)
THEOREM TypeCorrect == SafeSpec => []TypeOK
BY Inductive, PTL DEF IInv

(* No commit of a switch, /new, first session or fork publishes an owner   *)
(* whose lease is gone, and no retirement takes the owner on the surface.  *)
THEOREM SurfaceStaysAlive == SafeSpec => []SurfaceIsAlive
BY Inductive, IInvSurface, PTL

(* The open path dispatches a resume only for a session whose owner is     *)
(* gone: awaiting the pins, claiming parked owners and the scope check are *)
(* enough.                                                                 *)
THEOREM ResumesAreGranted == SafeSpec => []ResumeMeetsNoLiveOwner
BY Inductive, IInvResume, PTL

(* Hand-over through pool, intent, surface and retirement loses no owner   *)
(* and gives none to two, in commits that throw and in late forks as well. *)
THEOREM KeepersAreUnique == SafeSpec => []OneKeeperPerOwner
BY Inductive, IInvKeepers, PTL

(* A write admitted by the barrier ends on the owner it was admitted on:   *)
(* drain comes before commit and before the exit takes the surface.        *)
THEOREM WritesAreSafe == SafeSpec => []WritesKeepTheirOwner
<1>1. IInv => WritesKeepTheirOwner
  BY DEF IInv, WriteInv
<1> QED
  BY <1>1, Inductive, PTL

(* The pre-cancel of the exit, the abort listener and every retirement     *)
(* cancel an Agent at most once between them.                              *)
THEOREM CancelledOnce == SafeSpec => []AtMostOneShutdownCancel
<1>1. IInv => AtMostOneShutdownCancel
  BY DEF IInv, CancelInv, AtMostOneShutdownCancel
<1> QED
  BY <1>1, Inductive, PTL

(* The ledgers the exit awaits before it joins the gate and the pool it    *)
(* empties after leave no live owner behind.                               *)
THEOREM ExitIsClean == SafeSpec => []ExitLeavesNothing
<1>1. IInv => ExitLeavesNothing
  BY DEF IInv, ExitInv, ExitLeavesNothing, At
<1> QED
  BY <1>1, Inductive, PTL

(* Where every switch carries the scope it was asked in, as those of the   *)
(* commands and of the bootstrap do, the head of the gate never waits for  *)
(* a pin, or for the window of a command, whose holder is queued behind it.*)
THEOREM GateIsNoDeadlock ==
  ASSUME "pick" \notin Kinds
  PROVE  SafeSpec => []GateNeverWaitsForItself
<1>1. IInv => GateNeverWaitsForItself
  BY IInvGate
<1> QED
  BY <1>1, Inductive, PTL

-----------------------------------------------------------------------------
\* Who moves the surface.

(* Only a commit or an adoption moves the surface.                         *)
LEMMA OnlyCommitsMove ==
  ASSUME IInv, Moves, cur' # cur
  PROVE  \E p \in Op : Commits(p) \/ Adopts(p)
<1>1. ASSUME NEW p \in Op,
             \/ Walks(p) \/ Begins(p) \/ Quits(p) \/ Joins(p) \/ Withdraws(p)
             \/ Looks(p) \/ Obtains(p) \/ Turns(p) \/ Claims(p) \/ Throws(p) \/ RetiresOld(p)
      PROVE  FALSE
  BY <1>1 DEF Walks, Begins, Quits, Joins, Withdraws, Looks, Obtains, Gets, Turns, Claims,
              Throws, RetiresOld, identity
<1>2. ~(Closes \/ ExitWalks \/ ExitBegins \/ ExitQueues \/ ExitEnds \/ Stirs)
  BY DEF Closes, ExitWalks, ExitBegins, ExitQueues, ExitEnds, Finish, Stirs, identity
<1>3. ~\E o \in Owner : ExitTakes(o) \/ RetirementGoesOn(o) \/ RetireDispose(o)
  BY DEF ExitTakes, RetirementGoesOn, RetireDispose, identity
<1> QED
  BY <1>1, <1>2, <1>3 DEF Moves

(* It replaces the owner that was captured.                                *)
LEMMA CommitSawIt ==
  ASSUME IInv, NEW r \in Op, Commits(r) \/ Adopts(r), kind[r] \in {"switch", "new", "fork"}
  PROVE  cur = seen[r].own
<1>1. CASE Commits(r)
  <2>1. pc[r] = "commit" /\ kind[r] \in {"switch", "new"}
    BY <1>1 DEF Commits, Ordinary
  <2>2. IsScopeCurrent(seen[r])
    BY <2>1 DEF IInv, ScopeInv, Before
  <2> QED
    BY <2>2 DEF IsScopeCurrent
<1>2. CASE Adopts(r)
  <2>1. r \in Watching /\ seen[r].epoch = epoch /\ seen[r].session = SessionOf(cur)
    BY <1>2 DEF Adopts, IsNavigationCurrent, Watching, Forking
  <2> QED
    BY <2>1 DEF IInv, EpochInv
<1> QED
  BY <1>1, <1>2

(* A commit of a switch, /new or fork replaces the very owner its user     *)
(* saw, not a later generation of the same session.                        *)
THEOREM CommitsReplaceWhatTheySaw == SafeSpec => ReplacesOnlyWhatItSaw
<1>1. ASSUME IInv, [Next]_vars
      PROVE  [\A p \in Op : kind[p] \in {"switch", "new", "fork"} /\ Publishes(p)
                              => cur = seen[p].own]_vars
  <2>1. SUFFICES ASSUME Next, NEW p \in Op, kind[p] \in {"switch", "new", "fork"},
                        cur' # cur, pc'[p] # pc[p]
                 PROVE  cur = seen[p].own
    BY <1>1 DEF Publishes
  <2>2. PICK r \in Op : Commits(r) \/ Adopts(r)
    BY <1>1, <2>1, NextMoves, OnlyCommitsMove
  <2>3. p = r
    <3>1. Goto(r, pc'[r])
      BY <2>2 DEF Commits, Adopts
    <3> QED
      BY <1>1, <2>1, <3>1, OwnerFacts, GotoFacts DEF IInv
  <2> QED
    BY <1>1, <2>1, <2>2, <2>3, CommitSawIt
<1> QED
  BY <1>1, Inductive, PTL DEF SafeSpec, ReplacesOnlyWhatItSaw

-----------------------------------------------------------------------------
\* The lease protocol.

Leaving(o) == ret[o] # "no" \/ \E q \in Leavers : old[q] = o

(* The role of an owner, in the terms of the invariant.                    *)
LEMMA RoleIs ==
  ASSUME NEW o \in Owner
  PROVE  /\ RoleOf(o) = IF life[o] # "held" THEN life[o]
                        ELSE IF Leaving(o) THEN "leaving"
                        ELSE IF o = cur THEN "current" ELSE "spare"
         /\ RoleOf(o)' = IF life'[o] # "held" THEN life'[o]
                         ELSE IF Leaving(o)' THEN "leaving"
                         ELSE IF o = cur' THEN "current" ELSE "spare"
<1>1. \A q \in Op : Replaced(q, o) <=> q \in Leavers /\ old[q] = o
  BY OwnerFacts DEF Replaced, Leavers, At
<1>2. \A q \in Op : Replaced(q, o)' <=> q \in Leavers' /\ old'[q] = o
  BY OwnerFacts DEF Replaced, Leavers, At
<1>3. (\E q \in Op : Replaced(q, o)) <=> \E q \in Leavers : old[q] = o
  BY <1>1 DEF Leavers
<1>4. (\E q \in Op : Replaced(q, o)') <=> \E q \in Leavers' : old'[q] = o
  BY <1>2 DEF Leavers
<1> QED
  BY <1>3, <1>4 DEF RoleOf, Leaving

(* A step that makes no owner leave changes no lease.                      *)
LEMMA LeaseStutters ==
  ASSUME UNCHANGED <<cur, life, sess>>,
         \A o \in Owner : life[o] = "held" => (Leaving(o)' <=> Leaving(o))
  PROVE  UNCHANGED Lease!vars
<1>1. \A o \in Owner : RoleOf(o)' = RoleOf(o)
  BY RoleIs
<1> QED
  BY <1>1 DEF Lease!vars

(* The intent that acts is not one that waits to retire what it replaced.  *)
LEMMA LeaversStay ==
  ASSUME IInv, NEW p \in Op, Goto(p, pc'[p]), pc'[p] # "flushNew",
         p \notin Leavers, deferred' = deferred,
         \A q \in Op \ {p} : old'[q] = old[q], p \in deferred => old'[p] = old[p]
  PROVE  Leavers' = Leavers /\ \A q \in Leavers : old'[q] = old[q]
<1>1. \A q \in Op \ {p} : pc'[q] = pc[q]
  BY OwnerFacts, GotoFacts DEF IInv
<1>2. p \notin Leavers'
  BY DEF Leavers
<1> QED
  BY <1>1, <1>2 DEF Leavers

(* The steps of an intent that touch no owner.                             *)
LEMMA QuietLease ==
  ASSUME IInv, NEW p \in Op,
         \/ Walks(p) \/ Begins(p) \/ Quits(p) \/ Joins(p) \/ Withdraws(p)
         \/ Looks(p) \/ Turns(p) \/ Claims(p)
  PROVE  UNCHANGED Lease!vars
<1> USE OwnerFacts
<1>1. UNCHANGED <<cur, life, sess, ret, deferred>>
  BY DEF Walks, Begins, Quits, Joins, Withdraws, Looks, Turns, Claims, identity, owners, forks
<1>2. Goto(p, pc'[p]) /\ pc'[p] # "flushNew"
  <2>1. \A s \in {"drain", "done", "queued", "commit"} : Goto(p, s) => pc'[p] = s
    BY DEF IInv, TypeOK, Goto
  <2>2. CASE Walks(p) \/ Looks(p) \/ Turns(p)
    BY <2>2 DEF Walks, Walk, Looks, Turns
  <2>3. CASE Begins(p) \/ Quits(p) \/ Joins(p) \/ Withdraws(p) \/ Claims(p)
    BY <2>1, <2>3 DEF Begins, Quits, EndTask, Joins, Enqueue, Withdraws, Claims
  <2> QED
    BY <2>2, <2>3
<1>3. pc[p] = "flushNew" => old[p] = None
  <2>1. CASE Walks(p) \/ Looks(p) \/ Turns(p)
    BY <2>1 DEF Walks, Walk, Looks, Turns
  <2>2. CASE Begins(p) \/ Quits(p) \/ Joins(p) \/ Withdraws(p) \/ Claims(p)
    BY <2>2 DEF Begins, Quits, IsHead, At, Joins, Withdraws, Claims
  <2> QED
    BY <2>1, <2>2
<1>4. /\ \A q \in Op \ {p} : old'[q] = old[q]
      /\ p \in deferred => old'[p] = old[p]
  <2>1. CASE Turns(p)
    <3>1. p \notin deferred
      BY <2>1 DEF Turns, IInv, ForkInv
    <3> QED
      BY <2>1, <3>1 DEF Turns, IInv, TypeOK
  <2>2. CASE ~Turns(p)
    BY <2>2 DEF Walks, Begins, Quits, Joins, Withdraws, Looks, Claims
  <2> QED
    BY <2>1, <2>2
<1>5. Leavers' = Leavers /\ \A q \in Leavers : old'[q] = old[q]
  <2>1. CASE p \notin Leavers
    BY <1>1, <1>2, <1>4, <2>1, LeaversStay
  <2>2. CASE p \in Leavers
    <3>1. p \in deferred
      BY <1>3, <2>2 DEF Leavers
    <3>2. \A q \in Op \ {p} : pc'[q] = pc[q]
      BY <1>2, GotoFacts DEF IInv
    <3>3. p \in Leavers'
      BY <1>1, <1>4, <2>2, <3>1 DEF Leavers
    <3> QED
      BY <1>1, <1>4, <2>2, <3>1, <3>2, <3>3 DEF Leavers
  <2> QED
    BY <2>1, <2>2
<1>6. \A o \in Owner : Leaving(o)' <=> Leaving(o)
  BY <1>1, <1>5 DEF Leaving
<1> QED
  BY <1>1, <1>6, LeaseStutters

(* An owner that is to be retired stays on its way out when it is.         *)
LEMMA RetireLease ==
  ASSUME IInv, NEW p \in Op, RetiresOld(p)
  PROVE  UNCHANGED Lease!vars
<1> USE OwnerFacts
<1>1. /\ UNCHANGED <<cur, life, sess, old, deferred>> /\ pc[p] = "flushNew" /\ old[p] # None
      /\ Goto(p, "retireOld")
  BY DEF RetiresOld, identity, owners, forks
<1>2. pc'[p] = "retireOld" /\ \A q \in Op \ {p} : pc'[q] = pc[q]
  BY <1>1, GotoFacts DEF IInv
<1>3. p \in Leavers /\ p \notin deferred
  BY <1>1 DEF Leavers, IInv, ForkInv
<1>4. Leavers' = Leavers \ {p} /\ old[p] \in Owner /\ ret[old[p]] = "no"
  BY <1>1, <1>2, <1>3 DEF Leavers, IInv, KeeperInv, Spare, TypeOK
<1>5. ret'[old[p]] = "idle" /\ \A o \in Owner \ {old[p]} : ret'[o] = ret[o]
  BY <1>4 DEF RetiresOld, BeginRetirement
<1>6. \A o \in Owner : Leaving(o)' <=> Leaving(o)
  BY <1>1, <1>3, <1>4, <1>5 DEF Leaving
<1> QED
  BY <1>1, <1>6, LeaseStutters

(* So do the owners that waited for the window of a command.               *)
LEMMA CloseLease ==
  ASSUME IInv, Closes
  PROVE  UNCHANGED Lease!vars
<1>1. UNCHANGED <<cur, life, sess, old, pc>> /\ deferred' = {}
  BY DEF Closes, identity, owners
<1>2. deferred \subseteq Leavers /\ \A q \in deferred : pc[q] # "flushNew"
  BY DEF IInv, ForkInv, Leavers, TypeOK
<1>3. Leavers' = Leavers \ deferred
  BY <1>1, <1>2 DEF Leavers
<1>4. \A q \in Leavers : ret[old[q]] = "no"
  BY DEF IInv, KeeperInv, Spare
<1>5. \A o \in Owner : ret'[o] # "no" <=> ret[o] # "no" \/ \E q \in deferred : old[q] = o
  BY DEF Closes, BeginRetirement, Sources
<1>6. \A o \in Owner : Leaving(o)' <=> Leaving(o)
  BY <1>1, <1>2, <1>3, <1>5 DEF Leaving
<1> QED
  BY <1>1, <1>6, LeaseStutters

(* The waits of the exit, turns, writes and waits of a retirement.         *)
LEMMA ExitLease ==
  ASSUME IInv,
         \/ ExitWalks \/ ExitBegins \/ ExitQueues \/ ExitEnds \/ Stirs
         \/ \E o \in Owner : RetirementGoesOn(o)
  PROVE  UNCHANGED Lease!vars
<1> USE OwnerFacts
<1>1. UNCHANGED <<cur, life, sess, old, deferred>>
  BY DEF ExitWalks, ExitBegins, ExitQueues, ExitEnds, Finish, Stirs, RetirementGoesOn,
         identity, owners, forks
<1>2. \A o \in Owner : ret'[o] = "no" <=> ret[o] = "no"
  BY DEF ExitWalks, ExitBegins, ExitQueues, ExitEnds, Finish, Stirs, RetirementGoesOn, IInv,
         TypeOK
<1>3. \A q \in Op : pc'[q] = pc[q]
  <2>1. CASE \E s : Goto(Exit, s)
    BY <2>1, GotoFacts DEF IInv
  <2>2. CASE pc' = pc
    BY <2>2
  <2>3. (\E s : Goto(Exit, s)) \/ pc' = pc
    BY DEF ExitWalks, ExitBegins, ExitQueues, Enqueue, ExitEnds, Finish, EndTask, Stirs,
           RetirementGoesOn
  <2> QED
    BY <2>1, <2>2, <2>3
<1>4. Leavers' = Leavers
  BY <1>1, <1>3 DEF Leavers
<1>5. \A o \in Owner : Leaving(o)' <=> Leaving(o)
  BY <1>1, <1>2, <1>4 DEF Leaving
<1> QED
  BY <1>1, <1>5, LeaseStutters

(* An acquisition takes the lease of a session that nobody holds.          *)
LEMMA AcquireLease ==
  ASSUME IInv, NEW p \in Op, Obtains(p)
  PROVE  Lease!Next
<1> USE OwnerFacts
<1>1. PICK s \in Session : Gets(p, s)
  BY DEF Obtains
<1>2. /\ Fresh \in Owner /\ life[Fresh] = "unborn" /\ ret[Fresh] = "no"
      /\ Fresh # cur /\ \A q \in Leavers : old[q] # Fresh
  BY FreshOwner DEF Obtains
<1>3. /\ sess' = [sess EXCEPT ![Fresh] = s]
      /\ life' = [life EXCEPT ![Fresh] = "held"]
      /\ UNCHANGED <<cur, ret, old, deferred>>
  BY <1>1 DEF Gets, Acquire, Fresh, Born, identity, forks
<1>4. \A x \in Owner : life[x] = "held" => sess[x] # s
  <2>1. CASE ~Claimed(s)
    BY <2>1 DEF Claimed
  <2>2. CASE s = sessions + 1
    <3>1. sessions \in Nat /\ \A x \in Owner : life[x] = "held" => sess[x] \in 1..sessions
      BY DEF IInv, OwnerInv, TypeOK, Session
    <3> QED
      BY <2>2, <3>1
  <2> QED
    BY <1>1, <2>1, <2>2 DEF Gets
<1>5. Leavers' = Leavers
  <2>1. pc[p] # "flushNew" /\ pc'[p] # "flushNew" /\ \A q \in Op \ {p} : pc'[q] = pc[q]
    <3>1. pc[p] # "flushNew" /\ \E t \in {"commit", "leave", "attaching"} : Goto(p, t)
      BY <1>1 DEF Gets
    <3> QED
      BY <3>1, GotoFacts DEF IInv
  <2> QED
    BY <1>3, <2>1 DEF Leavers
<1>6. /\ \A o \in Owner \ {Fresh} : life'[o] = life[o]
      /\ life'[Fresh] = "held"
  BY <1>2, <1>3 DEF IInv, TypeOK
<1>7. \A o \in Owner : Leaving(o)' <=> Leaving(o)
  BY <1>3, <1>5 DEF Leaving
<1>8. /\ RoleOf(Fresh) = "unborn"
      /\ \A o \in Owner : RoleOf(o)' = IF o = Fresh THEN "spare" ELSE RoleOf(o)
      /\ \A o \in Owner : RoleOf(o) \in {"spare", "current", "leaving"} => life[o] = "held"
  <2>1. ~Leaving(Fresh)
    BY <1>2 DEF Leaving
  <2>2. \A o \in Owner : life[o] \in {"unborn", "held", "gone"}
    BY DEF IInv, TypeOK
  <2> QED
    BY <1>2, <1>3, <1>6, <1>7, <2>1, <2>2, RoleIs
<1>9. Lease!Acquire(Fresh, s)
  BY <1>2, <1>3, <1>4, <1>8 DEF Lease!Acquire, Lease!Holds
<1> QED
  BY <1>2, <1>9 DEF Lease!Next

(* A commit moves the surface to a spare owner.                            *)
LEMMA PublishLease ==
  ASSUME IInv, NEW p \in Op, Commits(p) \/ Adopts(p)
  PROVE  Lease!Next
<1> USE OwnerFacts
<1>1. /\ UNCHANGED <<life, sess>> /\ cur' = next[p] /\ Goto(p, pc'[p])
      /\ \A q \in Op \ {p} : old'[q] = old[q]
      /\ p \in Carriers
  BY DEF Commits, Adopts, owners, IInv, TypeOK, Carriers, LocalInv, Early
<1>2. \A q \in Op \ {p} : pc'[q] = pc[q]
  BY <1>1, GotoFacts DEF IInv
<1>3. /\ next[p] \in Owner /\ life[next[p]] = "held" /\ ret[next[p]] = "no" /\ next[p] # cur
      /\ \A q \in Leavers : old[q] # next[p] /\ old[q] # cur
  BY <1>1 DEF IInv, KeeperInv, Spare, Carriers, TypeOK
<1>4. p \notin Leavers
  BY DEF Commits, Adopts, Leavers, IInv, ForkInv
<1>5. ASSUME NEW o \in Owner
      PROVE  /\ o # cur => (Leaving(o)' <=> Leaving(o))
             /\ o = cur => Leaving(o)'
  <2>1. CASE Commits(p)
    <3>1. UNCHANGED <<ret, old, deferred>> /\ p \notin deferred
      BY <2>1 DEF Commits, forks, IInv, ForkInv
    <3>2. Leavers' = IF pc'[p] = "flushNew" /\ old[p] # None THEN Leavers \union {p} ELSE Leavers
      BY <1>2, <1>4, <3>1 DEF Leavers
    <3>3. /\ kind[p] \in Ordinary => pc'[p] = "flushNew" /\ old[p] = cur
          /\ kind[p] = "first" => pc'[p] # "flushNew" /\ cur = None
          /\ kind[p] \in Ordinary \union {"first"}
      BY <2>1 DEF Commits, IInv, LocalInv, Before, Ordinary
    <3> QED
      BY <1>3, <3>1, <3>2, <3>3 DEF Leaving
  <2>2. CASE Adopts(p)
    <3>1. /\ old'[p] = cur /\ cur # None /\ cur \in Owner /\ pc'[p] # "flushNew"
          /\ \A x \in Owner \ {cur} : ret'[x] = ret[x]
          /\ ret[cur] = "no"
      BY <2>2, CurrentIsApart DEF Adopts, IInv, LocalInv, TypeOK, ExitInv, BeginRetirement
    <3>2. \/ deferred' = deferred /\ ret'[cur] = "idle"
          \/ deferred' = deferred \union {p} /\ ret' = ret
      BY <2>2, <3>1 DEF Adopts, BeginRetirement
    <3>3. p \notin deferred
      BY <2>2 DEF Adopts, IInv, ForkInv
    <3>4. Leavers' = IF deferred' = deferred THEN Leavers ELSE Leavers \union {p}
      BY <1>1, <1>2, <1>4, <3>1, <3>2, <3>3 DEF Leavers
    <3>5. CASE deferred' = deferred
      <4>1. ret'[cur] = "idle" /\ Leavers' = Leavers /\ \A q \in Leavers : old'[q] = old[q]
        BY <1>1, <1>4, <3>2, <3>3, <3>4, <3>5 DEF Leavers
      <4> QED
        BY <3>1, <4>1 DEF Leaving
    <3>6. CASE deferred' # deferred
      <4>1. ret' = ret /\ Leavers' = Leavers \union {p} /\ \A q \in Leavers : old'[q] = old[q]
        BY <1>1, <1>4, <3>2, <3>4, <3>6 DEF Leavers
      <4> QED
        BY <3>1, <4>1 DEF Leaving
    <3> QED
      BY <3>5, <3>6
  <2> QED
    BY <2>1, <2>2
<1>6. ~Leaving(next[p])
  BY <1>3 DEF Leaving
<1>7. /\ RoleOf(next[p]) = "spare"
      /\ \A o \in Owner : RoleOf(o)' = IF o = next[p] THEN "current"
                                       ELSE IF RoleOf(o) = "current" THEN "leaving"
                                       ELSE RoleOf(o)
  <2>1. RoleOf(next[p]) = "spare"
    BY <1>3, <1>6, RoleIs
  <2>2. ASSUME NEW o \in Owner, o = next[p]
        PROVE  RoleOf(o)' = "current"
    BY <1>1, <1>3, <1>5, <1>6, <2>2, RoleIs
  <2>3. ASSUME NEW o \in Owner, o = cur
        PROVE  RoleOf(o)' = IF RoleOf(o) = "current" THEN "leaving" ELSE RoleOf(o)
    <3>1. life[o] \in {"unborn", "held", "gone"} /\ Leaving(o)' /\ life'[o] = life[o]
      BY <1>1, <1>5, <2>3 DEF IInv, TypeOK
    <3> QED
      BY <2>3, <3>1, RoleIs
  <2>4. ASSUME NEW o \in Owner, o # cur, o # next[p]
        PROVE  RoleOf(o)' = RoleOf(o) /\ RoleOf(o) # "current"
    <3>1. life[o] \in {"unborn", "held", "gone"}
      BY DEF IInv, TypeOK
    <3> QED
      BY <1>1, <1>5, <2>4, <3>1, RoleIs
  <2> QED
    BY <1>3, <2>1, <2>2, <2>3, <2>4
<1>8. Lease!Publish(next[p])
  BY <1>1, <1>3, <1>7 DEF Lease!Publish
<1> QED
  BY <1>3, <1>8 DEF Lease!Next

(* An owner that is given up is on its way out.                            *)
LEMMA AbandonLease ==
  ASSUME IInv, NEW x \in Owner, life[x] = "held", ret[x] = "no",
         \A q \in Leavers : old[q] # x,
         ret'[x] # "no", \A o \in Owner \ {x} : ret'[o] = ret[o],
         UNCHANGED <<cur, life, sess, old>>, Leavers' = Leavers
  PROVE  Lease!Next
<1>1. ~Leaving(x) /\ Leaving(x)' /\ \A o \in Owner \ {x} : Leaving(o)' <=> Leaving(o)
  BY DEF Leaving
<1>2. /\ RoleOf(x) \in {"spare", "current"}
      /\ \A o \in Owner : RoleOf(o)' = IF o = x THEN "leaving" ELSE RoleOf(o)
  BY <1>1, RoleIs
<1>3. Lease!Abandon(x)
  BY <1>2 DEF Lease!Abandon
<1> QED
  BY <1>3 DEF Lease!Next

(* So is the new owner of a commit that threw.                             *)
LEMMA ThrowLease ==
  ASSUME IInv, NEW p \in Op, Throws(p)
  PROVE  Lease!Next
<1> USE OwnerFacts
<1>1. /\ UNCHANGED <<cur, life, sess, old, deferred>> /\ Goto(p, "releasing") /\ p \in Carriers
      /\ pc[p] # "flushNew"
  BY DEF Throws, owners, forks, IInv, LocalInv, Carriers, Early
<1>2. pc'[p] = "releasing" /\ \A q \in Op \ {p} : pc'[q] = pc[q]
  BY <1>1, GotoFacts DEF IInv
<1>3. /\ next[p] \in Owner /\ life[next[p]] = "held" /\ ret[next[p]] = "no"
      /\ \A q \in Leavers : old[q] # next[p]
  BY <1>1 DEF IInv, KeeperInv, Spare, Carriers, TypeOK
<1>4. ret'[next[p]] = "idle" /\ \A o \in Owner \ {next[p]} : ret'[o] = ret[o]
  BY <1>3 DEF Throws, BeginRetirement
<1>5. Leavers' = Leavers
  BY <1>1, <1>2 DEF Leavers
<1> QED
  BY <1>1, <1>3, <1>4, <1>5, AbandonLease

(* So is an owner that the exit retires.                                   *)
LEMMA ExitTakesLease ==
  ASSUME IInv, NEW x \in Owner, ExitTakes(x)
  PROVE  Lease!Next
<1> USE OwnerFacts
<1>1. /\ UNCHANGED <<cur, life, sess, old, deferred>> /\ Goto(Exit, pc'[Exit])
      /\ life[x] = "held" /\ ret[x] = "no" /\ (x = cur \/ x \in parked)
  BY DEF ExitTakes, identity, forks
<1>2. \A q \in Op : pc'[q] = pc[q]
  BY <1>1, GotoFacts DEF IInv
<1>3. \A q \in Leavers : old[q] # x
  BY <1>1 DEF IInv, KeeperInv, Spare
<1>4. ret'[x] = "idleShutdown" /\ \A o \in Owner \ {x} : ret'[o] = ret[o]
  BY <1>1 DEF ExitTakes, BeginRetirement
<1>5. Leavers' = Leavers
  BY <1>1, <1>2 DEF Leavers
<1> QED
  BY <1>1, <1>3, <1>4, <1>5, AbandonLease

(* The end of a retirement releases the lease.                             *)
LEMMA ReleaseLease ==
  ASSUME IInv, NEW x \in Owner, RetireDispose(x)
  PROVE  Lease!Next
<1>1. /\ UNCHANGED <<cur, sess, old, pc, deferred>> /\ ret[x] = "dispose"
      /\ ret' = [ret EXCEPT ![x] = "done"] /\ life' = [life EXCEPT ![x] = "gone"]
  BY DEF RetireDispose, identity
<1>2. life[x] = "held"
  BY <1>1 DEF IInv, OwnerInv, TypeOK
<1>3. /\ life'[x] = "gone" /\ \A o \in Owner \ {x} : life'[o] = life[o] /\ ret'[o] = ret[o]
  BY <1>1 DEF IInv, TypeOK
<1>4. Leavers' = Leavers
  BY <1>1 DEF Leavers
<1>5. Leaving(x) /\ \A o \in Owner \ {x} : Leaving(o)' <=> Leaving(o)
  BY <1>1, <1>3, <1>4 DEF Leaving
<1>6. /\ RoleOf(x) = "leaving"
      /\ \A o \in Owner : RoleOf(o)' = IF o = x THEN "gone" ELSE RoleOf(o)
  BY <1>1, <1>2, <1>3, <1>5, RoleIs
<1>7. Lease!Release(x)
  BY <1>1, <1>6 DEF Lease!Release
<1> QED
  BY <1>7 DEF Lease!Next

(* The leases at startup.                                                  *)
LEMMA LeaseInit == Init => Lease!Init
<1> SUFFICES ASSUME Init PROVE Lease!Init
  OBVIOUS
<1> USE OwnerFacts
<1>1. Leavers = {}
  BY DEF Init, Leavers
<1>2. \A o \in Owner : ~Leaving(o)
  BY <1>1 DEF Init, Leaving
<1>3. \A o \in Owner : RoleOf(o) = IF o = cur THEN "current" ELSE "unborn"
  BY <1>2, RoleIs DEF Init
<1>4. sess = [o \in Owner |-> IF o = cur THEN 1 ELSE None]
  BY DEF Init
<1>5. CASE cur = None
  BY <1>3, <1>4, <1>5 DEF Lease!Init
<1>6. CASE cur = 1
  <2>1. 1 \in Owner /\ 1 \in Session
    BY BoundsAssumption, FS_CardinalityType DEF Owner, Session
  <2> QED
    BY <1>3, <1>4, <1>6, <2>1 DEF Lease!Init
<1> QED
  BY <1>5, <1>6 DEF Init

(* Every step of navigation, fork, retirement and exit is a step of the    *)
(* lease protocol of SessionLease or changes no lease.                     *)
THEOREM RefinesSessionLease == SafeSpec => ImplementsSessionLease
<1>1. IInv /\ [Next]_vars => [Lease!Next]_(Lease!vars)
  <2>1. SUFFICES ASSUME IInv, [Next]_vars
                 PROVE  Lease!Next \/ UNCHANGED Lease!vars
    OBVIOUS
  <2>2. Moves
    BY <2>1, NextMoves, StutterMoves DEF Moves
  <2> QED
    BY <2>1, <2>2, QuietLease, RetireLease, CloseLease, ExitLease, AcquireLease, PublishLease,
       ThrowLease, ExitTakesLease, ReleaseLease DEF Moves
<1> QED
  BY <1>1, Inductive, LeaseInit, PTL DEF SafeSpec, ImplementsSessionLease, Lease!Spec
=============================================================================
