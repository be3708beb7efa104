-------------------------- MODULE SessionAdmission --------------------------
(***************************************************************************)
(* The two objects every live-session mutation goes through:               *)
(*   SessionTransitionGate   app/session/transition-gate.ts                *)
(*   SessionOperationBarrier app/session/operation-barrier.ts              *)
(* The gate runs whole-session transitions one at a time in FIFO order.    *)
(* Its task freezes the barrier, optionally stops the old owner, waits for *)
(* the writers admitted before the freeze, and only then runs its body.    *)
(* One action is one synchronous stretch of JavaScript: what happens       *)
(* between two awaits is one step, and anything may run at an await.       *)
(***************************************************************************)
EXTENDS Integers, Sequences, FiniteSets

CONSTANTS Task,    \* transition callers; a slot is reused after it settles
          Writer   \* writer callers; a slot is reused after it leaves

ASSUME TaskAssumption == IsFiniteSet(Task)
ASSUME WriterAssumption == IsFiniteSet(Writer)

VARIABLES line,     \* gate: the promise chain hanging off `tail`, oldest first
          active,   \* gate: `active`
          queued,   \* gate: `queued`
          frozen,   \* barrier: `frozen`
          writers,  \* barrier: the `writers` counter
          wait,     \* barrier: the transitions parked in the `wait` array
          pc,       \* where each transition caller is
          wpc       \* where each writer caller is

gateVars == <<line, active, queued>>
barrierVars == <<frozen, writers, wait>>
vars == <<line, active, queued, frozen, writers, wait, pc, wpc>>

\* out -> queued -> (stopping ->) (parked -> woken ->) body -> leaving -> out
TaskState == {"out", "queued", "stopping", "parked", "woken", "body",
              "leaving", "bug"}
WriterState == {"out", "in", "refused"}

TypeOK == /\ line \in Seq(Task)
          /\ active \in BOOLEAN
          /\ queued \in Nat
          /\ frozen \in BOOLEAN
          /\ writers \in Nat
          /\ wait \in SUBSET Task
          /\ pc \in [Task -> TaskState]
          /\ wpc \in [Writer -> WriterState]

Init == /\ line = <<>>
        /\ active = FALSE
        /\ queued = 0
        /\ frozen = FALSE
        /\ writers = 0
        /\ wait = {}
        /\ pc = [t \in Task |-> "out"]
        /\ wpc = [w \in Writer |-> "out"]

----------------------------------------------------------------------------
(* The gate's two read-only views.                                         *)
busy == active
pending == queued > 0

\* Definitions named Bad... are wrong variants of the definition they precede;
\* no specification uses them.  Each is a slip that one property excludes.

\* `queued` counted when the task is called, not when it is asked for.
BadQueueUncounted(t) ==
  /\ pc[t] = "out"
  /\ line' = Append(line, t)
  /\ pc' = [pc EXCEPT ![t] = "queued"]
  /\ UNCHANGED <<active, queued, barrierVars, wpc>>

\* gate.run from outside a transition task: the task joins the chain.
Queue(t) ==
  /\ pc[t] = "out"
  /\ line' = Append(line, t)
  /\ queued' = queued + 1
  /\ pc' = [pc EXCEPT ![t] = "queued"]
  /\ UNCHANGED <<active, barrierVars, wpc>>

\* No drain: the freeze alone is taken for exclusion.
BadRunUndrained(t) ==
  /\ wait' = wait
  /\ pc' = [pc EXCEPT ![t] = "body"]

\* `while (this.writers > 0)` of runTransition, then the call of `fn`.
DrainOrRun(t) ==
  IF writers > 0
    THEN /\ wait' = wait \union {t}
         /\ pc' = [pc EXCEPT ![t] = "parked"]
    ELSE /\ wait' = wait
         /\ pc' = [pc EXCEPT ![t] = "body"]

\* The previous task settled, so the head of the chain is called.
Called(t) ==
  /\ line # <<>>
  /\ t = Head(line)
  /\ pc[t] = "queued"
  /\ active' = TRUE
  /\ UNCHANGED <<line, queued, writers, wpc>>

\* The task returns before it reaches the barrier (a scoped recheck that
\* failed, a same-session no-op switch).
StartNoOp(t) ==
  /\ Called(t)
  /\ pc' = [pc EXCEPT ![t] = "leaving"]
  /\ UNCHANGED <<frozen, wait>>

\* runTransition while frozen throws 'BUG: reentrant session transition';
\* otherwise it freezes.  Without a stop hook it looks at the writers at once.
StartPlain(t) ==
  /\ Called(t)
  /\ frozen' = TRUE
  /\ IF frozen
       THEN pc' = [pc EXCEPT ![t] = "bug"] /\ UNCHANGED wait
       ELSE DrainOrRun(t)

\* With a stop hook it freezes and awaits the stop.
StartNavigation(t) ==
  /\ Called(t)
  /\ frozen' = TRUE
  /\ pc' = [pc EXCEPT ![t] = IF frozen THEN "bug" ELSE "stopping"]
  /\ UNCHANGED wait

StopAccepted(t) ==
  /\ pc[t] = "stopping"
  /\ DrainOrRun(t)
  /\ UNCHANGED <<gateVars, frozen, writers, wpc>>

\* A parked transition whose resolver ran re-evaluates the loop condition.
Resume(t) ==
  /\ pc[t] = "woken"
  /\ DrainOrRun(t)
  /\ UNCHANGED <<gateVars, frozen, writers, wpc>>

\* Every resolver of the wait array is called and the array is emptied.
WakeAll(p) == [u \in Task |-> IF u \in wait THEN "woken" ELSE p[u]]

\* runTransition's `finally`: a stop that throws ends the transition before
\* its body, a body ends by returning or by throwing.
Unfreeze(t) ==
  /\ frozen' = FALSE
  /\ wait' = {}
  /\ pc' = WakeAll([pc EXCEPT ![t] = "leaving"])
  /\ UNCHANGED <<gateVars, writers, wpc>>

\* The stop hook is awaited outside the try block.
BadStopThrowsFrozen(t) ==
  /\ pc[t] = "stopping"
  /\ pc' = [pc EXCEPT ![t] = "leaving"]
  /\ UNCHANGED <<gateVars, barrierVars, wpc>>

StopThrows(t) == pc[t] = "stopping" /\ Unfreeze(t)
BodyEnds(t) == pc[t] = "body" /\ Unfreeze(t)

\* The gate's reaction to the settled task, fulfilled or rejected.
Settle(t) ==
  /\ pc[t] \in {"leaving", "bug"}
  /\ line' = Tail(line)
  /\ active' = FALSE
  /\ queued' = queued - 1
  /\ pc' = [pc EXCEPT ![t] = "out"]
  /\ UNCHANGED <<barrierVars, wpc>>

----------------------------------------------------------------------------
\* A writer does not look at `frozen`.
BadAdmitWriterFrozen(w) ==
  /\ wpc[w] = "out"
  /\ writers' = writers + 1
  /\ wpc' = [wpc EXCEPT ![w] = "in"]
  /\ UNCHANGED <<gateVars, frozen, wait, pc>>

AdmitWriter(w) ==
  /\ wpc[w] = "out"
  /\ ~frozen
  /\ writers' = writers + 1
  /\ wpc' = [wpc EXCEPT ![w] = "in"]
  /\ UNCHANGED <<gateVars, frozen, wait, pc>>

\* The refusal is thrown inside the try block, so `finally` uncounts it.
BadRefuseWriterUncounts(w) ==
  /\ wpc[w] = "out"
  /\ frozen
  /\ writers' = writers - 1
  /\ wpc' = [wpc EXCEPT ![w] = "refused"]
  /\ UNCHANGED <<gateVars, frozen, wait, pc>>

\* TransitionInProgressError: the caller restores the draft and may retry.
RefuseWriter(w) ==
  /\ wpc[w] = "out"
  /\ frozen
  /\ wpc' = [wpc EXCEPT ![w] = "refused"]
  /\ UNCHANGED <<gateVars, barrierVars, pc>>

RetryLater(w) ==
  /\ wpc[w] = "refused"
  /\ wpc' = [wpc EXCEPT ![w] = "out"]
  /\ UNCHANGED <<gateVars, barrierVars, pc>>

\* The last writer leaves without calling the parked resolvers.
BadLeaveWriterSilent(w) ==
  /\ wpc[w] = "in"
  /\ writers' = writers - 1
  /\ wpc' = [wpc EXCEPT ![w] = "out"]
  /\ UNCHANGED <<gateVars, frozen, wait, pc>>

\* The write settled: the last one out wakes the parked transitions.
LeaveWriter(w) ==
  /\ wpc[w] = "in"
  /\ writers' = writers - 1
  /\ wpc' = [wpc EXCEPT ![w] = "out"]
  /\ IF writers' = 0
       THEN wait' = {} /\ pc' = WakeAll(pc)
       ELSE UNCHANGED <<wait, pc>>
  /\ UNCHANGED <<gateVars, frozen>>

----------------------------------------------------------------------------
Start(t) == StartNoOp(t) \/ StartPlain(t) \/ StartNavigation(t)

\* What a started transition does by itself, without a new request.
Proceed(t) == \/ Start(t) \/ StopAccepted(t) \/ StopThrows(t)
              \/ Resume(t) \/ BodyEnds(t) \/ Settle(t)

Next == \/ \E t \in Task : Queue(t) \/ Proceed(t)
        \/ \E w \in Writer : \/ AdmitWriter(w) \/ RefuseWriter(w)
                             \/ RetryLater(w) \/ LeaveWriter(w)

\* The event loop runs every ready continuation; an accepted stop, a body and
\* an admitted write are promises that settle.  Requests need not come.
Fairness == /\ \A t \in Task : WF_vars(Proceed(t))
            /\ \A w \in Writer : WF_vars(LeaveWriter(w))

SafeSpec == Init /\ [][Next]_vars
Spec == SafeSpec /\ Fairness

----------------------------------------------------------------------------
InSection == {"stopping", "parked", "woken", "body"}
Started == InSection \union {"leaving", "bug"}

(* A transition body never overlaps an admitted write or another body: the *)
(* freeze refuses later writers and the drain outlasts the earlier ones    *)
(* (runWriter and runTransition of operation-barrier.ts).                  *)
BodyIsExclusive ==
  \A t \in Task : pc[t] = "body" =>
    /\ \A w \in Writer : wpc[w] # "in"
    /\ \A u \in Task \ {t} : pc[u] \notin InSection

(* The throw 'BUG: reentrant session transition' is unreachable while all  *)
(* transitions come through the gate (operation-barrier.ts:124).           *)
NeverReentrant == \A t \in Task : pc[t] # "bug"

(* No lost wake-up: a transition parked in the drain is in the wait array  *)
(* and some admitted writer has still to leave, so somebody will call its  *)
(* resolver; nobody else sits in the array.                                *)
NoLostWakeup ==
  \A t \in Task :
    /\ pc[t] = "parked" <=> t \in wait
    /\ pc[t] = "parked" => \E w \in Writer : wpc[w] = "in"

(* `pending` covers every moment from the request to the settlement, and   *)
(* the freeze lies inside `busy`: what the exit's pre-cancel and the       *)
(* queue-recall deferral read is never false too early.                    *)
PendingCoversTransition ==
  /\ pending <=> \E t \in Task : pc[t] # "out"
  /\ frozen => busy
  /\ busy => pending

(* Every transition that was asked for settles: it passes the FIFO queue,  *)
(* the stop and the drain, whatever the other callers do.                  *)
EveryTransitionSettles == \A t \in Task : pc[t] = "queued" ~> pc[t] = "out"

(* The gate and the barrier together implement the exclusive, ordered      *)
(* admission of ExclusiveTransition.                                       *)
Promise == INSTANCE ExclusiveTransition
             WITH inside <- {t \in Task : pc[t] = "body"},
                  writing <- {w \in Writer : wpc[w] = "in"}
ImplementsExclusiveTransition == Promise!Spec
============================================================================
