--------------------------- MODULE QueuePullBack ---------------------------
(***************************************************************************)
(* Alt+Up: the queued messages of the live session come back to the editor *)
(* while transitions of that session are queued and run.                   *)
(*   app/submission/runtime.ts  pullBackQueue, the ledger of recalls       *)
(*   app/session/runtime.ts     the places that settle the ledger          *)
(*   app/session/commit-order.ts  bump, publication, recall commit         *)
(* The gate and the barrier are taken at the grain of ExclusiveTransition. *)
(* A message stands for its text and its attachments.                      *)
(***************************************************************************)
EXTENDS Integers, Sequences, FiniteSets

CONSTANTS Rows,     \* how many messages are queued at the Host at first
          Pull,     \* presses of Alt+Up; each is used once
          Task,     \* session transitions; each is used once
          Throws    \* where the synchronous commit section may throw

ASSUME RowsAssumption == Rows \in Nat \ {0}
ASSUME PullAssumption == IsFiniteSet(Pull)
ASSUME ThrowsAssumption == Throws \subseteq {"beforeBump", "afterBump"}

Message == 1..Rows   \* in the order in which they were queued: the oldest is the least

IsOldest(m, S) == m \in S /\ \A n \in S : m <= n

\* A navigation stops the old owner first; /preset and a fork's adoption do not.
Kind == {"navigation", "preset", "fork"}

VARIABLES
  line, frozen,  \* the gate's chain, the barrier's flag
  pc, kind,      \* where each transition is, and what it is
  owner, gen,    \* how often the owner and the generation were replaced
  disposed,      \* the surface is disposed
  queue,         \* Host: the inbox rows of the live session
  taken,         \* Host: the rows a turn has claimed
  editor,        \* how often the editor holds the text of a message
  phase,         \* where each pull-back is
  rows,          \* `queued` of the pull-back: the rows it saw
  gone,          \* the rows whose removal has settled (`settledRemovals`)
  subject,       \* `queuedSubject`, the owner and generation it started with
  keep,          \* the rows whose texts a deferred recall restores
  staged,        \* the recalled drafts a pull-back keeps alive
  pins,          \* the pull-backs whose drafts are pinned
  unsure         \* history: messages kept although their removal is unknown

tasks == <<line, frozen, pc, kind>>
session == <<owner, gen, disposed>>
host == <<queue, taken>>
pulls == <<phase, rows, gone, subject, keep, staged, pins, unsure>>
vars == <<line, frozen, pc, kind, owner, gen, disposed, queue, taken, editor,
          phase, rows, gone, subject, keep, staged, pins, unsure>>

Init == /\ line = <<>> /\ frozen = FALSE
        /\ pc = [t \in Task |-> "out"] /\ kind = [t \in Task |-> "navigation"]
        /\ owner = 0 /\ gen = 0 /\ disposed = FALSE
        /\ queue = Message /\ taken = {}
        /\ editor = [m \in Message |-> 0]
        /\ phase = [p \in Pull |-> "idle"]
        /\ rows = [p \in Pull |-> {}]
        /\ gone = [p \in Pull |-> {}]
        /\ subject = [p \in Pull |-> <<0, 0>>]
        /\ keep = [p \in Pull |-> {}]
        /\ staged = [p \in Pull |-> {}]
        /\ pins = {} /\ unsure = {}

----------------------------------------------------------------------------
\* The ledger of deferred recalls (`pendingQueueRecalls`).
recalls == {p \in Pull : phase[p] = "deferred"}

Restored(ps) == [m \in Message |-> editor[m] + Cardinality({p \in ps : m \in keep[p]})]

\* isOwnerTokenCurrent, once the step has moved owner and generation.
SubjectIsCurrent(p) == subject[p] = <<owner', gen'>>

\* The pin outlives the pull-back.
BadUnpin(ps) == pins

\* releaseRecalled
Unpin(ps) == pins \ ps

\* A committed recall drops its drafts; an aborted one puts its text back into
\* the editor, if that is still the editor of its session.
Back(committed) == {p \in recalls : ~committed /\ ~disposed /\ SubjectIsCurrent(p)}

\* settleQueueRecalls
SettleRecalls(committed) ==
  /\ phase' = [p \in Pull |-> IF p \in recalls THEN "done" ELSE phase[p]]
  /\ pins' = Unpin(recalls)
  /\ staged' = [p \in Pull |-> IF p \in recalls \ Back(committed) THEN {} ELSE staged[p]]
  /\ editor' = Restored(Back(committed))
  /\ UNCHANGED <<rows, gone, subject, keep, unsure>>

----------------------------------------------------------------------------
\* Session transitions.
Request(t, k) ==
  /\ pc[t] = "out" /\ ~disposed
  /\ line' = Append(line, t)
  /\ kind' = [kind EXCEPT ![t] = k]
  /\ pc' = [pc EXCEPT ![t] = "queued"]
  /\ UNCHANGED <<frozen, session, host, editor, pulls>>

Called(t) == line # <<>> /\ t = Head(line) /\ pc[t] = "queued"

\* A switch that was superseded while it waited, or to the session shown.
StartNoOp(t) ==
  /\ Called(t) /\ kind[t] = "navigation"
  /\ pc' = [pc EXCEPT ![t] = "leaving"]
  /\ UNCHANGED <<line, frozen, kind, session, host>>
  /\ SettleRecalls(FALSE)

StartTask(t) ==
  /\ Called(t)
  /\ frozen' = TRUE
  /\ pc' = [pc EXCEPT ![t] = IF kind[t] = "navigation" THEN "stopping" ELSE "drain"]
  /\ UNCHANGED <<line, kind, session, host, editor, pulls>>

StopAccepted(t) ==
  /\ pc[t] = "stopping"
  /\ pc' = [pc EXCEPT ![t] = "drain"]
  /\ UNCHANGED <<line, frozen, kind, session, host, editor, pulls>>

\* The body is never reached, and neither are its settlements.
StopFails(t) ==
  /\ pc[t] = "stopping"
  /\ pc' = [pc EXCEPT ![t] = "leaving"] /\ frozen' = FALSE
  /\ UNCHANGED <<line, kind, session, host, editor, pulls>>

\* No drain: the freeze alone is taken for exclusion.
BadDrain(t) ==
  /\ pc[t] = "drain"
  /\ pc' = [pc EXCEPT ![t] = "body"]
  /\ UNCHANGED <<line, frozen, kind, session, host, editor, pulls>>

Drain(t) ==
  /\ pc[t] = "drain" /\ \A p \in Pull : phase[p] # "removing"
  /\ pc' = [pc EXCEPT ![t] = "body"]
  /\ UNCHANGED <<line, frozen, kind, session, host, editor, pulls>>

LeaveBody(t) ==
  /\ pc[t] = "body"
  /\ pc' = [pc EXCEPT ![t] = "leaving"] /\ frozen' = FALSE
  /\ UNCHANGED <<line, kind>>

\* The body ends without a commit: a preflight or the create failed, the adoption
\* was refused, or it is the body of /preset, which replaces neither owner nor
\* generation.  A fork settles the ledger only after the gate.
BodyEnds(t) ==
  /\ LeaveBody(t)
  /\ UNCHANGED <<session, host>>
  /\ IF kind[t] = "fork" THEN UNCHANGED <<editor, pulls>> ELSE SettleRecalls(FALSE)

\* A navigation and the adoption of a fork have a commit section.
Commits(t) == LeaveBody(t) /\ kind[t] # "preset"

\* The commit section throws before the publication: the owner stays.
CommitThrows(t) ==
  /\ Commits(t)
  /\ \E w \in Throws : gen' = IF w = "afterBump" THEN gen + 1 ELSE gen
  /\ UNCHANGED <<owner, disposed, host>>
  /\ IF kind[t] = "fork" THEN UNCHANGED <<editor, pulls>> ELSE SettleRecalls(FALSE)

\* runOrdinaryCommit, runForkCommit: the recalls go with the session replaced.
Commit(t) ==
  /\ Commits(t)
  /\ owner' = owner + 1 /\ gen' = gen + 1
  /\ queue' = {}
  /\ UNCHANGED <<disposed, taken>>
  /\ SettleRecalls(TRUE)

\* Only a body that was reached settles the ledger.
BadEndTask(t) ==
  /\ pc[t] = "leaving" /\ line' = Tail(line)
  /\ pc' = [pc EXCEPT ![t] = "done"]
  /\ UNCHANGED <<frozen, kind, session, host, editor, pulls>>

\* The gate's reaction, and before the next task is called the settlement that
\* a navigation or a fork registered on the gate's promise.
EndTask(t) ==
  /\ pc[t] = "leaving" /\ line' = Tail(line)
  /\ pc' = [pc EXCEPT ![t] = "done"]
  /\ UNCHANGED <<frozen, kind, session, host>>
  /\ IF kind[t] = "preset" THEN UNCHANGED <<editor, pulls>> ELSE SettleRecalls(FALSE)

----------------------------------------------------------------------------
\* The pull-back.  A pull-back whose drafts cannot be staged changes nothing.
\* A key press is a macrotask: it never falls between the end of a body and the
\* gate's reaction to it, which are microtasks of one another.
Pressed(p) == /\ phase[p] = "idle" /\ ~disposed /\ queue # {}
              /\ \A t \in Task : pc[t] # "leaving"

PullBack(p) ==
  /\ Pressed(p) /\ ~frozen
  /\ phase' = [phase EXCEPT ![p] = "removing"]
  /\ rows' = [rows EXCEPT ![p] = queue]
  /\ subject' = [subject EXCEPT ![p] = <<owner, gen>>]
  /\ staged' = [staged EXCEPT ![p] = queue]
  /\ pins' = pins \union {p}
  /\ UNCHANGED <<tasks, session, host, editor, gone, keep, unsure>>

\* withWriter refuses: the outer catch drops the drafts and the pin again.
PullRefused(p) ==
  /\ Pressed(p) /\ frozen
  /\ phase' = [phase EXCEPT ![p] = "done"]
  /\ UNCHANGED <<tasks, session, host, editor, rows, gone, subject, keep,
                 staged, pins, unsure>>

\* gate.pending || barrier.inTransition
Pending == line # <<>> \/ frozen

\* The drafts of the rows that stay queued are not dropped.
BadKeepDrafts(p, S) == staged' = staged

KeepDrafts(p, S) == staged' = [staged EXCEPT ![p] = S]

\* The tail of the writer section: the texts of the rows in S are kept.  After
\* the disposal the editor is not touched any more; under a transition the ledger takes
\* them; otherwise they go into the editor.
Finish(p, S) ==
  IF disposed
    THEN /\ phase' = [phase EXCEPT ![p] = "done"] /\ pins' = Unpin({p})
         /\ UNCHANGED <<keep, staged, editor>>
  ELSE IF Pending
    THEN /\ phase' = [phase EXCEPT ![p] = "deferred"] /\ KeepDrafts(p, S)
         /\ keep' = [keep EXCEPT ![p] = S]
         /\ UNCHANGED <<pins, editor>>
    ELSE /\ phase' = [phase EXCEPT ![p] = "done"] /\ KeepDrafts(p, S)
         /\ pins' = Unpin({p})
         /\ editor' = [m \in Message |-> editor[m] + IF m \in S THEN 1 ELSE 0]
         /\ UNCHANGED keep

\* The rows are removed in their order, one call at a time.
Awaited(p, m) == IsOldest(m, rows[p] \ gone[p])

\* The Host removed the row: the next one is asked for, or all are.
Removed(p) ==
  /\ phase[p] = "removing"
  /\ \E m \in queue :
       /\ Awaited(p, m)
       /\ queue' = queue \ {m}
       /\ gone' = [gone EXCEPT ![p] = @ \union {m}]
       /\ IF gone[p] \union {m} = rows[p]
            THEN Finish(p, rows[p])
            ELSE UNCHANGED <<editor, phase, keep, staged, pins>>
  /\ UNCHANGED <<tasks, session, taken, rows, subject, unsure>>

\* Everything is put back after a refusal, as if nothing had been removed.
BadKeptOfRefusal(p) == rows[p]
KeptOfRefusal(p) == gone[p]

\* The row is gone, or the Host refused or cancelled: it was not removed.
NotRemoved(p) ==
  /\ phase[p] = "removing"
  /\ Finish(p, KeptOfRefusal(p))
  /\ UNCHANGED <<tasks, session, host, rows, gone, subject, unsure>>

\* Only what is known to be removed is kept.
BadKeptOfUnknown(p) == gone[p]
KeptOfUnknown(p) == rows[p]

\* The call is lost or throws: nobody knows whether the Host removed the row,
\* and everything is kept for the user to look at.
Unknown(p) ==
  /\ phase[p] = "removing"
  /\ \E m \in rows[p] : Awaited(p, m) /\ queue' \in {queue, queue \ {m}}
  /\ Finish(p, KeptOfUnknown(p))
  /\ unsure' = unsure \union (rows[p] \ gone[p])
  /\ UNCHANGED <<tasks, session, taken, rows, gone, subject>>

\* A turn of the Host claims the oldest row.
HostTakes ==
  /\ \E m \in queue : /\ IsOldest(m, queue)
                      /\ queue' = queue \ {m} /\ taken' = taken \union {m}
  /\ UNCHANGED <<tasks, session, editor, pulls>>

\* The exit.  What it retires behind the gate touches none of this state.
Dispose ==
  /\ ~disposed /\ disposed' = TRUE
  /\ UNCHANGED <<tasks, owner, gen, host, editor, pulls>>

----------------------------------------------------------------------------
Settles(p) == Removed(p) \/ NotRemoved(p) \/ Unknown(p)

Proceed(t) == \/ StartNoOp(t) \/ StartTask(t) \/ StopAccepted(t) \/ StopFails(t)
              \/ Drain(t) \/ BodyEnds(t) \/ CommitThrows(t) \/ Commit(t)
              \/ EndTask(t)

Next == \/ \E t \in Task : Proceed(t) \/ \E k \in Kind : Request(t, k)
        \/ \E p \in Pull : PullBack(p) \/ PullRefused(p) \/ Settles(p)
        \/ HostTakes \/ Dispose

SafeSpec == Init /\ [][Next]_vars

\* A removal is answered, a stop and a body settle, microtasks run.
Fairness == /\ \A t \in Task : WF_vars(Proceed(t))
            /\ \A p \in Pull : WF_vars(Settles(p))

Spec == SafeSpec /\ Fairness

----------------------------------------------------------------------------
TypeOK ==
  /\ line \in Seq(Task) /\ frozen \in BOOLEAN
  /\ pc \in [Task -> {"out", "queued", "stopping", "drain", "body", "leaving", "done"}]
  /\ kind \in [Task -> Kind]
  /\ owner \in Nat /\ gen \in Nat /\ disposed \in BOOLEAN
  /\ queue \in SUBSET Message /\ taken \in SUBSET Message
  /\ editor \in [Message -> Nat]
  /\ phase \in [Pull -> {"idle", "removing", "deferred", "done"}]
  /\ rows \in [Pull -> SUBSET Message] /\ gone \in [Pull -> SUBSET Message]
  /\ keep \in [Pull -> SUBSET Message] /\ staged \in [Pull -> SUBSET Message]
  /\ subject \in [Pull -> Nat \X Nat]
  /\ unsure \in SUBSET Message
  /\ pins = {p \in Pull : phase[p] \in {"removing", "deferred"}}

\* A pull-back that has removed the row, or deferred its text, answers for it.
Holds(p, m) == \/ phase[p] = "removing" /\ m \in gone[p]
               \/ phase[p] = "deferred" /\ m \in keep[p]

SameSession == owner = 0 /\ ~disposed

(* While its session stays, the text of a queued message is never nowhere: *)
(* it is queued, claimed by a turn, in the editor, or in the hands of one  *)
(* pull-back, whichever removals failed and whatever transition came by.   *)
NoTextLost ==
  SameSession => \A m \in Message : \/ m \in queue \union taken \/ editor[m] > 0
                                    \/ \E p \in Pull : Holds(p, m)

(* Nor is it in two places, unless the fate of its removal is unknown:     *)
(* two presses of Alt+Up that saw the same rows never both bring one back. *)
NoTextTwice ==
  SameSession => \A m \in Message \ unsure :
    /\ editor[m] <= 1
    /\ editor[m] = 1 => m \notin queue \union taken

(* A deferred recall has a transition to wait for: nothing is parked in    *)
(* the ledger behind the last task of the gate.                            *)
RecallHasItsTransition == recalls # {} => line # <<>>

(* The drafts kept alive are those the editor refers to: attachments of    *)
(* rows that stayed queued are dropped, those in the editor are not.       *)
DraftsFollowTheEditor ==
  SameSession =>
    {m \in Message : editor[m] > 0} = UNION {staged[p] : p \in {q \in Pull : phase[q] = "done"}}

(* Recalled text never lands in the editor of another session.             *)
NeverInAnotherSession ==
  [][\A m \in Message : editor'[m] > editor[m] => owner' = 0 /\ ~disposed]_vars

(* Every pull-back ends, deferred or not, and gives its pin back.          *)
EveryPullBackEnds ==
  \A p \in Pull : phase[p] = "removing" ~> phase[p] = "done" /\ p \notin pins

(* A pull-back is one write of the barrier, a transition one task.         *)
Promise == INSTANCE ExclusiveTransition
             WITH Writer <- Pull,
                  inside <- {t \in Task : pc[t] = "body"},
                  writing <- {p \in Pull : phase[p] = "removing"}
ImplementsExclusiveTransition == Promise!Spec
============================================================================
