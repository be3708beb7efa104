----------------------- MODULE SessionRuntime_requests ----------------------
(***************************************************************************)
(* The steps of an intent up to its commit.  Each kind of step is described*)
(* by what it may do to the state, whatever action of the runtime does it: *)
(* several actions make the same kind of step.  A lemma says of each kind  *)
(* that it keeps the inductive invariant, given that it keeps the types.   *)
(***************************************************************************)
EXTENDS SessionRuntime_invariant

-----------------------------------------------------------------------------
\* Joining and leaving the line.

(* An intent that has started goes on without touching an owner, its       *)
(* retirement, a pin or a capture: it only moves, and may ask the Agent on *)
(* the surface to stop.                                                    *)
Walk(p) ==
  \/ pc[p] = "drain" /\ pc'[p] = "body" /\ \A w \in Writer : writing[w] = None
  \/ /\ pc[p] = "body" /\ kind[p] \in {"new", "first"}
     /\ (pc'[p] = "resolved" /\ ~exiting) \/ pc'[p] = "leave"
  \/ pc[p] = "resolved" /\ kind[p] = "first"
       /\ ((pc'[p] = "creating" /\ cur = None) \/ pc'[p] = "leave")
  \/ pc[p] \in {"quiesce", "flushOld", "create", "awaitPin", "resuming", "creating", "init"}
       /\ pc'[p] = "leave"
  \/ pc[p] = "quiesce" /\ pc'[p] \in {"flushOld", "create"}
  \/ pc[p] = "flushOld" /\ pc'[p] = "create"
  \/ /\ pc[p] = "create" /\ kind[p] \in {"switch", "pick"} /\ pc'[p] = "awaitPin"
     /\ \A o \in parked : sess[o] # target[p]
  \/ pc[p] = "create" /\ kind[p] = "new" /\ pc'[p] = "creating"
  \/ pc[p] = "awaitPin" /\ pc'[p] = "resuming" /\ ~Pinned(target[p])
  \/ pc[p] = "releasing" /\ pc'[p] = "leave" /\ ret[next[p]] = "done"
  \/ pc[p] = "flushNew" /\ pc'[p] = "childIdle" /\ old[p] = None
  \/ pc[p] = "retireOld" /\ pc'[p] = "childIdle" /\ ret[old[p]] = "done"
  \/ pc[p] = "childIdle" /\ pc'[p] \in {"init", "leave"}

Walks(p) ==
  /\ Walk(p) /\ Goto(p, pc'[p])
  /\ Asked({}) \/ (pc[p] \in Published /\ cur # None /\ Asked({cur}))
  /\ gen' = gen \/ pc[p] = "childIdle"
  /\ UNCHANGED <<line, frozen, writing, cur, epoch, owners, ret, exiting, intents,
                 next, old, forks>>

(* A move inside a transition keeps the invariant.                         *)
LEMMA WalkKeeps ==
  ASSUME IInv, TypeOK', NEW p \in Op, Walks(p)
  PROVE  IInv'
<1> USE OwnerFacts
<1>1. /\ UNCHANGED <<line, frozen, writing, cur, epoch, sessions, sess, life, parked,
                     ret, exiting, kind, target, seen, next, old, pins, window,
                     deferred, handed>>
      /\ \A t \in Task \ {p} : pc'[t] = pc[t]
      /\ \A q \in Op \ {p} : pc'[q] = pc[q]
      /\ pc'[Exit] = pc[Exit]
  BY GotoFacts DEF IInv, Walks, owners, intents, forks
<1>2. p \in Task /\ pc[p] \in Started /\ pc'[p] \in Started
  BY DEF Walks, Walk, Started
<1>3. LineInv'
  BY <1>1, <1>2, LineWalks DEF IInv, Walks
<1>4. \A t \in Task \ {p} : pc[t] \notin Started /\ pc'[t] \notin Started
  BY <1>1, <1>2, StartedIsHead DEF IInv
<1>5. PathInv'
  BY <1>1 DEF IInv, PathInv, Walks, Walk, Early, Before, Late, Published
<1>6. CountInv' /\ OwnerInv'
  BY <1>1, CountFrame, OwnerFrame DEF IInv
<1>7. LocalInv'
  BY <1>1 DEF IInv, LocalInv, PathInv, Walks, Walk, Early, Before, Late, Published, Ordinary
<1>8. Carriers' = Carriers /\ Leavers' = Leavers
  BY <1>1 DEF IInv, LocalInv, Walks, Walk, Early, Before, Published, Carriers, Leavers,
              Ordinary, ForkInv, PathInv
<1>9. KeeperInv'
  BY <1>1, <1>8, KeeperFrame DEF IInv
<1>10. RetireInv'
  BY <1>1 DEF IInv, RetireInv, Walks, Walk, Retiring
<1>11. /\ Watching' = Watching /\ ForksOut' = ForksOut
       /\ PendingForks' = PendingForks /\ (Navigating' => Navigating)
  <2>1. kind[p] = "fork" => /\ pc[p] \in Forking <=> pc'[p] \in Forking
                            /\ pc[p] # "chosen" /\ pc'[p] # "chosen"
                            /\ pc[p] \notin {"idle", "done"} /\ pc'[p] \notin {"idle", "done"}
    BY DEF IInv, Walks, Walk, Forking, PathInv, Early, Late, Published
  <2>2. kind[p] \in Ordinary /\ pc'[p] \in Before => pc[p] \in Before
    BY DEF Walks, Walk, Ordinary, Before
  <2> QED
    BY <1>1, <2>1, <2>2 DEF Watching, ForksOut, PendingForks, Navigating
<1>12. ForkInv'
  <2>1. kind[p] = "fork" /\ pc'[p] \in Forking => pc[p] \in Forking
    BY DEF Walks, Walk, Forking
  <2>2. pc[p] \in Ending => pc'[p] \in Ending
    BY DEF Walks, Walk, Ending
  <2>3. pc'[p] # "chosen" /\ deferred \union handed \union window \subseteq Op
    BY <1>2 DEF Started, IInv, TypeOK
  <2> QED
    BY <1>1, <2>1, <2>2, <2>3, ForkFrame DEF IInv, ForkInv
<1>13. ExitInv'
  BY <1>1, <1>11 DEF IInv, ExitInv, Walks, Walk, Early
<1>14. CancelInv'
  <2>1. NoAcquisition
    BY <1>1, <1>8 DEF NoAcquisition, Carriers
  <2>2. CASE Asked({})
    BY <1>1, <2>1, <2>2, CancelFrame DEF IInv
  <2>3. CASE pc[p] \in Published /\ cur # None /\ Asked({cur})
    <3>1. pc[Exit] \notin {"retireCurrent", "retireParked", "done"}
      BY <1>4, <2>3 DEF IInv, ExitInv, Published, Early, Started
    <3>2. ret[cur] = "no" /\ life[cur] # "unborn" /\ cur \in Owner
      BY <2>3, <3>1 DEF IInv, ExitInv, OwnerInv, TypeOK
    <3>3. cur \notin parked' /\ \A q \in Carriers' : next[q] # cur
      BY <1>1, <1>8 DEF IInv, KeeperInv, Spare
    <3> QED
      BY <1>1, <2>1, <2>3, <3>2, <3>3, CancelFrame DEF IInv
  <2> QED
    BY <2>2, <2>3 DEF Walks
<1>15. WriteInv'
  BY <1>1, <1>2, <1>4 DEF IInv, WriteInv, WritesKeepTheirOwner, Inside, Walks, Walk, Started
<1>16. SeenInv'
  <2>1. NoAcquisition
    BY <1>1, <1>8 DEF NoAcquisition, Carriers
  <2> QED
    BY <1>1, <2>1, SeenFrame DEF IInv
<1>17. ScopeInv'
  BY <1>1, <1>2, <1>4 DEF IInv, ScopeInv, Walks, Walk, IsScopeCurrent, SessionOf, Before,
                          Started, PathInv, Early
<1>18. EpochInv'
  BY <1>1, <1>11, EpochFrame DEF IInv, SessionOf, EpochIsFresh
<1>19. PinInv'
  BY <1>1 DEF IInv, PinInv, Pinned, Walks, Walk
<1>20. GateInv'
  BY <1>1, <1>11, GateFrame DEF IInv, SessionOf, EpochIsFresh
<1> QED
  BY <1>3, <1>5, <1>6, <1>7, <1>9, <1>10, <1>12, <1>13, <1>14, <1>15, <1>16,
     <1>17, <1>18, <1>19, <1>20 DEF IInv

(* A capture of the surface is no capture of an owner that is parked or    *)
(* carried, nor of its session.                                            *)
LEMMA CaptureKeepsSeen ==
  ASSUME IInv, NEW p \in Op, NoAcquisition, parked' = parked, UNCHANGED cur,
         pc[Exit] \notin {"retireCurrent", "retireParked"},
         \A q \in Op \ {p} : seen'[q] = seen[q],
         seen'[p].own = cur, seen'[p].session = SessionOf(cur),
         seen'[p].epoch <= epoch', epoch' \in {epoch, epoch + 1},
         \A q \in Carriers' : kind'[q] = kind[q]
  PROVE  SeenInv'
<1> USE OwnerFacts
<1>1. \A q \in Op : seen[q].own \in Owner \union {None} /\ seen[q].epoch \in Nat
  BY DEF IInv, TypeOK
<1>2. \A q \in Op : seen'[q].epoch <= epoch'
  <2>1. epoch \in Nat
    BY DEF IInv, TypeOK
  <2> QED
    BY <1>1, <2>1 DEF IInv, SeenInv
<1>3. /\ cur \in Owner \union {None}
      /\ cur # None => life[cur] # "unborn"
      /\ cur \notin parked
      /\ \A q \in Carriers : next[q] # cur /\ life[next[q]] = "held" /\ next[q] \in Owner
  BY DEF IInv, OwnerInv, KeeperInv, Spare, TypeOK, Carriers
<1>4. ASSUME NEW q \in Carriers
      PROVE  SessionOf(cur) # sess[next[q]]
  <2>1. sess[next[q]] # None
    BY <1>3 DEF IInv, OwnerInv, None
  <2>2. ASSUME cur # None
        PROVE  sess[cur] # sess[next[q]]
    <3>1. ret[cur] # "done"
      BY <1>3, <2>2 DEF IInv, ExitInv, OwnerInv
    <3> QED
      BY <1>3, <2>2, <3>1 DEF IInv, OwnerInv, TypeOK
  <2> QED
    BY <2>1, <2>2 DEF SessionOf
<1>5. (\A q \in Op : /\ seen[q].session = SessionOf(seen[q].own)
                     /\ seen[q].own # None => life[seen[q].own] # "unborn"
                     /\ seen[q].own \notin parked)'
  BY <1>1, <1>3 DEF IInv, SeenInv, SessionOf, NoAcquisition
<1>6. (\A r \in Op, q \in Carriers : seen[r].own # next[q])'
  BY <1>3 DEF IInv, SeenInv, NoAcquisition
<1>7. (\A r \in Op, q \in Carriers : kind[q] = "fork" => seen[r].session # sess[next[q]])'
  BY <1>4 DEF IInv, SeenInv, NoAcquisition
<1> QED
  BY <1>2, <1>5, <1>6, <1>7 DEF SeenInv

-----------------------------------------------------------------------------
(* The head of the line starts: it freezes the barrier.                    *)
Begins(p) ==
  /\ IsHead(p) /\ Goto(p, "drain") /\ frozen' = TRUE
  /\ \/ kind[p] \in {"first", "fork", "plain"} /\ UNCHANGED <<epoch, seen>>
     \/ kind[p] = "new" /\ (exiting \/ IsScopeCurrent(seen[p])) /\ UNCHANGED <<epoch, seen>>
     \/ /\ kind[p] = "switch" /\ IsScopeCurrent(seen[p]) /\ SessionOf(cur) # target[p]
        /\ epoch' = epoch + 1 /\ UNCHANGED seen
     \/ /\ kind[p] = "pick" /\ SessionOf(cur) # target[p]
        /\ UNCHANGED epoch /\ seen' = [seen EXCEPT ![p] = Capture]
  /\ Asked({})
  /\ UNCHANGED <<line, writing, cur, gen, owners, ret, exiting, kind, target,
                 next, old, forks>>

(* The start of a transition keeps the invariant.                          *)
LEMMA BeginKeeps ==
  ASSUME IInv, TypeOK', NEW p \in Op, Begins(p)
  PROVE  IInv'
<1> USE OwnerFacts
<1>1. /\ UNCHANGED <<line, writing, cur, gen, sessions, sess, life, parked, ret,
                     exiting, kind, target, next, old, pins, window, deferred,
                     handed>>
      /\ pc[p] = "queued" /\ pc'[p] = "drain"
      /\ \A q \in Op \ {p} : pc'[q] = pc[q]
      /\ \A t \in Task \ {p} : pc'[t] = pc[t]
      /\ \A t \in Task : pc[t] \notin Started
      /\ pc'[Exit] = pc[Exit]
  BY GotoFacts, CalledAlone DEF IInv, Begins, owners, forks
<1>2. LineInv'
  BY LineStarts DEF IInv, Begins
<1>3. PathInv'
  BY <1>1 DEF IInv, PathInv, Early
<1>4. CountInv' /\ OwnerInv'
  BY <1>1, CountFrame, OwnerFrame DEF IInv
<1>5. LocalInv'
  BY <1>1 DEF IInv, LocalInv, Early, Before, Published
<1>6. Carriers' = Carriers /\ Leavers' = Leavers
  BY <1>1 DEF Early, Carriers, Leavers
<1>7. KeeperInv'
  BY <1>1, <1>6, KeeperFrame DEF IInv
<1>8. RetireInv'
  BY <1>1 DEF IInv, RetireInv, Retiring
<1>9. /\ Watching' = Watching /\ ForksOut' = ForksOut
      /\ PendingForks' = PendingForks /\ (Navigating' => Navigating)
  BY <1>1 DEF Watching, ForksOut, PendingForks, Navigating, Forking, Before
<1>10. ForkInv'
  <2>1. p \notin deferred \union handed
    BY <1>1 DEF IInv, ForkInv
  <2>2. \A q \in Op \ {p} : seen'[q] = seen[q]
    BY DEF Begins, IInv, TypeOK
  <2>3. deferred \union handed \union window \subseteq Op
    BY DEF IInv, TypeOK
  <2> QED
    BY <1>1, <2>1, <2>2, <2>3, ForkFrame DEF IInv, Forking, ForkInv
<1>11. ExitInv'
  BY <1>1, <1>9 DEF IInv, ExitInv, Early
<1>12. NoAcquisition
  BY <1>1, <1>6 DEF NoAcquisition, Carriers
<1>13. CancelInv'
  <2>1. Asked({})
    BY DEF Begins
  <2> QED
    BY <1>1, <1>12, <2>1, CancelQuiet DEF IInv
<1>14. WriteInv'
  BY <1>1 DEF IInv, WriteInv, WritesKeepTheirOwner, Inside, Started
<1>15. SeenInv'
  <2>1. CASE UNCHANGED seen /\ epoch' \in {epoch, epoch + 1}
    BY <1>1, <1>12, <2>1, SeenFrame DEF IInv
  <2>2. CASE epoch' = epoch /\ seen' = [seen EXCEPT ![p] = Capture]
    <3>1. /\ \A q \in Op \ {p} : seen'[q] = seen[q]
          /\ seen'[p] = Capture
      BY <2>2 DEF IInv, TypeOK
    <3>2. seen'[p].own = cur /\ seen'[p].session = SessionOf(cur) /\ seen'[p].epoch = epoch
      BY <3>1 DEF Capture
    <3>3. pc[Exit] \notin {"retireCurrent", "retireParked"} /\ epoch \in Nat
      BY <1>1 DEF Started, IInv, TypeOK
    <3> QED
      BY <1>1, <1>12, <2>2, <3>1, <3>2, <3>3, CaptureKeepsSeen
  <2> QED
    BY <2>1, <2>2 DEF Begins
<1>16. ScopeInv'
  <2>1. \A q \in Op \ {p} : seen'[q] = seen[q]
    BY DEF Begins, IInv, TypeOK
  <2>2. kind[p] = "pick" => seen'[p] = Capture
    BY DEF Begins, IInv, TypeOK
  <2>3. kind[p] = "pick" => IsScopeCurrent(seen[p])'
    BY <1>1, <2>2 DEF IsScopeCurrent, Capture
  <2>4. kind[p] \in {"switch", "new"} => seen' = seen
    BY DEF Begins
  <2> QED
    BY <1>1, <2>1, <2>3, <2>4 DEF IInv, ScopeInv, IsScopeCurrent, SessionOf, Before, Early, Begins
<1>17. EpochIsFresh
  BY FreshEpoch DEF Begins, IInv, EpochIsFresh
<1>18. EpochInv'
  <2>1. \A q \in Watching : seen'[q] = seen[q]
    BY DEF Begins, IInv, TypeOK, Watching
  <2> QED
    BY <1>1, <1>9, <1>17, <2>1 DEF IInv, EpochInv, EpochIsFresh, SessionOf, Watching, ForksOut
<1>19. PinInv'
  <2>1. \A q \in pins : seen'[q] = seen[q]
    BY DEF Begins, IInv, TypeOK, ForkInv
  <2> QED
    BY <1>1, <2>1 DEF IInv, PinInv, Pinned
<1>20. GateInv'
  <2>1. "pick" \notin Kinds => seen' = seen
    BY DEF Begins, IInv, PathInv
  <2> QED
    BY <1>1, <1>9, <1>17, <2>1, GateFrame DEF IInv, SessionOf, Begins
<1> QED
  BY <1>2, <1>3, <1>4, <1>5, <1>7, <1>8, <1>10, <1>11, <1>13, <1>14, <1>15, <1>16,
     <1>18, <1>19, <1>20 DEF IInv
-----------------------------------------------------------------------------
(* A task ends that replaced nothing, or has nothing more to do.           *)
Quits(p) ==
  /\ EndTask(p)
  /\ \/ pc[p] = "leave"
     \/ pc[p] = "body" /\ kind[p] \in {"plain", "switch", "pick"}
     \/ IsHead(p) /\ kind[p] \in {"switch", "pick", "new"}
  /\ epoch' \in {epoch, epoch + 1}
  /\ \/ UNCHANGED seen
     \/ IsHead(p) /\ kind[p] = "pick" /\ seen' = [seen EXCEPT ![p] = Capture]
  /\ Asked({})
  /\ UNCHANGED <<writing, cur, gen, owners, ret, exiting, kind, target, next,
                 old, window, deferred, handed>>

(* The end of a transition keeps the invariant.                            *)
LEMMA QuitKeeps ==
  ASSUME IInv, TypeOK', NEW p \in Op, Quits(p)
  PROVE  IInv'
<1> USE OwnerFacts
<1>1. /\ UNCHANGED <<writing, cur, gen, sessions, sess, life, parked, ret,
                     exiting, kind, target, next, old, window, deferred, handed>>
      /\ line' = Tail(line) /\ frozen' = FALSE /\ Goto(p, "done")
      /\ pins' = IF p \in deferred \union handed THEN pins ELSE pins \ {p}
  BY DEF Quits, EndTask, owners
<1>2. /\ pc'[p] = "done"
      /\ \A q \in Op \ {p} : pc'[q] = pc[q]
      /\ \A t \in Task \ {p} : pc'[t] = pc[t]
      /\ pc'[Exit] = pc[Exit]
  BY <1>1, GotoFacts DEF IInv
<1>3. pc[p] \in {"leave", "body", "queued"} /\ (IsHead(p) \/ pc[p] \in Started)
  BY DEF Quits, IsHead, At, Started
<1>4. /\ Len(line) >= 1
      /\ \A t \in Task \ {p} : pc[t] \notin Started
  BY <1>3, CalledAlone, StartedIsHead DEF IInv
<1>5. LineInv'
  BY <1>1, <1>3, LineEnds DEF IInv
<1>6. PathInv'
  BY <1>1, <1>2, <1>3 DEF IInv, PathInv, Late
<1>7. CountInv' /\ OwnerInv'
  BY <1>1, CountFrame, OwnerFrame DEF IInv
<1>8. LocalInv'
  BY <1>1, <1>2 DEF IInv, LocalInv, Early, Before, Published
<1>9. Carriers' = Carriers /\ Leavers' = Leavers
  <2>1. p \notin Carriers
    <3>1. pc[p] \in {"body", "queued"} => kind[p] # "fork" /\ next[p] = None
      BY DEF Quits, IsHead, At, IInv, LocalInv, Early
    <3> QED
      BY <1>3, <3>1 DEF Carriers, Early
  <2> QED
    BY <1>1, <1>2, <1>3, <2>1 DEF Carriers, Leavers, Early
<1>10. KeeperInv'
  BY <1>1, <1>9, KeeperFrame DEF IInv
<1>11. RetireInv'
  BY <1>1, <1>2, <1>3 DEF IInv, RetireInv, Retiring
<1>12. /\ Watching' \subseteq Watching /\ ForksOut' \subseteq ForksOut
       /\ PendingForks' \subseteq PendingForks /\ (Navigating' => Navigating)
  BY <1>1, <1>2, <1>3 DEF Watching, ForksOut, PendingForks, Navigating, Forking, Before
<1>13. ForkInv'
  <2>1. p \in deferred \union handed => seen'[p] = seen[p]
    BY DEF Quits, IInv, ForkInv
  <2>2. \A q \in Op \ {p} : seen'[q] = seen[q]
    BY DEF Quits, IInv, TypeOK
  <2>3. deferred \union handed \union window \subseteq Op
    BY DEF IInv, TypeOK
  <2>4. \A q \in deferred \union handed : q \in pins
    BY DEF IInv, ForkInv
  <2> QED
    BY <1>1, <1>2, <1>3, <2>1, <2>2, <2>3, <2>4, ForkFrame DEF IInv, Forking, Ending
<1>14. ExitInv'
  BY <1>1, <1>2, <1>3, <1>12 DEF IInv, ExitInv, Early
<1>15. NoAcquisition
  BY <1>1, <1>9 DEF NoAcquisition, Carriers
<1>16. CancelInv'
  <2>1. Asked({})
    BY DEF Quits
  <2> QED
    BY <1>1, <1>15, <2>1, CancelQuiet DEF IInv
<1>17. WriteInv'
  BY <1>1, <1>2, <1>4 DEF IInv, WriteInv, WritesKeepTheirOwner, Inside, Started
<1>18. SeenInv'
  <2>1. CASE UNCHANGED seen
    BY <1>1, <1>15, <2>1, SeenFrame DEF IInv, Quits
  <2>2. CASE IsHead(p) /\ seen' = [seen EXCEPT ![p] = Capture]
    <3>1. /\ \A q \in Op \ {p} : seen'[q] = seen[q]
          /\ seen'[p] = Capture
      BY <2>2 DEF IInv, TypeOK
    <3>2. seen'[p].own = cur /\ seen'[p].session = SessionOf(cur) /\ seen'[p].epoch = epoch
      BY <3>1 DEF Capture
    <3>3. pc[Exit] \notin {"retireCurrent", "retireParked"}
      BY <1>4 DEF Started
    <3>4. epoch \in Nat /\ epoch' \in {epoch, epoch + 1}
      BY DEF Quits, IInv, TypeOK
    <3> QED
      BY <1>1, <1>15, <3>1, <3>2, <3>3, <3>4, CaptureKeepsSeen
  <2> QED
    BY <2>1, <2>2 DEF Quits
<1>19. ScopeInv'
  <2>1. \A q \in Op \ {p} : seen'[q] = seen[q]
    BY DEF Quits, IInv, TypeOK
  <2> QED
    BY <1>1, <1>2, <2>1 DEF IInv, ScopeInv, IsScopeCurrent, SessionOf, Before, Early
<1>20. EpochIsFresh /\ \A q \in Watching : seen'[q] = seen[q]
  <2>1. \A q \in Op \ {p} : seen'[q] = seen[q]
    BY DEF Quits, IInv, TypeOK
  <2>2. CASE UNCHANGED seen
    BY <2>2, FreshEpoch DEF Quits, IInv, EpochIsFresh, Watching
  <2>3. CASE seen' = [seen EXCEPT ![p] = Capture] /\ kind[p] = "pick"
    <3>1. seen'[p].epoch = epoch /\ epoch \in Nat
      BY <2>3 DEF IInv, TypeOK, Capture
    <3> QED
      BY <2>1, <2>3, <3>1, FreshEpoch DEF Quits, IInv, EpochIsFresh, Watching
  <2> QED
    BY <2>2, <2>3 DEF Quits
<1>21. EpochInv'
  BY <1>1, <1>12, <1>20 DEF IInv, EpochInv, EpochIsFresh, SessionOf, Watching, ForksOut
<1>22. PinInv'
  <2>1. \A q \in pins : seen'[q] = seen[q]
    BY DEF Quits, IInv, TypeOK, ForkInv
  <2> QED
    BY <1>1, <1>2, <2>1 DEF IInv, PinInv, Pinned
<1>23. GateInv'
  <2>1. "pick" \notin Kinds => seen' = seen
    BY DEF Quits, IInv, PathInv
  <2> QED
    BY <1>1, <1>4, <1>12, <1>20, <2>1, GateFrameTail DEF IInv, SessionOf
<1> QED
  BY <1>5, <1>6, <1>7, <1>8, <1>10, <1>11, <1>13, <1>14, <1>16, <1>17, <1>18, <1>19,
     <1>21, <1>22, <1>23 DEF IInv

(* An intent joins the line.                                               *)
Joins(p) ==
  /\ Enqueue(p)
  /\ \/ /\ pc[p] = "chosen" /\ kind[p] \in {"switch", "new"} /\ IsScopeCurrent(seen[p])
        /\ UNCHANGED <<kind, epoch>>
        /\ kind[p] = "switch" => target'[p] # None
     \/ /\ pc[p] = "idle" /\ kind'[p] \in {"first", "plain"} \intersect Kinds
        /\ UNCHANGED <<epoch, target>> /\ pc[Exit] # "done"
     \/ /\ pc[p] = "idle" /\ kind'[p] \in {"pick"} \intersect Kinds /\ target'[p] # None
        /\ epoch' = epoch + 1
     \/ /\ pc[p] = "attaching" /\ kind[p] = "fork" /\ IsNavigationCurrent(seen[p])
        /\ UNCHANGED <<kind, epoch, target>>
  /\ \A q \in Op \ {p} : kind'[q] = kind[q] /\ target'[q] = target[q]
  /\ target'[p] <= sessions
  /\ Asked({})
  /\ UNCHANGED <<frozen, writing, cur, gen, owners, ret, exiting, seen,
                 next, old, forks>>

(* Joining the line keeps the invariant.                                   *)
LEMMA JoinKeeps ==
  ASSUME IInv, TypeOK', NEW p \in Op, Joins(p)
  PROVE  IInv'
<1> USE OwnerFacts
<1>1. /\ UNCHANGED <<frozen, writing, cur, gen, sessions, sess, life, parked, ret,
                     exiting, seen, next, old, pins, window, deferred, handed>>
      /\ \A q \in Op \ {p} : kind'[q] = kind[q] /\ target'[q] = target[q]
      /\ pc[p] \in {"chosen", "idle", "attaching"}
      /\ Goto(p, "queued")
  BY DEF Joins, Enqueue, owners, forks
<1>2. /\ pc'[p] = "queued"
      /\ \A q \in Op \ {p} : pc'[q] = pc[q]
      /\ \A t \in Task \ {p} : pc'[t] = pc[t]
      /\ pc'[Exit] = pc[Exit]
  BY <1>1, GotoFacts DEF IInv
<1>3. pc[p] \notin InGate
  BY <1>1 DEF InGate, Started
<1>4. /\ pc[p] = "idle" => kind[p] # "fork" /\ kind'[p] # "fork" /\ next[p] = None
      /\ pc[p] = "chosen" => kind[p] # "fork" /\ kind'[p] = kind[p] /\ next[p] = None
      /\ pc[p] = "attaching" => kind[p] = "fork" /\ kind'[p] = kind[p] /\ next[p] # None
  <2>1. pc[p] = "idle" => kind[p] # "fork"
    BY DEF IInv, PathInv, Early, Late, Published
  <2> QED
    BY <2>1, <1>1 DEF Joins, IInv, LocalInv
<1>5. LineInv'
  BY <1>1, <1>3, LineEnters DEF IInv, Joins
<1>6. PathInv'
  BY <1>1, <1>2 DEF IInv, PathInv, Early, Joins
<1>7. CountInv' /\ OwnerInv'
  BY <1>1, CountFrame, OwnerFrame DEF IInv
<1>8. LocalInv'
  <2>1. kind'[p] = "fork" => cur # None
    BY <1>1, <1>4 DEF IInv, LocalInv
  <2> QED
    BY <1>1, <1>2, <1>4, <2>1 DEF IInv, LocalInv, Early, Before, Published, Joins
<1>9. Carriers' = Carriers /\ Leavers' = Leavers
  BY <1>1, <1>2, <1>4 DEF Early, Carriers, Leavers
<1>10. KeeperInv'
  BY <1>1, <1>9, KeeperFrame DEF IInv
<1>11. RetireInv'
  BY <1>1, <1>2 DEF IInv, RetireInv, Retiring
<1>12. /\ Watching' = Watching /\ ForksOut' = ForksOut
       /\ PendingForks' = PendingForks /\ (Navigating' => Navigating)
  BY <1>1, <1>2, <1>4 DEF Watching, ForksOut, PendingForks, Navigating, Forking, Before
<1>13. ForkInv'
  <2>1. p \notin deferred \union handed /\ (p \in pins \union window => kind'[p] = kind[p])
    BY <1>1, <1>4, IdleIsFresh DEF IInv, ForkInv
  <2>2. deferred \union handed \union window \union pins \subseteq Op
    BY DEF IInv, TypeOK
  <2>3. \A q \in window : kind'[q] = "fork" => pc'[q] # "chosen"
    BY <1>1, <1>2, <2>2 DEF IInv, ForkInv
  <2>4. \A q \in Op : kind'[q] = "fork" /\ pc'[q] \in Forking => q \in pins
    BY <1>1, <1>2, <1>4 DEF IInv, ForkInv, Forking
  <2>5. \A q \in pins \union window \union deferred \union handed : kind'[q] = kind[q]
    BY <1>1, <2>1, <2>2
  <2>6. \A q \in deferred \union handed : pc'[q] = pc[q]
    BY <1>2, <2>1, <2>2
  <2> QED
    BY <1>1, <2>3, <2>4, <2>5, <2>6 DEF IInv, ForkInv, Retiring
<1>14. ExitInv'
  <2>1. pc[Exit] = "done" => pc[p] # "attaching"
    BY DEF IInv, ExitInv, Early
  <2> QED
    BY <1>1, <1>2, <1>12, <2>1 DEF IInv, ExitInv, Early
<1>15. NoAcquisition
  BY <1>1, <1>9 DEF NoAcquisition, Carriers
<1>16. CancelInv'
  <2>1. Asked({})
    BY DEF Joins
  <2> QED
    BY <1>1, <1>15, <2>1, CancelQuiet DEF IInv
<1>17. WriteInv'
  BY <1>1, <1>2 DEF IInv, WriteInv, WritesKeepTheirOwner, Inside, Started
<1>18. SeenInv'
  <2>1. \A q \in Carriers : kind'[q] = kind[q]
    BY <1>1, <1>4 DEF Carriers, Early
  <2>2. epoch \in Nat /\ epoch' \in {epoch, epoch + 1} /\ \A q \in Op : seen[q].epoch \in Nat
    BY DEF Joins, IInv, TypeOK
  <2>3. \A q \in Op : seen[q].epoch <= epoch'
    BY <2>2 DEF IInv, SeenInv
  <2> QED
    BY <1>1, <1>9, <2>1, <2>3 DEF IInv, SeenInv, SessionOf, Carriers
<1>19. ScopeInv'
  BY <1>1, <1>2, <1>4 DEF IInv, ScopeInv, IsScopeCurrent, SessionOf, Before, Early, Joins
<1>20. EpochIsFresh
  BY <1>1, FreshEpoch DEF Joins, IInv, EpochIsFresh
<1>21. EpochInv'
  BY <1>1, <1>12, <1>20, EpochFrame DEF IInv, SessionOf
<1>22. PinInv'
  <2>1. \A q \in Op : kind[q] = "fork" => kind'[q] = "fork"
    BY <1>1, <1>4
  <2> QED
    BY <1>1, <1>2, <2>1 DEF IInv, PinInv, Pinned
<1>23. GateInv'
  <2> DEFINE n == Len(line)
  <2>1. /\ n \in Nat
        /\ Len(line') = n + 1
        /\ \A i \in 1..n : line'[i] = line[i] /\ line[i] # p /\ line[i] \in Task
        /\ line'[n + 1] = p
    <3>1. \A i \in 1..n : line[i] # p
      BY <1>3 DEF IInv, LineInv, TypeOK
    <3> QED
      BY <3>1 DEF IInv, TypeOK, Joins, Enqueue
  <2>2. \A i \in 1..(n + 1) : i \in 1..n \/ i = n + 1
    BY <2>1
  <2> HIDE DEF n
  <2>3. ASSUME "pick" \notin Kinds,
               NEW i \in 1..(n + 1), NEW j \in 1..(n + 1), i < j,
               line'[i] \in Op, line'[j] \in Op, kind'[line'[i]] = "switch",
               kind'[line'[j]] = "fork", seen[line'[i]].own = cur
        PROVE  seen[line'[j]].session = SessionOf(cur)
    <3>1. i \in 1..n
      BY <2>1, <2>2, <2>3
    <3>2. CASE j \in 1..n
      <4>1. kind[line[i]] = "switch" /\ kind[line[j]] = "fork"
        BY <1>1, <2>1, <2>3, <3>1, <3>2
      <4> QED
        BY <2>1, <2>3, <3>1, <3>2, <4>1 DEF IInv, GateInv, n
    <3>3. CASE j = n + 1
      BY <1>4, <2>1, <2>3, <3>3 DEF Joins, IsNavigationCurrent
    <3> QED
      BY <2>2, <3>2, <3>3
  <2>4. ASSUME "pick" \notin Kinds, deferred # {}, NEW r \in window
        PROVE  /\ kind'[r] \in {"switch", "new"} => seen[r].own # cur
               /\ r \in ForksOut => seen[r].epoch # epoch
    <3>1. kind'[r] = kind[r]
      BY <1>1, <1>4, IdleIsFresh DEF IInv, TypeOK
    <3> QED
      BY <2>4, <3>1 DEF IInv, GateInv
  <2>5. ASSUME "pick" \notin Kinds, deferred # {}, NEW r \in window,
               NEW i \in 1..(n + 1), NEW j \in 1..(n + 1), i < j,
               line'[i] \in Op, line'[j] = r, kind'[line'[i]] = "switch"
        PROVE  seen[line'[i]].own # cur
    <3>1. i \in 1..n
      BY <2>1, <2>2, <2>5
    <3>2. CASE j \in 1..n
      <4>1. kind[line[i]] = "switch"
        BY <1>1, <2>1, <2>5, <3>1
      <4> QED
        BY <2>1, <2>5, <3>1, <3>2, <4>1 DEF IInv, GateInv, n
    <3>3. CASE j = n + 1
      <4>1. r = p
        BY <2>1, <2>5, <3>3
      <4>2. CASE kind'[p] \in {"switch", "new"}
        BY <2>4, <2>5, <4>1, <4>2, <1>4 DEF Joins, IsScopeCurrent
      <4>3. CASE kind[p] = "fork" /\ pc[p] = "attaching"
        BY <2>4, <2>5, <4>1, <4>3 DEF Joins, IsNavigationCurrent, ForksOut, Forking
      <4> QED
        BY <4>1, <4>2, <4>3, IdleIsFresh DEF Joins
    <3> QED
      BY <2>2, <3>2, <3>3
  <2>6. "pick" \notin Kinds => epoch' = epoch
    BY DEF Joins
  <2> QED
    BY <1>1, <1>12, <2>1, <2>3, <2>4, <2>5, <2>6 DEF GateInv, SessionOf
<1> QED
  BY <1>5, <1>6, <1>7, <1>8, <1>10, <1>11, <1>13, <1>14, <1>16, <1>17, <1>18, <1>19,
     <1>21, <1>22, <1>23 DEF IInv

(* An intent gives up; the child a fork carries goes to the pool.          *)
Withdraws(p) ==
  /\ Goto(p, "done")
  /\ \/ pc[p] \in {"chosen", "forking"} /\ UNCHANGED <<line, frozen, parked>>
     \/ pc[p] = "attaching" /\ UNCHANGED <<line, frozen>> /\ parked' = parked \union {next[p]}
     \/ /\ pc[p] = "body" /\ kind[p] = "fork"
        /\ line' = Tail(line) /\ frozen' = FALSE /\ parked' = parked \union {next[p]}
  /\ pins' \in {pins, pins \ {p}}
  /\ \A q \in Op \ {p} : target'[q] = target[q]
  /\ target'[p] <= sessions
  /\ Asked({})
  /\ UNCHANGED <<writing, identity, sessions, sess, life, ret, exiting, kind, seen,
                 next, old, window, deferred, handed>>

(* Giving up keeps the invariant.                                          *)
LEMMA WithdrawKeeps ==
  ASSUME IInv, TypeOK', NEW p \in Op, Withdraws(p)
  PROVE  IInv'
<1> USE OwnerFacts
<1>1. /\ UNCHANGED <<writing, cur, gen, epoch, sessions, sess, life, ret, exiting,
                     kind, seen, next, old, window, deferred, handed>>
      /\ \A q \in Op \ {p} : target'[q] = target[q]
      /\ pc[p] \in {"chosen", "forking", "attaching", "body"}
      /\ Goto(p, "done")
      /\ pins' \in {pins, pins \ {p}}
  BY DEF Withdraws, identity
<1>2. /\ pc'[p] = "done"
      /\ \A q \in Op \ {p} : pc'[q] = pc[q]
      /\ \A t \in Task \ {p} : pc'[t] = pc[t]
      /\ pc'[Exit] = pc[Exit]
  BY <1>1, GotoFacts DEF IInv
<1>3. pc[p] \in {"attaching", "body"} => kind[p] = "fork" /\ next[p] # None /\ p \in Carriers
  <2>1. pc[p] = "attaching" => kind[p] = "fork"
    BY DEF IInv, PathInv, TypeOK, AllKinds, Early, Before, Late, Published
  <2> QED
    BY <2>1 DEF IInv, LocalInv, Withdraws, Carriers, Early
<1>4. LineInv' /\ (pc[p] = "body" => Len(line) >= 1)
  <2>1. CASE pc[p] = "body"
    BY <1>1, <2>1, LineEnds, StartedIsHead DEF IInv, Withdraws, Started
  <2>2. CASE pc[p] # "body"
    BY <1>1, <2>2, LineRoams DEF IInv, Withdraws, InGate, Started
  <2> QED
    BY <2>1, <2>2
<1>5. PathInv'
  BY <1>1, <1>2, <1>3 DEF IInv, PathInv, Late
<1>6. CountInv' /\ OwnerInv'
  BY <1>1, CountFrame, OwnerFrame DEF IInv
<1>7. LocalInv'
  BY <1>1, <1>2 DEF IInv, LocalInv, Early, Before, Published, Withdraws
<1>8. /\ Carriers' = Carriers \ {p} /\ Leavers' = Leavers
      /\ parked' = IF p \in Carriers THEN parked \union {next[p]} ELSE parked
  <2>1. p \in Carriers <=> pc[p] \in {"attaching", "body"}
    BY <1>1, <1>3 DEF Carriers, Early
  <2> QED
    BY <1>1, <1>2, <2>1 DEF Carriers, Leavers, Withdraws, Early
<1>9. KeeperInv'
  BY <1>1, <1>8 DEF IInv, KeeperInv, Spare
<1>10. RetireInv'
  BY <1>1, <1>2 DEF IInv, RetireInv, Retiring
<1>11. /\ Watching' \subseteq Watching /\ ForksOut' \subseteq ForksOut
       /\ PendingForks' \subseteq PendingForks /\ (Navigating' => Navigating)
  BY <1>1, <1>2 DEF Watching, ForksOut, PendingForks, Navigating, Forking, Before
<1>12. ForkInv'
  <2>1. p \notin deferred \union handed
    BY <1>1 DEF IInv, ForkInv
  <2>2. deferred \union handed \union window \subseteq Op
    BY DEF IInv, TypeOK
  <2>3. \A q \in deferred \union handed : q \in pins
    BY DEF IInv, ForkInv
  <2> QED
    BY <1>1, <1>2, <2>1, <2>2, <2>3, ForkFrame DEF IInv, Forking, Ending
<1>13. ExitInv'
  BY <1>1, <1>2, <1>11 DEF IInv, ExitInv, Early
<1>14. NoAcquisition
  BY <1>1, <1>8 DEF NoAcquisition, Carriers
<1>15. CancelInv'
  <2>1. Asked({})
    BY DEF Withdraws
  <2> QED
    BY <1>1, <1>14, <2>1, CancelQuiet DEF IInv
<1>16. WriteInv'
  BY <1>1, <1>2 DEF IInv, WriteInv, WritesKeepTheirOwner, Inside, Started
<1>17. SeenInv'
  BY <1>1, <1>14, SeenFrame DEF IInv
<1>18. ScopeInv'
  BY <1>1, <1>2 DEF IInv, ScopeInv, IsScopeCurrent, SessionOf, Before, Early
<1>19. EpochInv'
  BY <1>1, <1>11, EpochFrame DEF IInv, SessionOf, EpochIsFresh
<1>20. PinInv'
  <2>1. \A q \in Op : pc'[q] \in {"awaitPin", "resuming"}
                        => pc[q] = pc'[q] /\ target'[q] = target[q]
    BY <1>1, <1>2
  <2>2. \A o \in parked' : o \in parked \/ \E q \in Op : kind[q] = "fork" /\ next[q] = o
    BY <1>1, <1>3, <1>8 DEF Carriers, Early
  <2>3. pins' \subseteq pins
    BY <1>1
  <2> QED
    BY <1>1, <2>1, <2>2, <2>3 DEF IInv, PinInv, Pinned
<1>21. GateInv'
  <2>1. CASE pc[p] = "body"
    BY <1>1, <1>4, <1>11, <2>1, GateFrameTail DEF IInv, SessionOf, EpochIsFresh, Withdraws
  <2>2. CASE pc[p] # "body"
    BY <1>1, <1>11, <2>2, GateFrame DEF IInv, SessionOf, EpochIsFresh, Withdraws
  <2> QED
    BY <2>1, <2>2
<1> QED
  BY <1>4, <1>5, <1>6, <1>7, <1>9, <1>10, <1>12, <1>13, <1>15, <1>16, <1>17, <1>18,
     <1>19, <1>20, <1>21 DEF IInv

-----------------------------------------------------------------------------
\* Captures, acquisitions and the turn to the owner that is left.

(* An intent captures the surface, or a fork claims an epoch of its own    *)
(* and pins what it saw.                                                   *)
Looks(p) ==
  /\ ~exiting /\ Goto(p, pc'[p])
  /\ \/ /\ pc[p] = "idle" /\ pc'[p] \in {"chosen", "forking"}
        /\ kind'[p] \in Kinds \intersect {"switch", "new", "fork"}
        /\ kind'[p] = "fork" => cur # None
        /\ seen'[p].own = cur /\ seen'[p].session = SessionOf(cur) /\ seen'[p].epoch = epoch'
        /\ window' = window \/ (window = {} /\ window' = {p})
        /\ \/ /\ pc'[p] = "chosen" /\ UNCHANGED <<epoch, pins>>
              /\ kind'[p] = "fork" => window' = window
           \/ /\ pc'[p] = "forking" /\ kind'[p] = "fork"
              /\ epoch' = epoch + 1 /\ pins' = pins \union {p}
     \/ /\ pc[p] = "chosen" /\ kind[p] = "fork" /\ pc'[p] = "forking"
        /\ IsNavigationCurrent(seen[p])
        /\ seen'[p].own = seen[p].own /\ seen'[p].session = seen[p].session
        /\ seen'[p].epoch = epoch' /\ epoch' = epoch + 1
        /\ pins' = pins \union {p}
        /\ UNCHANGED <<kind, window>>
  /\ \A q \in Op \ {p} : kind'[q] = kind[q] /\ seen'[q] = seen[q]
  /\ Asked({})
  /\ UNCHANGED <<line, frozen, writing, cur, gen, owners, ret, exiting, target,
                 next, old, deferred, handed>>

(* A capture keeps the invariant.                                          *)
LEMMA LookKeeps ==
  ASSUME IInv, TypeOK', NEW p \in Op, Looks(p)
  PROVE  IInv'
<1> USE OwnerFacts
<1>1. /\ UNCHANGED <<line, frozen, writing, cur, gen, sessions, sess, life, parked,
                     ret, exiting, target, next, old, deferred, handed>>
      /\ \A q \in Op \ {p} : kind'[q] = kind[q] /\ seen'[q] = seen[q]
      /\ pc[p] \in {"idle", "chosen"} /\ pc'[p] \in {"chosen", "forking"}
      /\ kind'[p] \in {"switch", "new", "fork"}
      /\ pc'[p] = "forking" => kind'[p] = "fork"
      /\ pins' \in {pins, pins \union {p}}
      /\ epoch' \in {epoch, epoch + 1}
      /\ ~exiting /\ Goto(p, pc'[p])
  BY DEF Looks, owners
<1>2. /\ \A q \in Op \ {p} : pc'[q] = pc[q]
      /\ \A t \in Task \ {p} : pc'[t] = pc[t]
      /\ pc'[Exit] = pc[Exit]
  BY <1>1, GotoFacts DEF IInv
<1>3. /\ pc[p] = "idle" => kind[p] = "none" /\ p \notin pins \union window
      /\ pc[p] = "chosen" => kind[p] = "fork" /\ kind'[p] = "fork" /\ p \notin window /\ window' = window
      /\ p \notin deferred \union handed
      /\ next[p] = None
  <2>1. CASE pc[p] = "idle"
    BY <2>1, IdleIsFresh
  <2>2. CASE pc[p] = "chosen"
    BY <2>2 DEF Looks, IInv, LocalInv, ForkInv
  <2> QED
    BY <1>1, <2>1, <2>2
<1>4. LineInv'
  BY <1>1, LineRoams DEF IInv, InGate, Started
<1>5. PathInv'
  <2>1. kind'[p] \in Kinds
    BY <1>3 DEF Looks, IInv, PathInv
  <2> QED
    BY <1>1, <1>2, <1>3, <2>1 DEF IInv, PathInv
<1>6. CountInv' /\ OwnerInv'
  BY <1>1, CountFrame, OwnerFrame DEF IInv
<1>7. LocalInv'
  <2>1. kind'[p] = "fork" => cur # None
    BY <1>1, <1>3 DEF Looks, IInv, LocalInv
  <2> QED
    BY <1>1, <1>2, <1>3, <2>1 DEF IInv, LocalInv, Early, Before, Published
<1>8. Carriers' = Carriers /\ Leavers' = Leavers
  BY <1>1, <1>2, <1>3 DEF Early, Carriers, Leavers
<1>9. KeeperInv'
  BY <1>1, <1>8, KeeperFrame DEF IInv
<1>10. RetireInv'
  BY <1>1, <1>2 DEF IInv, RetireInv, Retiring
<1>11. Navigating' => Navigating
  BY <1>1, <1>2 DEF Navigating, Before
<1>12. ForkInv'
  <2>1. deferred \union handed \union window \union pins \subseteq Op
    BY DEF IInv, TypeOK
  <2>2. \A q \in pins' : kind'[q] = "fork"
    <3>1. p \in pins' => kind'[p] = "fork"
      BY <1>1, <1>3 DEF Looks
    <3> QED
      BY <1>1, <2>1, <3>1 DEF IInv, ForkInv
  <2>3. \A q \in Op : kind'[q] = "fork" /\ pc'[q] \in Forking => q \in pins'
    <3>1. pc'[p] = "forking" => p \in pins'
      BY <1>1 DEF Looks
    <3> QED
      BY <1>1, <1>2, <1>3, <3>1 DEF IInv, ForkInv, Forking
  <2>4. \A q \in window' : q \in window \/ (q = p /\ window' = {p} /\ pc[p] = "idle")
    BY <1>1 DEF Looks
  <2>5. \A q \in window' : kind'[q] \in {"switch", "new", "fork"}
    BY <1>1, <2>1, <2>4 DEF IInv, ForkInv
  <2>6. \A q \in window' : kind'[q] = "fork" => pc'[q] # "chosen"
    <3>1. p \in window' /\ kind'[p] = "fork" => pc'[p] # "chosen"
      BY <1>1, <1>3 DEF Looks
    <3> QED
      BY <1>1, <1>2, <2>1, <2>4, <3>1 DEF IInv, ForkInv
  <2>7. \A q, r \in window' : q = r
    BY <2>4 DEF IInv, ForkInv, Looks
  <2>8. deferred # {} => window' # {}
    BY DEF IInv, ForkInv, Looks
  <2>9. \A q \in deferred \union handed :
           kind'[q] = kind[q] /\ seen'[q] = seen[q] /\ pc'[q] = pc[q] /\ q \in pins'
    BY <1>1, <1>2, <1>3, <2>1 DEF IInv, ForkInv
  <2> QED
    BY <1>1, <2>2, <2>3, <2>5, <2>6, <2>7, <2>8, <2>9 DEF IInv, ForkInv, Retiring
<1>13. ExitInv'
  BY <1>1, <1>2 DEF IInv, ExitInv, Early
<1>14. NoAcquisition
  BY <1>1, <1>8 DEF NoAcquisition, Carriers
<1>15. CancelInv'
  <2>1. Asked({})
    BY DEF Looks
  <2> QED
    BY <1>1, <1>14, <2>1, CancelQuiet DEF IInv
<1>16. WriteInv'
  BY <1>1, <1>2 DEF IInv, WriteInv, WritesKeepTheirOwner, Inside, Started
<1>17. epoch \in Nat /\ epoch' \in Nat /\ seen'[p].epoch = epoch'
  BY <1>1 DEF IInv, TypeOK, Looks
<1>18. SeenInv'
  <2>1. \A q \in Carriers : kind'[q] = kind[q]
    BY <1>1, <1>3 DEF Carriers
  <2>2. CASE pc[p] = "idle"
    <3>1. seen'[p].own = cur /\ seen'[p].session = SessionOf(cur) /\ seen'[p].epoch <= epoch'
      BY <1>17, <2>2 DEF Looks
    <3>2. pc[Exit] \notin {"retireCurrent", "retireParked"}
      BY <1>1 DEF IInv, ExitInv
    <3> QED
      BY <1>1, <1>8, <1>14, <2>1, <3>1, <3>2, CaptureKeepsSeen
  <2>3. CASE pc[p] = "chosen"
    <3>1. /\ \A q \in Op : seen'[q].own = seen[q].own /\ seen'[q].session = seen[q].session
          /\ seen'[p].epoch <= epoch'
      BY <1>1, <1>17, <2>3 DEF Looks
    <3>2. \A q \in Op : seen'[q].epoch <= epoch'
      <4>1. \A q \in Op \ {p} : seen[q].epoch \in Nat /\ seen[q].epoch <= epoch
        BY DEF IInv, TypeOK, SeenInv
      <4> QED
        BY <1>1, <1>17, <3>1, <4>1
    <3> QED
      BY <1>1, <1>8, <2>1, <3>1, <3>2 DEF IInv, SeenInv, SessionOf, Carriers
  <2> QED
    BY <1>1, <2>2, <2>3
<1>19. ScopeInv'
  BY <1>1, <1>2 DEF IInv, ScopeInv, IsScopeCurrent, SessionOf, Before, Early
<1>20. epoch' # epoch => \A q \in Op \ {p} : seen'[q].epoch # epoch'
  BY <1>1, FreshEpoch DEF IInv
<1>21. EpochInv'
  <2>1. Watching' \subseteq Watching \union {p} /\ p \in Op
    BY <1>1, <1>2 DEF Watching, Forking
  <2>2. ForksOut' \subseteq ForksOut \union {p} /\ (p \in ForksOut' => epoch' # epoch) /\ p \notin ForksOut
    <3>1. p \in ForksOut' => pc'[p] = "forking"
      BY <1>1 DEF ForksOut, Forking
    <3>2. pc'[p] = "forking" => epoch' # epoch
      BY <1>17, <1>1 DEF Looks
    <3> QED
      BY <1>1, <1>2, <3>1, <3>2 DEF ForksOut, Forking
  <2>3. ASSUME NEW q \in Watching', seen'[q].epoch = epoch',
               Navigating' \/ seen'[q].session = SessionOf(cur)'
        PROVE  seen'[q].own = cur
    <3>1. CASE q = p
      <4>1. CASE pc[p] = "idle"
        BY <3>1, <4>1 DEF Looks
      <4>2. CASE pc[p] = "chosen"
        <5>1. p \in Watching /\ seen[p].session = SessionOf(cur) /\ seen[p].epoch = epoch
          BY <4>2 DEF Looks, IsNavigationCurrent, Watching
        <5> QED
          BY <3>1, <4>2, <5>1 DEF Looks, IInv, EpochInv
      <4> QED
        BY <1>1, <4>1, <4>2
    <3>2. CASE q # p
      <4>1. q \in Watching /\ q \in Op \ {p}
        BY <2>1, <3>2 DEF Watching
      <4> QED
        BY <1>1, <1>11, <1>20, <2>3, <4>1 DEF IInv, EpochInv, SessionOf
    <3> QED
      BY <3>1, <3>2
  <2>4. ASSUME NEW q \in ForksOut', NEW r \in ForksOut', seen'[q].epoch = seen'[r].epoch
        PROVE  q = r
    <3>1. q \in Op /\ r \in Op
      BY DEF ForksOut
    <3> QED
      BY <1>1, <1>17, <1>20, <2>2, <2>4, <3>1 DEF IInv, EpochInv
  <2> QED
    BY <1>1, <2>3, <2>4 DEF EpochInv
<1>22. PinInv'
  <2>1. \A q \in Op : kind[q] = "fork" => kind'[q] = "fork"
    BY <1>1, <1>3
  <2>2. \A q \in Op : pc'[q] \in {"awaitPin", "resuming"} => pc[q] = pc'[q]
    BY <1>1, <1>2
  <2>3. ASSUME NEW q \in Op, pc'[q] = "resuming", p \in pins', p \notin pins
        PROVE  seen'[p].session # target[q]
    <3>1. pc[q] = "resuming" /\ kind[q] \in {"switch", "pick"}
      BY <2>2, <2>3 DEF IInv, PathInv, TypeOK, AllKinds, Early, Before, Late, Published
    <3>2. target[q] # SessionOf(cur)
      BY <3>1 DEF IInv, ScopeInv, Before
    <3> QED
      BY <2>3, <3>2 DEF Looks, IsNavigationCurrent
  <2>4. ASSUME NEW q \in Op, pc'[q] = "resuming", NEW r \in pins'
        PROVE  seen'[r].session # target[q]
    <3>1. CASE r \in pins
      <4>1. seen[r].session # target[q] /\ r \in Op
        BY <2>2, <2>4, <3>1 DEF IInv, PinInv, Pinned, TypeOK
      <4>2. seen'[r].session = seen[r].session
        BY <1>1, <1>3, <3>1, <4>1 DEF Looks
      <4> QED
        BY <4>1, <4>2
    <3>2. CASE r \notin pins
      BY <1>1, <2>3, <2>4, <3>2
    <3> QED
      BY <3>1, <3>2
  <2>5. ASSUME NEW q \in Op, pc'[q] \in {"awaitPin", "resuming"},
               NEW o \in parked, sess[o] = target[q]
        PROVE  \E r \in Op : kind'[r] = "fork" /\ next[r] = o
    <3>1. \E r \in Op : kind[r] = "fork" /\ next[r] = o
      BY <2>2, <2>5 DEF IInv, PinInv
    <3> QED
      BY <2>1, <3>1
  <2> QED
    BY <1>1, <2>4, <2>5 DEF PinInv, Pinned
<1>23. GateInv'
  <2>1. \A i \in 1..Len(line) :
           /\ line[i] # p
           /\ line[i] \in Op => kind'[line[i]] = kind[line[i]] /\ seen'[line[i]] = seen[line[i]]
    <3>1. \A i \in 1..Len(line) : line[i] # p
      BY <1>1 DEF IInv, LineInv, InGate, Started
    <3> QED
      BY <1>1, <3>1
  <2>2. deferred # {} => window' = window
    BY DEF IInv, ForkInv, Looks
  <2>4. ForksOut' \subseteq ForksOut \union {p}
    BY <1>1, <1>2 DEF ForksOut
  <2>5. (\A i, j \in 1..Len(line) :
            i < j /\ line[i] \in Op /\ line[j] \in Op /\ kind[line[i]] = "switch"
              /\ kind[line[j]] = "fork" /\ seen[line[i]].own = cur
            => seen[line[j]].session = SessionOf(cur))' \/ "pick" \in Kinds
    BY <1>1, <2>1 DEF IInv, GateInv, SessionOf
  <2>6. ASSUME "pick" \notin Kinds, deferred # {}, NEW r \in window
        PROVE  /\ kind'[r] \in {"switch", "new"} => seen'[r].own # cur
               /\ r \in ForksOut' => seen'[r].epoch # epoch'
               /\ \A i, j \in 1..Len(line) :
                    i < j /\ line[i] \in Op /\ line[j] = r /\ kind'[line[i]] = "switch"
                      => seen'[line[i]].own # cur
    <3>1. r # p /\ r \in Op
      BY <1>3, <2>2, <2>6 DEF IInv, TypeOK, Looks, ForkInv
    <3> QED
      BY <1>1, <1>20, <2>1, <2>4, <2>6, <3>1 DEF IInv, GateInv
  <2> QED
    BY <1>1, <2>2, <2>5, <2>6 DEF GateInv
<1> QED
  BY <1>4, <1>5, <1>6, <1>7, <1>9, <1>10, <1>12, <1>13, <1>15, <1>16, <1>18, <1>19,
     <1>21, <1>22, <1>23 DEF IInv

Fresh == Cardinality(Born) + 1

(* There is an owner left for every intent that has none yet: nobody knows *)
(* it, and a new session is within the bound.                              *)
LEMMA FreshOwner ==
  ASSUME IInv, NEW p \in Op, next[p] = None
  PROVE  /\ Fresh \in Owner /\ life[Fresh] = "unborn" /\ ret[Fresh] = "no"
         /\ Fresh # cur /\ Fresh \notin parked /\ Fresh \notin cancelled
         /\ \A q \in Carriers : next[q] # Fresh
         /\ \A q \in Leavers : old[q] # Fresh
         /\ \A q \in Op : seen[q].own # Fresh
         /\ sessions + 1 \in Session
<1> USE OwnerFacts
<1>1. /\ IsFiniteSet(Op) /\ Cardinality(Op) \in Nat /\ Stored \in Nat
      /\ IsFiniteSet(Users) /\ Cardinality(Users) \in Nat
      /\ Cardinality(Users) < Cardinality(Op)
  <2>1. IsFiniteSet(Op) /\ Cardinality(Op) \in Nat /\ Stored \in Nat
    BY BoundsAssumption, FS_CardinalityType
  <2>2. Users \subseteq Op /\ p \notin Users
    BY DEF Users
  <2>3. IsFiniteSet(Users) /\ Cardinality(Users) <= Cardinality(Op)
        /\ (Cardinality(Users) = Cardinality(Op) => Users = Op)
    BY <2>1, <2>2, FS_Subset
  <2>4. Cardinality(Users) \in Nat
    BY <2>3, FS_CardinalityType
  <2> QED
    BY <2>1, <2>2, <2>3, <2>4
<1>2. /\ Born = 1..Cardinality(Born)
      /\ Cardinality(Born) <= 1 + Cardinality(Users)
      /\ sessions <= Stored + Cardinality(Users)
  BY DEF IInv, CountInv
<1>3. Cardinality(Born) \in Nat
  <2>1. Born \subseteq Owner /\ IsFiniteSet(Owner)
    <3>1. Owner = 1..(Cardinality(Op) + 1) /\ Cardinality(Op) + 1 \in Int
      BY <1>1 DEF Owner
    <3> QED
      BY <3>1, FS_Interval DEF Born
  <2> QED
    BY <2>1, FS_Subset, FS_CardinalityType
<1>4. Fresh \in Owner /\ Fresh \notin Born
  <2>1. Fresh \in 1..(Cardinality(Op) + 1)
    BY <1>1, <1>2, <1>3 DEF Fresh
  <2>2. Fresh \notin 1..Cardinality(Born)
    BY <1>3 DEF Fresh
  <2> QED
    BY <1>2, <2>1, <2>2 DEF Owner
<1>5. sessions + 1 \in Session
  <2>1. sessions \in 1..(Stored + Cardinality(Op))
    BY DEF IInv, TypeOK, Session
  <2> QED
    BY <1>1, <1>2, <2>1 DEF Session
<1>6. life[Fresh] = "unborn"
  BY <1>4 DEF Born
<1> HIDE DEF Fresh
<1> QED
  BY <1>4, <1>5, <1>6 DEF IInv, OwnerInv, KeeperInv, Spare, CancelInv, SeenInv

(* The counts after a first owner for an intent.                           *)
LEMMA FreshCount ==
  ASSUME IInv, NEW p \in Op, next[p] = None, Born' = Born \union {Fresh},
         Users' = Users \union {p}, sessions' \in {sessions, sessions + 1}
  PROVE  CountInv'
<1> USE OwnerFacts
<1>1. IsFiniteSet(Users) /\ p \notin Users
  BY BoundsAssumption, FS_Subset DEF Users
<1>2. Cardinality(Users') = Cardinality(Users) + 1 /\ Cardinality(Users) \in Nat
  BY <1>1, FS_AddElement, FS_CardinalityType
<1>3. Born = 1..Cardinality(Born)
  BY DEF IInv, CountInv
<1>4. IsFiniteSet(Born) /\ Cardinality(Born) \in Nat
  <2>1. Born \subseteq Owner /\ IsFiniteSet(Owner)
    <3>1. Cardinality(Op) + 1 \in Int
      BY BoundsAssumption, FS_CardinalityType
    <3> QED
      BY <3>1, FS_Interval DEF Born, Owner
  <2> QED
    BY <2>1, FS_Subset, FS_CardinalityType
<1>5. Fresh \notin Born
  BY FreshOwner DEF Born
<1>6. Cardinality(Born') = Cardinality(Born) + 1
  BY <1>4, <1>5, FS_AddElement
<1>7. Born' = 1..Cardinality(Born')
  <2>1. Born' = 1..Cardinality(Born) \union {Cardinality(Born) + 1}
    BY <1>3 DEF Fresh
  <2> QED
    BY <1>4, <1>6, <2>1
<1>8. sessions \in Int /\ Stored \in Nat
  BY BoundsAssumption DEF IInv, TypeOK, Session
<1>9. Cardinality(Born) <= 1 + Cardinality(Users) /\ sessions <= Stored + Cardinality(Users)
  BY DEF IInv, CountInv
<1>10. Cardinality(Born') <= 1 + Cardinality(Users')
  BY <1>2, <1>4, <1>6, <1>9
<1>11. sessions' <= Stored + Cardinality(Users')
  BY <1>2, <1>8, <1>9
<1> QED
  BY <1>7, <1>10, <1>11 DEF CountInv

(* The Host hands out the Agent of a session nobody holds.                 *)
Gets(p, s) ==
  /\ Acquire(p, s)
  /\ \/ /\ pc[p] = "resuming" /\ Goto(p, "commit") /\ UNCHANGED <<sessions, parked>>
        /\ s = target[p] /\ ~Claimed(s)
     \/ /\ pc[p] = "creating" /\ Goto(p, "commit") /\ UNCHANGED parked
        /\ s = sessions + 1 /\ sessions' = s
     \/ /\ pc[p] = "creating" /\ Goto(p, "leave") /\ parked' = parked \union {next'[p]}
        /\ s = sessions + 1 /\ sessions' = s
     \/ /\ pc[p] = "forking" /\ Goto(p, "attaching") /\ UNCHANGED parked
        /\ s = sessions + 1 /\ sessions' = s
  /\ UNCHANGED <<admission, writing, identity, agents, ret, exiting,
                 intents, old, forks>>

(* An acquisition keeps the invariant.                                     *)
LEMMA GetKeeps ==
  ASSUME IInv, TypeOK', NEW p \in Op, NEW s, Gets(p, s)
  PROVE  IInv'
<1> USE OwnerFacts
<1>1. /\ UNCHANGED <<line, frozen, writing, cur, gen, epoch, cancelled, late, ret,
                     exiting, kind, target, seen, old, pins, window, deferred, handed>>
      /\ Goto(p, pc'[p])
      /\ pc[p] \in {"resuming", "creating", "forking"}
      /\ pc'[p] \in {"commit", "leave", "attaching"}
      /\ pc[p] = "forking" <=> pc'[p] = "attaching"
      /\ pc'[p] = "leave" => pc[p] = "creating"
      /\ sessions' \in {sessions, sessions + 1}
  BY GotoFacts DEF IInv, Gets, admission, identity, agents, intents, forks
<1>2. /\ \A q \in Op \ {p} : pc'[q] = pc[q]
      /\ \A t \in Task \ {p} : pc'[t] = pc[t]
      /\ pc'[Exit] = pc[Exit]
  BY <1>1, GotoFacts DEF IInv
<1>3. next[p] = None /\ (pc[p] = "forking" <=> kind[p] = "fork") /\ kind[p] # "none"
  <2>1. kind[p] \in {"switch", "pick", "new", "first", "fork", "plain", "none"}
    BY DEF IInv, TypeOK, AllKinds
  <2>2. (pc[p] = "forking" <=> kind[p] = "fork") /\ kind[p] # "none"
    BY <1>1, <2>1 DEF IInv, PathInv, Early, Before, Late, Published
  <2> QED
    BY <1>1, <2>2 DEF IInv, LocalInv, Before
<1>4. /\ \A o \in Owner : sess'[o] = IF o = Fresh THEN s ELSE sess[o]
      /\ \A o \in Owner : life'[o] = IF o = Fresh THEN "held" ELSE life[o]
      /\ next'[p] = Fresh /\ \A q \in Op \ {p} : next'[q] = next[q]
  BY DEF Gets, Acquire, Fresh, Born, IInv, TypeOK
<1>5. /\ Fresh \in Owner /\ life[Fresh] = "unborn" /\ ret[Fresh] = "no"
      /\ Fresh # cur /\ Fresh \notin parked /\ Fresh \notin cancelled
      /\ \A q \in Carriers : next[q] # Fresh
      /\ \A q \in Leavers : old[q] # Fresh
      /\ \A q \in Op : seen[q].own # Fresh
  BY <1>3, FreshOwner
<1>6. /\ s \in 1..sessions'
      /\ \A o \in Owner : life[o] = "held" => sess[o] # s
      /\ kind[p] = "fork" => \A o \in Owner : life[o] # "unborn" => sess[o] # s
      /\ sessions \in Nat \ {0} /\ sessions' \in Nat
  <2>1. sessions \in Nat \ {0} /\ sessions' \in Nat
    BY <1>1 DEF IInv, TypeOK, Session
  <2>2. CASE s = sessions + 1 /\ sessions' = s
    BY <2>1, <2>2 DEF IInv, OwnerInv
  <2>3. CASE pc[p] = "resuming" /\ sessions' = sessions /\ s = target[p] /\ ~Claimed(s)
    <3>1. target[p] # None /\ target[p] <= sessions /\ target[p] \in Session \union {None}
      <4>1. kind[p] \in {"switch", "pick"}
        BY <1>3, <2>3 DEF IInv, PathInv, TypeOK, AllKinds, Early
      <4> QED
        BY <2>3, <4>1 DEF IInv, ScopeInv, LocalInv, TypeOK, Before
    <3>2. target[p] \in 1..sessions
      BY <2>1, <3>1 DEF Session, None
    <3> QED
      BY <1>3, <2>1, <2>3, <3>2 DEF Claimed
  <2> QED
    BY <2>2, <2>3 DEF Gets
<1>7. SessionOf(cur)' = SessionOf(cur) /\ cur \in Owner \union {None}
  BY <1>1, <1>4, <1>5 DEF SessionOf, IInv, TypeOK
<1>8. LineInv'
  <2>1. CASE pc[p] = "forking"
    BY <1>1, <2>1, LineRoams DEF IInv, InGate, Started
  <2>2. CASE pc[p] # "forking"
    BY <1>1, <2>2, LineWalks DEF IInv, Started
  <2> QED
    BY <2>1, <2>2
<1>9. PathInv'
  BY <1>1, <1>2, <1>3 DEF IInv, PathInv, Early, Before, Late
<1>10. CountInv'
  <2>1. Born' = Born \union {Fresh}
    BY <1>4, <1>5 DEF Born
  <2>2. Users' = Users \union {p}
    BY <1>4, <1>5 DEF Users
  <2> QED
    BY <1>1, <1>3, <2>1, <2>2, FreshCount
<1>11. LocalInv'
  <2>1. \A q \in Op : target[q] <= sessions'
    <3>1. \A q \in Op : target[q] \in Session \union {None} /\ target[q] <= sessions
      BY DEF IInv, LocalInv, TypeOK
    <3>2. \A q \in Op : target[q] \in Int
      BY <3>1 DEF Session, None
    <3> QED
      BY <1>1, <1>6, <3>1, <3>2
  <2>2. next'[p] # None
    BY <1>4, <1>5
  <2>3. kind[p] \in Ordinary /\ pc'[p] \in Before => old[p] = cur
    BY <1>1 DEF IInv, LocalInv, Before
  <2>4. kind[p] = "first" /\ pc'[p] \in {"creating", "commit"} => cur = None
    BY <1>1 DEF IInv, LocalInv, PathInv, Early
  <2>5. (\A q \in Op \ {p} :
    /\ pc[q] \in {"commit", "releasing"} \union Published => next[q] # None
    /\ kind[q] = "fork" /\ pc[q] \in {"attaching"} \union Early => next[q] # None
    /\ kind[q] = "fork" /\ pc[q] \in {"chosen", "forking"} => next[q] = None
    /\ kind[q] # "fork" /\ pc[q] \in {"idle", "chosen", "resolved"} \union Early
                                      \union (Before \ {"commit"}) => next[q] = None
    /\ kind[q] \in Ordinary /\ pc[q] \in Before => old[q] = cur
    /\ pc[q] \in {"quiesce", "flushOld", "retireOld"} => old[q] # None
    /\ kind[q] = "first" /\ pc[q] \in {"creating", "commit"} => cur = None
    /\ pc[q] \in Published => next[q] = cur
    /\ kind[q] = "fork" => cur # None)'
    BY <1>1, <1>2, <1>4 DEF IInv, LocalInv
  <2> QED
    BY <1>1, <1>3, <2>1, <2>2, <2>3, <2>4, <2>5 DEF IInv, LocalInv, Before, Early, Published
<1>12. OwnerInv'
  <2>1. ASSUME NEW o \in Owner
        PROVE  (/\ ret[o] # "twice"
                /\ ret[o] = "done" <=> life[o] = "gone"
                /\ life[o] = "unborn" => ret[o] = "no")'
    BY <1>1, <1>4, <1>5 DEF IInv, OwnerInv
  <2>2. ASSUME NEW o \in Owner, life'[o] # "unborn"
        PROVE  sess'[o] \in 1..sessions'
    <3>1. o # Fresh => sess[o] \in 1..sessions
      BY <1>4, <2>2 DEF IInv, OwnerInv
    <3> QED
      BY <1>1, <1>4, <1>6, <3>1
  <2>3. ASSUME NEW o \in Owner, NEW x \in Owner, life'[o] = "held", life'[x] = "held",
               sess'[o] = sess'[x]
        PROVE  o = x
    BY <1>4, <1>6, <2>3 DEF IInv, OwnerInv
  <2>4. cur # None => life'[cur] # "unborn"
    BY <1>4, <1>7 DEF IInv, OwnerInv
  <2> QED
    BY <1>1, <2>1, <2>2, <2>3, <2>4 DEF OwnerInv
<1>13. /\ Carriers' = IF pc'[p] = "leave" THEN Carriers ELSE Carriers \union {p}
       /\ parked' = IF pc'[p] = "leave" THEN parked \union {Fresh} ELSE parked
       /\ p \notin Carriers /\ Leavers' = Leavers
  <2>1. parked' = IF pc'[p] = "leave" THEN parked \union {Fresh} ELSE parked
    BY <1>2, <1>4, GotoFacts DEF Gets, IInv
  <2> QED
    BY <1>1, <1>2, <1>3, <1>4, <1>5, <2>1 DEF Carriers, Leavers, Early
<1>14. KeeperInv'
  <2>1. \A q \in Carriers : q # p /\ next'[q] = next[q] /\ next[q] # Fresh /\ next[q] \in Owner
    <3>1. \A q \in Carriers : q \in Op \ {p} /\ next[q] \in Owner \ {Fresh}
      BY <1>5, <1>13 DEF Carriers, IInv, TypeOK
    <3> QED
      BY <1>4, <3>1
  <2>2. \A q \in Leavers : old[q] # Fresh /\ old[q] \in Owner
    BY <1>5 DEF Leavers, IInv, TypeOK
  <2>3. \A o \in parked : o # Fresh /\ o \in Owner
    BY <1>5 DEF IInv, TypeOK
  <2>4. p \in Op /\ next'[p] = Fresh /\ life'[Fresh] = "held"
    BY <1>4, <1>5
  <2> HIDE DEF Carriers, Leavers
  <2>5. (\A o \in parked : Spare(o))'
    BY <1>1, <1>4, <1>5, <1>13, <2>3, <2>4 DEF IInv, KeeperInv, Spare
  <2>6. (/\ \A q \in Carriers : Spare(next[q]) /\ next[q] \notin parked
         /\ \A q, r \in Carriers : next[q] = next[r] => q = r)'
    BY <1>1, <1>4, <1>5, <1>13, <2>1, <2>3, <2>4 DEF IInv, KeeperInv, Spare
  <2>7. (/\ \A q \in Leavers : Spare(old[q]) /\ old[q] \notin parked
         /\ \A q, r \in Leavers : old[q] = old[r] => q = r
         /\ \A q \in Carriers, r \in Leavers : next[q] # old[r])'
    BY <1>1, <1>4, <1>5, <1>13, <2>1, <2>2, <2>4 DEF IInv, KeeperInv, Spare
  <2>8. (\A o \in Owner : life[o] = "held" /\ ret[o] = "no" =>
           \/ o = cur \/ o \in parked
           \/ \E q \in Carriers : next[q] = o
           \/ \E q \in Leavers : old[q] = o)'
    <3>1. ASSUME NEW o \in Owner, o # Fresh, life[o] = "held", ret[o] = "no"
          PROVE  \/ o = cur \/ o \in parked
                 \/ \E q \in Carriers : next[q] = o
                 \/ \E q \in Leavers : old[q] = o
      BY <3>1 DEF IInv, KeeperInv
    <3> QED
      BY <1>1, <1>4, <1>13, <2>1, <2>4, <3>1
  <2> QED
    BY <2>5, <2>6, <2>7, <2>8 DEF KeeperInv
<1>15. RetireInv'
  BY <1>1, <1>2, <1>4 DEF IInv, RetireInv, Retiring
<1>16. /\ Watching' = Watching /\ ForksOut' = ForksOut
       /\ PendingForks' = PendingForks /\ (Navigating' => Navigating)
  BY <1>1, <1>2, <1>3 DEF Watching, ForksOut, PendingForks, Navigating, Forking, Before, Ordinary
<1>17. ForkInv'
  <2>1. p \notin deferred \union handed /\ deferred \union handed \union window \subseteq Op
    BY <1>1 DEF IInv, ForkInv, TypeOK
  <2>2. \A q \in deferred \union handed : q \in pins /\ old[q] # None /\ old[q] \in Owner
                                           /\ seen[q].session = sess[old[q]] /\ kind[q] = "fork"
                                           /\ pc[q] \in Ending
    BY <2>1 DEF IInv, ForkInv, TypeOK, Ending
  <2>3. \A q \in deferred \union handed : seen[q].session = sess'[old[q]]
    <3>1. \A q \in Op : seen[q].session = SessionOf(seen[q].own) /\ seen[q].own # Fresh
      BY <1>5 DEF IInv, SeenInv
    <3>2. \A q \in deferred \union handed : old[q] # Fresh
      <4>1. \A q \in handed : Retiring(old[q])
        BY DEF IInv, ForkInv
      <4>2. \A q \in deferred : q \in Leavers
        BY <2>1, <2>2 DEF Leavers
      <4> QED
        BY <1>5, <4>1, <4>2 DEF Retiring
    <3> QED
      BY <1>4, <2>2, <3>2
  <2>4. \A q \in Op : kind[q] = "fork" /\ pc'[q] \in Forking => pc[q] \in Forking
    BY <1>1, <1>2 DEF Forking
  <2>5. \A q \in deferred \union handed : pc'[q] = pc[q]
    BY <1>2, <2>1
  <2>6. \A q \in window : pc'[q] = "chosen" => pc[q] = "chosen"
    BY <1>1, <1>2, <2>1
  <2> QED
    BY <1>1, <2>2, <2>3, <2>4, <2>5, <2>6 DEF IInv, ForkInv, Retiring
<1>18. ExitInv'
  <2>1. pc[Exit] # "done"
    BY <1>1, <1>3 DEF IInv, ExitInv, PendingForks, Early
  <2> QED
    BY <1>1, <1>2, <1>4, <1>5, <1>16, <2>1 DEF IInv, ExitInv
<1>19. CancelInv'
  BY <1>1, <1>4, <1>5, <1>13 DEF IInv, CancelInv, TypeOK, Carriers
<1>20. WriteInv'
  <2>1. \A t \in Task : pc'[t] \in Inside => pc[t] \in Inside
    BY <1>1, <1>2 DEF Inside, Started
  <2> QED
    BY <1>1, <2>1 DEF IInv, WriteInv, WritesKeepTheirOwner
<1>21. SeenInv'
  <2>1. \A q \in Op : /\ seen[q].epoch <= epoch
                      /\ seen[q].own \in Owner \union {None} /\ seen[q].own # Fresh
                      /\ seen[q].session = SessionOf(seen[q].own)
                      /\ seen[q].own # None => life[seen[q].own] # "unborn"
                      /\ seen[q].own \notin parked
    BY <1>5 DEF IInv, SeenInv, TypeOK
  <2>2. \A q \in Op : SessionOf(seen[q].own)' = SessionOf(seen[q].own)
    BY <1>1, <1>4, <2>1 DEF SessionOf
  <2>3. ASSUME NEW q \in Op, kind[p] = "fork"
        PROVE  seen[q].session # s
    BY <1>6, <2>1, <2>3 DEF SessionOf, None
  <2>4. (\A r \in Op, q \in Carriers : seen[r].own # next[q])'
    BY <1>1, <1>4, <1>13, <2>1 DEF IInv, SeenInv, Carriers
  <2>5. (\A r \in Op, q \in Carriers : kind[q] = "fork" => seen[r].session # sess[next[q]])'
    <3>1. \A q \in Carriers : q \in Op \ {p} /\ next[q] \in Owner \ {Fresh}
      BY <1>5, <1>13 DEF Carriers, IInv, TypeOK
    <3>3. \A q \in Carriers : next'[q] = next[q] /\ sess'[next[q]] = sess[next[q]]
      BY <1>4, <3>1
    <3>2. sess'[next'[p]] = s
      BY <1>4, <1>5
    <3> QED
      BY <1>1, <1>13, <2>3, <3>3, <3>2 DEF IInv, SeenInv
  <2> QED
    BY <1>1, <1>4, <1>13, <2>1, <2>2, <2>4, <2>5 DEF SeenInv
<1>22. ScopeInv'
  BY <1>1, <1>2, <1>7 DEF IInv, ScopeInv, IsScopeCurrent, Before, Early
<1>23. EpochInv'
  BY <1>1, <1>7, <1>16, EpochFrame DEF IInv, EpochIsFresh
<1>24. PinInv'
  <2>1. pc'[p] = "leave" => \A q \in Op : pc'[q] \notin {"awaitPin", "resuming"}
    <3>1. ASSUME pc'[p] = "leave", NEW q \in Op \ {p}
          PROVE  pc[q] \notin {"awaitPin", "resuming"}
      BY <1>1, <3>1, StartedIsHead DEF IInv, Started
    <3> QED
      BY <1>1, <1>2, <3>1
  <2>2. \A o \in parked : sess'[o] = sess[o] /\ o # None
    BY <1>4, <1>5 DEF IInv, TypeOK
  <2>3. \A q \in Op : pc'[q] \in {"awaitPin", "resuming"} => pc[q] = pc'[q]
    BY <1>1, <1>2
  <2>4. \A q \in Op, o \in parked : next[q] = o => next'[q] = o
    BY <1>3, <1>4, <2>2
  <2> QED
    BY <1>1, <1>13, <2>1, <2>2, <2>3, <2>4 DEF IInv, PinInv, Pinned
<1>25. GateInv'
  BY <1>1, <1>7, <1>16, GateFrame DEF IInv, EpochIsFresh
<1> QED
  BY <1>8, <1>9, <1>10, <1>11, <1>12, <1>14, <1>15, <1>17, <1>18, <1>19, <1>20, <1>21,
     <1>22, <1>23, <1>24, <1>25 DEF IInv

(* A navigation turns to the owner it leaves.                              *)
Turns(p) ==
  /\ \/ pc[p] = "body" /\ kind[p] \in {"switch", "pick"} /\ ~exiting
     \/ pc[p] = "resolved" /\ kind[p] = "new"
  /\ Goto(p, pc'[p])
  /\ \/ cur = None /\ pc'[p] = "create" /\ Asked({})
     \/ cur # None /\ pc'[p] = "quiesce" /\ Asked({cur})
  /\ old' = [old EXCEPT ![p] = cur]
  /\ epoch' = epoch + 1
  /\ UNCHANGED <<line, frozen, writing, cur, gen, owners, ret, exiting, intents, next, forks>>

(* The turn to the owner that is left keeps the invariant.                 *)
LEMMA TurnKeeps ==
  ASSUME IInv, TypeOK', NEW p \in Op, Turns(p)
  PROVE  IInv'
<1> USE OwnerFacts
<1>1. /\ UNCHANGED <<line, frozen, writing, cur, gen, sessions, sess, life, parked,
                     ret, exiting, kind, target, seen, next, pins, window,
                     deferred, handed>>
      /\ pc[p] \in {"body", "resolved"} /\ pc'[p] \in {"create", "quiesce"}
      /\ kind[p] \in Ordinary
      /\ epoch' = epoch + 1
      /\ Goto(p, pc'[p])
  BY DEF Turns, owners, intents, forks, Ordinary
<1>2. /\ \A q \in Op \ {p} : pc'[q] = pc[q]
      /\ \A t \in Task \ {p} : pc'[t] = pc[t]
      /\ pc'[Exit] = pc[Exit]
  BY <1>1, GotoFacts DEF IInv
<1>3. \A t \in Task \ {p} : pc[t] \notin Started
  BY <1>1, StartedIsHead DEF IInv, Started
<1>4. old'[p] = cur /\ \A q \in Op \ {p} : old'[q] = old[q]
  BY DEF Turns, IInv, TypeOK
<1>5. next[p] = None /\ p \notin deferred \union handed
  BY <1>1 DEF IInv, LocalInv, ForkInv, Early, Ordinary
<1>6. LineInv'
  BY <1>1, LineWalks DEF IInv, Started
<1>7. PathInv'
  BY <1>1, <1>2 DEF IInv, PathInv, Before, Ordinary
<1>8. CountInv' /\ OwnerInv'
  BY <1>1, CountFrame, OwnerFrame DEF IInv
<1>9. LocalInv'
  BY <1>1, <1>2, <1>4, <1>5 DEF IInv, LocalInv, Early, Before, Published, Ordinary, Turns
<1>10. Carriers' = Carriers /\ Leavers' = Leavers /\ Leavers \subseteq Op \ {p}
  BY <1>1, <1>2, <1>4, <1>5 DEF Early, Carriers, Leavers
<1>11. KeeperInv'
  BY <1>1, <1>4, <1>10, KeeperFrame DEF IInv
<1>12. RetireInv'
  <2>1. handed \subseteq Op
    BY DEF IInv, TypeOK
  <2> QED
    BY <1>1, <1>2, <1>4, <1>5, <2>1 DEF IInv, RetireInv, Retiring
<1>13. Watching' = Watching /\ ForksOut' = ForksOut /\ PendingForks' = PendingForks
  BY <1>1, <1>2 DEF Watching, ForksOut, PendingForks, Ordinary
<1>14. ForkInv'
  <2>1. deferred \union handed \union window \union pins \subseteq Op
    BY DEF IInv, TypeOK
  <2>2. \A q \in deferred \union handed : old'[q] = old[q] /\ pc'[q] = pc[q]
    BY <1>2, <1>4, <1>5, <2>1
  <2>3. \A q \in Op : kind[q] = "fork" => pc'[q] = pc[q]
    BY <1>1, <1>2 DEF Ordinary
  <2> QED
    BY <1>1, <2>1, <2>2, <2>3 DEF IInv, ForkInv, Retiring
<1>15. pc[Exit] \notin {"retireCurrent", "retireParked", "done"} \union Started
  <2>1. pc[Exit] # "done"
    BY <1>1 DEF IInv, ExitInv, Early, Turns
  <2> QED
    BY <1>3, <2>1 DEF Started
<1>16. ExitInv'
  BY <1>1, <1>2, <1>13, <1>15 DEF IInv, ExitInv
<1>17. NoAcquisition
  BY <1>1, <1>10 DEF NoAcquisition, Carriers
<1>18. CancelInv'
  <2>1. CASE Asked({})
    BY <1>1, <1>17, <2>1, CancelQuiet DEF IInv
  <2>2. CASE cur # None /\ Asked({cur})
    <3>1. ret[cur] = "no" /\ life[cur] # "unborn" /\ cur \in Owner
      BY <1>15, <2>2 DEF IInv, ExitInv, OwnerInv, TypeOK
    <3>2. cur \notin parked' /\ \A q \in Carriers' : next[q] # cur
      BY <1>1, <1>10 DEF IInv, KeeperInv, Spare
    <3> QED
      BY <1>1, <1>17, <2>2, <3>1, <3>2, CancelFrame DEF IInv
  <2> QED
    BY <2>1, <2>2 DEF Turns
<1>19. WriteInv'
  <2>1. \A t \in Task : pc'[t] \in Inside => pc[t] \in Inside
    BY <1>1, <1>2 DEF Inside, Started
  <2> QED
    BY <1>1, <2>1 DEF IInv, WriteInv, WritesKeepTheirOwner
<1>20. SeenInv'
  BY <1>1, <1>17, SeenFrame DEF IInv
<1>21. ScopeInv'
  BY <1>1, <1>2, <1>3 DEF IInv, ScopeInv, IsScopeCurrent, SessionOf, Before, Early, Turns
<1>22. EpochIsFresh /\ \A q \in Op : seen[q].epoch # epoch'
  BY <1>1, FreshEpoch DEF IInv, EpochIsFresh
<1>23. EpochInv'
  BY <1>1, <1>13, <1>22 DEF IInv, EpochInv, Watching, ForksOut
<1>24. PinInv'
  BY <1>1, <1>2 DEF IInv, PinInv, Pinned
<1>25. GateInv'
  BY <1>1, <1>13, <1>22, GateFrame DEF IInv, SessionOf
<1> QED
  BY <1>6, <1>7, <1>8, <1>9, <1>11, <1>12, <1>14, <1>16, <1>18, <1>19, <1>20, <1>21,
     <1>23, <1>24, <1>25 DEF IInv

-----------------------------------------------------------------------------
(* A switch takes the parked owner of its target.                          *)
Claims(p) ==
  /\ pc[p] = "create" /\ kind[p] \in {"switch", "pick"} /\ ~exiting
  /\ \E o \in parked :
       /\ parked' = parked \ {o} /\ next' = [next EXCEPT ![p] = o] /\ Goto(p, "commit")
  /\ UNCHANGED <<admission, writing, identity, agents, sessions, sess, life,
                 ret, exiting, intents, old, forks>>

(* The claim of a parked owner keeps the invariant.                        *)
LEMMA ClaimKeeps ==
  ASSUME IInv, TypeOK', NEW p \in Op, Claims(p)
  PROVE  IInv'
<1> USE OwnerFacts
<1>1. PICK o \in parked : parked' = parked \ {o} /\ next' = [next EXCEPT ![p] = o] /\ Goto(p, "commit")
  BY DEF Claims
<1>2. /\ UNCHANGED <<line, frozen, writing, cur, gen, epoch, cancelled, late, sessions,
                     sess, life, ret, exiting, kind, target, seen, old, pins, window,
                     deferred, handed>>
      /\ pc[p] = "create" /\ kind[p] \in {"switch", "pick"} /\ ~exiting
  BY DEF Claims, admission, identity, agents, intents, forks
<1>3. /\ pc'[p] = "commit" /\ \A q \in Op \ {p} : pc'[q] = pc[q]
      /\ \A t \in Task \ {p} : pc'[t] = pc[t]
      /\ pc'[Exit] = pc[Exit]
  BY <1>1, GotoFacts DEF IInv
<1>4. o \in Owner /\ next'[p] = o /\ o # None /\ \A q \in Op \ {p} : next'[q] = next[q]
  BY <1>1 DEF IInv, TypeOK
<1>5. /\ next[p] = None /\ life[o] = "held" /\ ret[o] = "no" /\ o # cur
      /\ \A q \in Carriers : next[q] # o
      /\ \A q \in Leavers : old[q] # o
      /\ \A q \in Op : seen[q].own # o
      /\ o \notin cancelled
  BY <1>2 DEF IInv, LocalInv, Before, KeeperInv, Spare, SeenInv, CancelInv
<1>6. LineInv'
  BY <1>1, <1>2, LineWalks DEF IInv, Started
<1>7. PathInv'
  BY <1>2, <1>3 DEF IInv, PathInv, Before
<1>8. CountInv'
  <2>1. Users' = Users \union {p} /\ Born' = Born
    BY <1>2, <1>4 DEF Users, Born
  <2>2. IsFiniteSet(Users) /\ p \notin Users
    BY <1>5, BoundsAssumption, FS_Subset DEF Users
  <2>3. Cardinality(Users') = Cardinality(Users) + 1 /\ Cardinality(Users) \in Nat
    BY <2>1, <2>2, FS_AddElement, FS_CardinalityType
  <2>4. Cardinality(Born) \in Int /\ sessions \in Int /\ Stored \in Int
    <3>1. IsFiniteSet(Born)
      <4>1. Cardinality(Op) + 1 \in Int
        BY BoundsAssumption, FS_CardinalityType
      <4> QED
        BY <4>1, FS_Interval, FS_Subset DEF Born, Owner
    <3> QED
      BY <3>1, FS_CardinalityType, BoundsAssumption DEF IInv, TypeOK, Session
  <2>5. /\ Cardinality(Born) <= 1 + Cardinality(Users) /\ sessions <= Stored + Cardinality(Users)
        /\ Born = 1..Cardinality(Born)
    BY DEF IInv, CountInv
  <2>6. Cardinality(Born) <= 1 + Cardinality(Users') /\ sessions <= Stored + Cardinality(Users')
    BY <2>3, <2>4, <2>5
  <2> QED
    BY <1>2, <2>1, <2>5, <2>6 DEF CountInv
<1>9. OwnerInv'
  BY <1>2, OwnerFrame DEF IInv
<1>10. LocalInv'
  BY <1>2, <1>3, <1>4 DEF IInv, LocalInv, Early, Before, Published, Ordinary
<1>11. Carriers' = Carriers \union {p} /\ Leavers' = Leavers /\ p \notin Carriers
  BY <1>2, <1>3, <1>4, <1>5 DEF Early, Carriers, Leavers
<1>12. KeeperInv'
  <2>1. \A q \in Carriers : q # p /\ next'[q] = next[q]
    BY <1>4, <1>11 DEF Carriers
  <2> HIDE DEF Carriers, Leavers
  <2> QED
    BY <1>1, <1>2, <1>4, <1>5, <1>11, <2>1 DEF IInv, KeeperInv, Spare
<1>13. RetireInv'
  BY <1>2, <1>3, <1>4 DEF IInv, RetireInv, Retiring
<1>14. /\ Watching' = Watching /\ ForksOut' = ForksOut
       /\ PendingForks' = PendingForks /\ (Navigating' => Navigating)
  BY <1>2, <1>3 DEF Watching, ForksOut, PendingForks, Navigating, Forking, Before, Ordinary
<1>15. ForkInv'
  <2>1. deferred \union handed \union window \subseteq Op
    BY DEF IInv, TypeOK
  <2>2. \A q \in Op : kind[q] = "fork" => pc'[q] = pc[q]
    BY <1>2, <1>3
  <2> QED
    BY <1>2, <2>1, <2>2 DEF IInv, ForkInv, Retiring
<1>16. ExitInv'
  BY <1>2, <1>3, <1>14 DEF IInv, ExitInv
<1>17. CancelInv'
  BY <1>1, <1>2, <1>4, <1>5, <1>11 DEF IInv, CancelInv, Carriers
<1>18. WriteInv'
  <2>1. \A t \in Task : pc'[t] \in Inside => pc[t] \in Inside
    BY <1>2, <1>3 DEF Inside, Started
  <2> QED
    BY <1>2, <2>1 DEF IInv, WriteInv, WritesKeepTheirOwner
<1>19. SeenInv'
  <2>1. \A q \in Carriers : q # p /\ next'[q] = next[q]
    BY <1>4, <1>11 DEF Carriers
  <2> HIDE DEF Carriers
  <2> QED
    BY <1>1, <1>2, <1>4, <1>5, <1>11, <2>1 DEF IInv, SeenInv, SessionOf
<1>20. ScopeInv'
  BY <1>2, <1>3 DEF IInv, ScopeInv, IsScopeCurrent, SessionOf, Before, Early
<1>21. EpochInv'
  BY <1>2, <1>14, EpochFrame DEF IInv, SessionOf, EpochIsFresh
<1>22. PinInv'
  BY <1>1, <1>2, <1>3, <1>4 DEF IInv, PinInv, Pinned
<1>23. GateInv'
  BY <1>2, <1>14, GateFrame DEF IInv, SessionOf, EpochIsFresh
<1> QED
  BY <1>6, <1>7, <1>8, <1>9, <1>10, <1>12, <1>13, <1>15, <1>16, <1>17, <1>18, <1>19,
     <1>20, <1>21, <1>22, <1>23 DEF IInv
=============================================================================
