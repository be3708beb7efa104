------------------------ MODULE SessionRuntime_owners -----------------------
(***************************************************************************)
(* The steps that move the surface, begin a retirement or belong to the    *)
(* exit.  As in SessionRuntime_requests a lemma says of each kind of step  *)
(* that it keeps the inductive invariant, given that it keeps the types.   *)
(***************************************************************************)
EXTENDS SessionRuntime_requests

-----------------------------------------------------------------------------
\* Commits, and the retirement of what they replace.

(* Nothing but the transition itself is under way in a body, and the exit  *)
(* has not reached the owner on the surface.                               *)
LEMMA InsideAlone ==
  ASSUME IInv, NEW p \in Op, pc[p] \in Inside,
         pc[Exit] # "done"
  PROVE  /\ \A t \in Task \ {p} : pc[t] \notin Started
         /\ \A q \in Op \ {p} : pc[q] \notin Before \union Published \union
                                  {"drain", "body", "resolved", "releasing"}
         /\ pc[Exit] \notin {"retireCurrent", "retireParked", "done"} \union Started
         /\ \A w \in Writer : writing[w] = None
         /\ cur # None => life[cur] = "held" /\ ret[cur] = "no" /\ cur \in Owner
<1> USE OwnerFacts
<1>1. \A t \in Task \ {p} : pc[t] \notin Started
  BY StartedIsHead DEF IInv, Inside
<1>2. \A q \in Op \ {p} : pc[q] \notin Before \union Published \union
                            {"drain", "body", "resolved", "releasing"}
  BY <1>1 DEF Started, Before, Published
<1>3. pc[Exit] \notin {"retireCurrent", "retireParked", "done"} \union Started
  BY <1>1 DEF Started
<1>4. \A w \in Writer : writing[w] = None
  BY DEF IInv, WriteInv
<1>5. ASSUME cur # None
      PROVE  life[cur] = "held" /\ ret[cur] = "no" /\ cur \in Owner
  <2>1. cur \in Owner /\ life[cur] \in {"unborn", "held", "gone"}
    BY <1>5 DEF IInv, TypeOK
  <2>2. ret[cur] = "no"
    BY <1>3, <1>5 DEF IInv, ExitInv
  <2> QED
    BY <1>5, <2>1, <2>2 DEF IInv, OwnerInv
<1> QED
  BY <1>1, <1>2, <1>3, <1>4, <1>5

(* What a commit of an intent leaves to the others: nobody is inside.      *)
LEMMA ScopeAlone ==
  ASSUME IInv, NEW p \in Op, pc'[p] \in {"releasing", "done"} \union Published,
         \A q \in Op \ {p} : pc'[q] = pc[q],
         \A q \in Op \ {p} : pc[q] \notin Before \union {"drain", "body", "resolved"},
         UNCHANGED <<kind, target>>
  PROVE  ScopeInv' /\ PinInv'
<1>1. ScopeInv'
  BY DEF IInv, ScopeInv, Before, Early, Published
<1>2. \A q \in Op : pc'[q] \notin {"awaitPin", "resuming"}
  BY DEF Before, Published
<1> QED
  BY <1>1, <1>2 DEF PinInv

(* A navigation or a first session publishes its owner.                    *)
Commits(p) ==
  /\ pc[p] = "commit" /\ Goto(p, pc'[p])
  /\ \/ kind[p] \in Ordinary /\ pc'[p] = "flushNew" /\ Asked({})
     \/ kind[p] = "first" /\ pc'[p] = "childIdle" /\ Asked({next[p]})
  /\ cur' = next[p]
  /\ UNCHANGED <<line, frozen, writing, epoch, owners, ret, exiting, intents, next,
                 old, forks>>

(* A commit keeps the invariant.                                           *)
LEMMA CommitKeeps ==
  ASSUME IInv, TypeOK', NEW p \in Op, Commits(p)
  PROVE  IInv'
<1> USE OwnerFacts
<1>1. /\ UNCHANGED <<line, frozen, writing, epoch, sessions, sess, life, parked,
                     ret, exiting, kind, target, seen, next, old, pins, window,
                     deferred, handed>>
      /\ pc[p] = "commit" /\ pc'[p] \in {"flushNew", "childIdle"}
      /\ kind[p] \in Ordinary <=> pc'[p] = "flushNew"
      /\ kind[p] = "first" <=> pc'[p] = "childIdle"
      /\ kind[p] # "fork"
      /\ cur' = next[p]
      /\ Goto(p, pc'[p])
  BY DEF Commits, owners, intents, forks, Ordinary
<1>2. /\ \A q \in Op \ {p} : pc'[q] = pc[q]
      /\ \A t \in Task \ {p} : pc'[t] = pc[t]
      /\ pc'[Exit] = pc[Exit]
  BY <1>1, GotoFacts DEF IInv
<1>3. pc[p] \in Inside /\ pc[Exit] # "done"
  BY <1>1 DEF Inside, Started, IInv, ExitInv, Early
<1>4. /\ \A t \in Task \ {p} : pc[t] \notin Started
      /\ \A q \in Op \ {p} : pc[q] \notin Before \union Published \union
                               {"drain", "body", "resolved", "releasing"}
      /\ pc[Exit] \notin {"retireCurrent", "retireParked", "done"} \union Started
      /\ \A w \in Writer : writing[w] = None
      /\ cur # None => life[cur] = "held" /\ ret[cur] = "no" /\ cur \in Owner
  BY <1>3, InsideAlone
<1>5. /\ next[p] # None /\ p \in Carriers /\ p \notin Leavers
      /\ kind[p] \in Ordinary => old[p] = cur
      /\ kind[p] = "first" => cur = None
      /\ p \notin deferred \union handed
  BY <1>1 DEF IInv, LocalInv, Carriers, Leavers, ForkInv, Before
<1>6. /\ next[p] \in Owner /\ life[next[p]] = "held" /\ ret[next[p]] = "no"
      /\ next[p] # cur /\ next[p] \notin parked
  BY <1>5 DEF IInv, KeeperInv, Spare, TypeOK
<1>7. LineInv'
  BY <1>1, LineWalks DEF IInv, Started
<1>8. PathInv'
  BY <1>1, <1>2 DEF IInv, PathInv, Before, Late, Published, Ordinary
<1>9. CountInv'
  BY <1>1, CountFrame DEF IInv
<1>10. OwnerInv'
  BY <1>1, <1>6 DEF IInv, OwnerInv
<1>11. LocalInv'
  BY <1>1, <1>2, <1>4, <1>5 DEF IInv, LocalInv, Early, Before, Published, Ordinary
<1>12. /\ Carriers' = Carriers \ {p}
       /\ Leavers' = IF cur # None THEN Leavers \union {p} ELSE Leavers
  BY <1>1, <1>2, <1>5 DEF Carriers, Leavers, Early
<1>13. KeeperInv'
  BY <1>1, <1>4, <1>5, <1>6, <1>12 DEF IInv, KeeperInv, Spare
<1>14. RetireInv'
  BY <1>1, <1>2 DEF IInv, RetireInv, Retiring
<1>15. ForkInv'
  <2>1. deferred \union handed \union window \subseteq Op
    BY DEF IInv, TypeOK
  <2>2. \A q \in Op : kind[q] = "fork" => pc'[q] = pc[q]
    BY <1>1, <1>2
  <2> QED
    BY <1>1, <2>1, <2>2 DEF IInv, ForkInv, Retiring
<1>16. ExitInv'
  <2>1. PendingForks' = PendingForks
    BY <1>1, <1>2 DEF PendingForks
  <2> QED
    BY <1>1, <1>2, <1>4, <1>6, <2>1 DEF IInv, ExitInv
<1>17. NoAcquisition
  BY <1>1, <1>12 DEF NoAcquisition, Carriers
<1>18. CancelInv'
  <2>1. CASE Asked({})
    BY <1>1, <1>17, <2>1, CancelQuiet DEF IInv
  <2>2. CASE Asked({next[p]})
    <3>1. \A q \in Carriers' : next[q] # next[p]
      BY <1>5, <1>12 DEF IInv, KeeperInv
    <3> QED
      BY <1>1, <1>6, <1>17, <2>2, <3>1, CancelFrame DEF IInv
  <2> QED
    BY <2>1, <2>2 DEF Commits
<1>19. WriteInv'
  BY <1>1, <1>4 DEF WriteInv, WritesKeepTheirOwner
<1>20. SeenInv'
  BY <1>1, <1>17, SeenFrame DEF IInv
<1>21. ScopeInv' /\ PinInv'
  <2>1. pc'[p] \in Published
    BY <1>1 DEF Published
  <2> QED
    BY <1>1, <1>2, <1>4, <2>1, ScopeAlone
<1>22. EpochInv'
  <2>1. Watching' = Watching /\ ForksOut' = ForksOut
    BY <1>1, <1>2 DEF Watching, ForksOut
  <2>2. ~Navigating'
    BY <1>1, <1>2, <1>4 DEF Navigating, Before
  <2>3. ASSUME NEW q \in Watching, seen[q].epoch = epoch, seen[q].session = sess[next[p]]
        PROVE  FALSE
    <3>1. q \in Op /\ kind[q] = "fork"
      BY DEF Watching
    <3>2. cur # None /\ kind[p] \in Ordinary
      BY <1>1, <1>5, <3>1 DEF IInv, LocalInv
    <3>3. Navigating
      BY <1>1, <3>2 DEF Navigating, Before
    <3>4. seen[q].own = cur
      BY <2>3, <3>3 DEF IInv, EpochInv
    <3>5. seen[q].session = sess[cur]
      BY <3>1, <3>2, <3>4 DEF IInv, SeenInv, SessionOf
    <3> QED
      BY <1>4, <1>6, <2>3, <3>2, <3>5 DEF IInv, OwnerInv
  <2>4. SessionOf(cur)' = sess[next[p]]
    BY <1>1, <1>5 DEF SessionOf
  <2> QED
    BY <1>1, <2>1, <2>2, <2>3, <2>4 DEF IInv, EpochInv
<1>23. GateInv'
  <2>1. \A q \in Op : seen[q].own # cur'
    BY <1>1, <1>5 DEF IInv, SeenInv
  <2>2. ForksOut' = ForksOut
    BY <1>1, <1>2 DEF ForksOut
  <2>3. window \subseteq Op
    BY DEF IInv, TypeOK
  <2> QED
    BY <1>1, <2>1, <2>2, <2>3 DEF IInv, GateInv
<1> QED
  BY <1>7, <1>8, <1>9, <1>10, <1>11, <1>13, <1>14, <1>15, <1>16, <1>18, <1>19, <1>20,
     <1>21, <1>22, <1>23 DEF IInv

-----------------------------------------------------------------------------
(* A commit seam throws: the new owner is released.                        *)
Throws(p) ==
  /\ \/ pc[p] = "commit" /\ kind[p] \in Ordinary
     \/ pc[p] = "body" /\ kind[p] = "fork"
  /\ Goto(p, "releasing")
  /\ BeginRetirement({next[p]}, "idle")
  /\ Asked({next[p]})
  /\ UNCHANGED <<line, frozen, writing, cur, epoch, owners, exiting, intents, next,
                 old, forks>>

(* A commit that throws keeps the invariant.                               *)
LEMMA ThrowKeeps ==
  ASSUME IInv, TypeOK', NEW p \in Op, Throws(p)
  PROVE  IInv'
<1> USE OwnerFacts
<1>1. /\ UNCHANGED <<line, frozen, writing, cur, epoch, sessions, sess, life, parked,
                     exiting, kind, target, seen, next, old, pins, window,
                     deferred, handed>>
      /\ \/ pc[p] = "commit" /\ kind[p] \in Ordinary
         \/ pc[p] = "body" /\ kind[p] = "fork"
      /\ Goto(p, "releasing")
  BY DEF Throws, owners, intents, forks
<1>2. /\ pc'[p] = "releasing"
      /\ \A q \in Op \ {p} : pc'[q] = pc[q]
      /\ \A t \in Task \ {p} : pc'[t] = pc[t]
      /\ pc'[Exit] = pc[Exit]
  BY <1>1, GotoFacts DEF IInv
<1>3. pc[p] \in Inside /\ pc[Exit] # "done"
  BY <1>1 DEF Inside, Started, PendingForks, IInv, ExitInv, Early
<1>4. /\ \A t \in Task \ {p} : pc[t] \notin Started
      /\ \A q \in Op \ {p} : pc[q] \notin Before \union Published \union
                               {"drain", "body", "resolved", "releasing"}
      /\ pc[Exit] \notin {"retireCurrent", "retireParked", "done"} \union Started
      /\ \A w \in Writer : writing[w] = None
      /\ cur # None => life[cur] = "held" /\ ret[cur] = "no" /\ cur \in Owner
  BY <1>3, InsideAlone
<1>5. /\ next[p] # None /\ p \in Carriers /\ p \notin deferred \union handed
  BY <1>1 DEF IInv, LocalInv, Carriers, ForkInv, Early
<1>6. /\ next[p] \in Owner /\ life[next[p]] = "held" /\ ret[next[p]] = "no"
      /\ next[p] # cur /\ next[p] \notin parked
  BY <1>5 DEF IInv, KeeperInv, Spare, TypeOK
<1>7. ret'[next[p]] = "idle" /\ \A o \in Owner \ {next[p]} : ret'[o] = ret[o]
  BY <1>6 DEF Throws, BeginRetirement
<1>8. LineInv'
  BY <1>1, <1>3, LineWalks DEF IInv, Started, Inside
<1>9. PathInv'
  BY <1>1, <1>2 DEF IInv, PathInv, Before, Late, Early, Ordinary
<1>10. CountInv'
  BY <1>1, CountFrame DEF IInv
<1>11. OwnerInv'
  BY <1>1, <1>6, <1>7 DEF IInv, OwnerInv
<1>12. LocalInv'
  BY <1>1, <1>2, <1>5 DEF IInv, LocalInv, Early, Before, Published, Ordinary
<1>13. /\ Carriers' = Carriers \ {p} /\ Leavers' = Leavers
  BY <1>1, <1>2, <1>5 DEF Carriers, Leavers, Early
<1>14. KeeperInv'
  <2>1. \A q \in Carriers \ {p} : next[q] \in Owner \ {next[p]}
    BY <1>5 DEF IInv, KeeperInv, Carriers, TypeOK
  <2>2. \A q \in Leavers : old[q] \in Owner \ {next[p]}
    BY <1>5 DEF IInv, KeeperInv, Leavers, TypeOK
  <2>3. parked \subseteq Owner \ {next[p]}
    BY <1>6 DEF IInv, TypeOK
  <2>4. \A o \in Owner \ {next[p]} : Spare(o)' <=> Spare(o)
    BY <1>1, <1>7 DEF Spare
  <2>5. (\A o \in parked : Spare(o))'
    BY <1>1, <2>3, <2>4 DEF IInv, KeeperInv
  <2>6. (\A q \in Carriers : Spare(next[q]) /\ next[q] \notin parked)'
    BY <1>1, <1>13, <2>1, <2>4 DEF IInv, KeeperInv
  <2>7. (\A q \in Leavers : Spare(old[q]) /\ old[q] \notin parked)'
    BY <1>1, <1>13, <2>2, <2>4 DEF IInv, KeeperInv
  <2>8. (/\ \A q, r \in Carriers : next[q] = next[r] => q = r
         /\ \A q, r \in Leavers : old[q] = old[r] => q = r
         /\ \A q \in Carriers, r \in Leavers : next[q] # old[r])'
    BY <1>1, <1>13 DEF IInv, KeeperInv
  <2>9. ASSUME NEW o \in Owner, life'[o] = "held", ret'[o] = "no"
        PROVE  \/ o = cur \/ o \in parked
               \/ \E q \in Carriers' : next[q] = o
               \/ \E q \in Leavers' : old[q] = o
    <3>1. o # next[p] /\ life[o] = "held" /\ ret[o] = "no"
      BY <1>1, <1>7, <2>9
    <3> QED
      BY <1>13, <3>1 DEF IInv, KeeperInv
  <2> QED
    BY <1>1, <2>5, <2>6, <2>7, <2>8, <2>9 DEF KeeperInv
<1>15. RetireInv'
  BY <1>1, <1>2, <1>6, <1>7 DEF IInv, RetireInv, Retiring
<1>16. ForkInv'
  <2>1. deferred \union handed \union window \subseteq Op
    BY DEF IInv, TypeOK
  <2>2. \A q \in handed : old[q] \in Owner /\ old[q] # next[p]
    BY <1>6, <2>1 DEF IInv, ForkInv, Retiring, TypeOK
  <2> QED
    BY <1>1, <1>2, <1>5, <1>7, <2>1, <2>2, ForkFrame DEF IInv, Forking, ForkInv
<1>17. ExitInv'
  <2>1. PendingForks' = PendingForks
    BY <1>1, <1>2 DEF PendingForks
  <2> QED
    BY <1>1, <1>2, <1>4, <1>6, <1>7, <2>1 DEF IInv, ExitInv
<1>18. NoAcquisition
  BY <1>1, <1>13 DEF NoAcquisition, Carriers
<1>19. CancelInv'
  <2>1. \A q \in Carriers' : next[q] # next[p]
    BY <1>5, <1>13 DEF IInv, KeeperInv
  <2>2. Asked({next[p]})
    BY DEF Throws
  <2> QED
    BY <1>1, <1>6, <1>7, <1>18, <2>1, <2>2, CancelFrame DEF IInv
<1>20. WriteInv'
  BY <1>1, <1>4 DEF WriteInv, WritesKeepTheirOwner
<1>21. SeenInv'
  BY <1>1, <1>18, SeenFrame DEF IInv
<1>22. ScopeInv' /\ PinInv'
  BY <1>1, <1>2, <1>4, ScopeAlone
<1>23. Watching' \subseteq Watching /\ ForksOut' \subseteq ForksOut /\ ~Navigating'
  BY <1>1, <1>2, <1>4 DEF Watching, ForksOut, Forking, Navigating, Before
<1>24. EpochInv'
  BY <1>1, <1>23, EpochFrame DEF IInv, SessionOf, EpochIsFresh
<1>25. GateInv'
  BY <1>1, <1>23, GateFrame DEF IInv, SessionOf, EpochIsFresh
<1> QED
  BY <1>8, <1>9, <1>10, <1>11, <1>12, <1>14, <1>15, <1>16, <1>17, <1>19, <1>20, <1>21,
     <1>22, <1>24, <1>25 DEF IInv

-----------------------------------------------------------------------------
(* The retirement of the replaced owner begins.                            *)
RetiresOld(p) ==
  /\ pc[p] = "flushNew" /\ old[p] # None
  /\ Goto(p, "retireOld")
  /\ BeginRetirement({old[p]}, "idle")
  /\ Asked({old[p]})
  /\ UNCHANGED <<line, frozen, writing, identity, owners, exiting, intents, next, old,
                 forks>>

(* The start of the retirement of a replaced owner keeps the invariant.    *)
LEMMA RetireOldKeeps ==
  ASSUME IInv, TypeOK', NEW p \in Op, RetiresOld(p)
  PROVE  IInv'
<1> USE OwnerFacts
<1>1. /\ UNCHANGED <<line, frozen, writing, cur, gen, epoch, sessions, sess, life,
                     parked, exiting, kind, target, seen, next, old, pins, window,
                     deferred, handed>>
      /\ pc[p] = "flushNew" /\ old[p] # None
      /\ Goto(p, "retireOld")
  BY DEF RetiresOld, identity, owners, intents, forks
<1>2. /\ pc'[p] = "retireOld"
      /\ \A q \in Op \ {p} : pc'[q] = pc[q]
      /\ \A t \in Task \ {p} : pc'[t] = pc[t]
      /\ pc'[Exit] = pc[Exit]
  BY <1>1, GotoFacts DEF IInv
<1>3. pc[p] \in Inside /\ pc[Exit] # "done"
  BY <1>1 DEF Inside, Started, IInv, ExitInv, Early
<1>4. /\ \A t \in Task \ {p} : pc[t] \notin Started
      /\ \A q \in Op \ {p} : pc[q] \notin Before \union Published \union
                               {"drain", "body", "resolved", "releasing"}
      /\ pc[Exit] \notin {"retireCurrent", "retireParked", "done"} \union Started
      /\ \A w \in Writer : writing[w] = None
      /\ cur # None => life[cur] = "held" /\ ret[cur] = "no" /\ cur \in Owner
  BY <1>3, InsideAlone
<1>5. p \in Leavers /\ p \notin deferred \union handed /\ kind[p] # "fork"
  BY <1>1 DEF IInv, Leavers, ForkInv, PathInv, Early, Late, Published
<1>6. /\ old[p] \in Owner /\ life[old[p]] = "held" /\ ret[old[p]] = "no"
      /\ old[p] # cur /\ old[p] \notin parked
  BY <1>1, <1>5 DEF IInv, KeeperInv, Spare, TypeOK
<1>7. ret'[old[p]] = "idle" /\ \A o \in Owner \ {old[p]} : ret'[o] = ret[o]
  BY <1>6 DEF RetiresOld, BeginRetirement
<1>8. LineInv'
  BY <1>1, <1>3, LineWalks DEF IInv, Started, Inside
<1>9. PathInv'
  BY <1>1, <1>2 DEF IInv, PathInv, Before, Late, Early, Published
<1>10. CountInv'
  BY <1>1, CountFrame DEF IInv
<1>11. OwnerInv'
  BY <1>1, <1>6, <1>7 DEF IInv, OwnerInv
<1>12. LocalInv'
  BY <1>1, <1>2, <1>5 DEF IInv, LocalInv, Early, Before, Published, Ordinary
<1>13. /\ Carriers' = Carriers /\ Leavers' = Leavers \ {p}
  BY <1>1, <1>2, <1>5 DEF Carriers, Leavers, Early
<1>14. KeeperInv'
  <2>1. \A q \in Carriers : next[q] \in Owner \ {old[p]}
    BY <1>5 DEF IInv, KeeperInv, Carriers, TypeOK
  <2>2. \A q \in Leavers \ {p} : old[q] \in Owner \ {old[p]}
    BY <1>5 DEF IInv, KeeperInv, Leavers, TypeOK
  <2>3. parked \subseteq Owner \ {old[p]}
    BY <1>6 DEF IInv, TypeOK
  <2>4. \A o \in Owner \ {old[p]} : Spare(o)' <=> Spare(o)
    BY <1>1, <1>7 DEF Spare
  <2>5. (\A o \in parked : Spare(o))'
    BY <1>1, <2>3, <2>4 DEF IInv, KeeperInv
  <2>6. (\A q \in Carriers : Spare(next[q]) /\ next[q] \notin parked)'
    BY <1>1, <1>13, <2>1, <2>4 DEF IInv, KeeperInv
  <2>7. (\A q \in Leavers : Spare(old[q]) /\ old[q] \notin parked)'
    BY <1>1, <1>13, <2>2, <2>4 DEF IInv, KeeperInv
  <2>8. (/\ \A q, r \in Carriers : next[q] = next[r] => q = r
         /\ \A q, r \in Leavers : old[q] = old[r] => q = r
         /\ \A q \in Carriers, r \in Leavers : next[q] # old[r])'
    BY <1>1, <1>13 DEF IInv, KeeperInv
  <2>9. ASSUME NEW o \in Owner, life'[o] = "held", ret'[o] = "no"
        PROVE  \/ o = cur \/ o \in parked
               \/ \E q \in Carriers' : next[q] = o
               \/ \E q \in Leavers' : old[q] = o
    <3>1. o # old[p] /\ life[o] = "held" /\ ret[o] = "no"
      BY <1>1, <1>7, <2>9
    <3> QED
      BY <1>13, <3>1 DEF IInv, KeeperInv
  <2> QED
    BY <1>1, <2>5, <2>6, <2>7, <2>8, <2>9 DEF KeeperInv
<1>15. RetireInv'
  BY <1>1, <1>2, <1>6, <1>7 DEF IInv, RetireInv, Retiring
<1>16. ForkInv'
  <2>1. deferred \union handed \union window \subseteq Op
    BY DEF IInv, TypeOK
  <2>2. \A q \in handed : old[q] \in Owner /\ old[q] # old[p]
    BY <1>6, <2>1 DEF IInv, ForkInv, Retiring, TypeOK
  <2> QED
    BY <1>1, <1>2, <1>5, <1>7, <2>1, <2>2, ForkFrame DEF IInv, Forking, ForkInv
<1>17. ExitInv'
  <2>1. PendingForks' = PendingForks
    BY <1>1, <1>2 DEF PendingForks
  <2> QED
    BY <1>1, <1>2, <1>4, <1>6, <1>7, <2>1 DEF IInv, ExitInv
<1>18. NoAcquisition
  BY <1>1, <1>13 DEF NoAcquisition, Carriers
<1>19. CancelInv'
  <2>1. \A q \in Carriers' : next[q] # old[p]
    BY <1>5, <1>13 DEF IInv, KeeperInv
  <2>2. Asked({old[p]})
    BY DEF RetiresOld
  <2> QED
    BY <1>1, <1>6, <1>7, <1>18, <2>1, <2>2, CancelFrame DEF IInv
<1>20. WriteInv'
  BY <1>1, <1>4 DEF WriteInv, WritesKeepTheirOwner
<1>21. SeenInv'
  BY <1>1, <1>18, SeenFrame DEF IInv
<1>22. ScopeInv' /\ PinInv'
  <2>1. pc'[p] \in Published
    BY <1>2 DEF Published
  <2> QED
    BY <1>1, <1>2, <1>4, <2>1, ScopeAlone
<1>23. Watching' \subseteq Watching /\ ForksOut' \subseteq ForksOut /\ ~Navigating'
  BY <1>1, <1>2, <1>4 DEF Watching, ForksOut, Forking, Navigating, Before
<1>24. EpochInv'
  BY <1>1, <1>23, EpochFrame DEF IInv, SessionOf, EpochIsFresh
<1>25. GateInv'
  BY <1>1, <1>23, GateFrame DEF IInv, SessionOf, EpochIsFresh
<1> QED
  BY <1>8, <1>9, <1>10, <1>11, <1>12, <1>14, <1>15, <1>16, <1>17, <1>19, <1>20, <1>21,
     <1>22, <1>24, <1>25 DEF IInv

(* The gate adopts the child of a fork: the retirement of the source       *)
(* begins, or waits for the window of a command.                           *)
Adopts(p) ==
  /\ pc[p] = "body" /\ kind[p] = "fork" /\ ~exiting /\ IsNavigationCurrent(seen[p])
  /\ Goto(p, pc'[p])
  /\ cur' = next[p] /\ old' = [old EXCEPT ![p] = cur]
  /\ \/ /\ window = {} /\ BeginRetirement({cur}, "idle")
        /\ handed' = handed \union {p} /\ pc'[p] = "retireOld" /\ deferred' = deferred
     \/ /\ window # {} /\ ret' = ret
        /\ deferred' = deferred \union {p} /\ pc'[p] = "childIdle" /\ handed' = handed
  /\ Asked({})
  /\ UNCHANGED <<line, frozen, writing, epoch, owners, exiting, intents, next, pins, window>>

(* The adoption of a fork keeps the invariant.                             *)
LEMMA AdoptKeeps ==
  ASSUME IInv, TypeOK', NEW p \in Op, Adopts(p)
  PROVE  IInv'
<1> USE OwnerFacts
<1>1. /\ UNCHANGED <<line, frozen, writing, epoch, sessions, sess, life, parked,
                     exiting, kind, target, seen, next, pins, window>>
      /\ pc[p] = "body" /\ kind[p] = "fork" /\ ~exiting
      /\ seen[p].session = SessionOf(cur) /\ seen[p].epoch = epoch
      /\ cur' = next[p] /\ old' = [old EXCEPT ![p] = cur]
      /\ pc'[p] \in {"retireOld", "childIdle"}
      /\ Goto(p, pc'[p])
  BY DEF Adopts, owners, intents, IsNavigationCurrent
<1>2. /\ \A q \in Op \ {p} : pc'[q] = pc[q]
      /\ \A t \in Task \ {p} : pc'[t] = pc[t]
      /\ pc'[Exit] = pc[Exit]
      /\ old'[p] = cur
      /\ \A q \in Op \ {p} : old'[q] = old[q]
  BY <1>1, GotoFacts DEF IInv, TypeOK
<1>3. pc[p] \in Inside /\ pc[Exit] = "running"
  BY <1>1 DEF Inside, Started, IInv, ExitInv
<1>4. /\ \A t \in Task \ {p} : pc[t] \notin Started
      /\ \A q \in Op \ {p} : pc[q] \notin Before \union Published \union
                               {"drain", "body", "resolved", "releasing"}
      /\ \A w \in Writer : writing[w] = None
      /\ cur # None => life[cur] = "held" /\ ret[cur] = "no" /\ cur \in Owner
  BY <1>3, InsideAlone
<1>5. /\ next[p] # None /\ cur # None /\ p \in Carriers
      /\ p \notin deferred \union handed \union Leavers /\ p \in pins /\ p \in ForksOut
  BY <1>1 DEF IInv, LocalInv, Carriers, Leavers, ForkInv, Early, Forking, ForksOut
<1>6. /\ next[p] \in Owner /\ life[next[p]] = "held" /\ ret[next[p]] = "no"
      /\ next[p] # cur /\ next[p] \notin parked
  BY <1>5 DEF IInv, KeeperInv, Spare, TypeOK
<1>7. /\ \A o \in Owner \ {cur} : ret'[o] = ret[o]
      /\ ret'[cur] = IF window = {} THEN "idle" ELSE "no"
  BY <1>4, <1>5 DEF Adopts, BeginRetirement
<1>8. /\ window = {} => /\ pc'[p] = "retireOld" /\ deferred' = deferred
                        /\ handed' = handed \union {p}
      /\ window # {} => /\ pc'[p] = "childIdle" /\ handed' = handed
                        /\ deferred' = deferred \union {p}
  BY DEF Adopts
<1>9. LineInv'
  BY <1>1, <1>3, LineWalks DEF IInv, Started, Inside
<1>10. PathInv'
  BY <1>1, <1>2 DEF IInv, PathInv, Before, Late, Published
<1>11. CountInv'
  BY <1>1, CountFrame DEF IInv
<1>12. OwnerInv'
  BY <1>1, <1>4, <1>5, <1>6, <1>7 DEF IInv, OwnerInv
<1>13. LocalInv'
  BY <1>1, <1>2, <1>4, <1>5 DEF IInv, LocalInv, Early, Before, Published, Ordinary
<1>14. /\ Carriers' = Carriers \ {p}
       /\ Leavers' = IF window = {} THEN Leavers ELSE Leavers \union {p}
       /\ Leavers \subseteq Op \ {p}
  BY <1>1, <1>2, <1>5, <1>8 DEF Carriers, Leavers, Early
<1>15. KeeperInv'
  <2>1. \A q \in Carriers \ {p} : next[q] \in Owner \ {next[p], cur}
    BY <1>5 DEF IInv, KeeperInv, Carriers, TypeOK, Spare
  <2>2. \A q \in Leavers : old[q] \in Owner \ {next[p], cur} /\ old'[q] = old[q]
    BY <1>2, <1>5, <1>14 DEF IInv, KeeperInv, Leavers, TypeOK, Spare
  <2>3. parked \subseteq Owner \ {next[p], cur}
    BY <1>6 DEF IInv, TypeOK, KeeperInv, Spare
  <2>4. /\ \A o \in Owner \ {next[p], cur} : Spare(o)' <=> Spare(o)
        /\ window # {} => life'[cur] = "held" /\ ret'[cur] = "no" /\ cur # cur'
    BY <1>1, <1>4, <1>5, <1>6, <1>7 DEF Spare
  <2>5. (\A o \in parked : Spare(o))'
    BY <1>1, <2>3, <2>4 DEF IInv, KeeperInv
  <2>6. (\A q \in Carriers : Spare(next[q]) /\ next[q] \notin parked)'
    BY <1>1, <1>14, <2>1, <2>4 DEF IInv, KeeperInv
  <2>7. (\A q \in Leavers : Spare(old[q]) /\ old[q] \notin parked)'
    <3>1. ASSUME NEW q \in Leavers
          PROVE  (Spare(old[q]) /\ old[q] \notin parked)'
      BY <1>1, <2>2, <2>4 DEF IInv, KeeperInv
    <3>2. window # {} => (Spare(old[p]) /\ old[p] \notin parked)'
      BY <1>1, <1>2, <2>3, <2>4 DEF Spare
    <3> QED
      BY <1>14, <3>1, <3>2
  <2>8. (\A q, r \in Carriers : next[q] = next[r] => q = r)'
    BY <1>1, <1>14 DEF IInv, KeeperInv
  <2>9. (\A q, r \in Leavers : old[q] = old[r] => q = r)'
    BY <1>2, <1>14, <2>2 DEF IInv, KeeperInv
  <2>10. (\A q \in Carriers, r \in Leavers : next[q] # old[r])'
    BY <1>1, <1>2, <1>14, <2>1, <2>2 DEF IInv, KeeperInv
  <2>11. ASSUME NEW o \in Owner, life'[o] = "held", ret'[o] = "no"
         PROVE  \/ o = cur' \/ o \in parked'
                \/ \E q \in Carriers' : next'[q] = o
                \/ \E q \in Leavers' : old'[q] = o
    <3>1. CASE o = cur
      BY <1>2, <1>7, <1>14, <2>11, <3>1
    <3>2. CASE o # cur
      <4>1. life[o] = "held" /\ ret[o] = "no"
        BY <1>1, <1>7, <2>11, <3>2
      <4>2. \/ o \in parked
            \/ \E q \in Carriers : next[q] = o
            \/ \E q \in Leavers : old[q] = o
        BY <3>2, <4>1 DEF IInv, KeeperInv
      <4> QED
        BY <1>1, <1>14, <2>2, <4>2
    <3> QED
      BY <3>1, <3>2
  <2> QED
    BY <2>5, <2>6, <2>7, <2>8, <2>9, <2>10, <2>11 DEF KeeperInv
<1>16. RetireInv'
  <2>1. ASSUME NEW o \in Owner, o # cur, Retiring(o)
        PROVE  \/ \E q \in Op : pc'[q] = "retireOld" /\ old'[q] = o
               \/ \E q \in Op : pc'[q] = "releasing" /\ next'[q] = o
               \/ \E q \in handed' : old'[q] = o
               \/ pc'[Exit] \in {"retireCurrent", "retireParked"}
    <3>1. \A q \in Op : pc[q] \in {"retireOld", "releasing"} => pc'[q] = pc[q] /\ old'[q] = old[q]
      BY <1>1, <1>2
    <3>2. \A q \in handed : q \in handed' /\ old'[q] = old[q]
      <4>1. handed \subseteq Op \ {p}
        BY <1>5 DEF IInv, TypeOK
      <4> QED
        BY <1>2, <1>8, <4>1
    <3> QED
      BY <1>1, <1>2, <2>1, <3>1, <3>2 DEF IInv, RetireInv
  <2>2. window = {} => pc'[p] = "retireOld" /\ old'[p] = cur
    BY <1>2, <1>8
  <2>3. \A o \in Owner \ {cur} : Retiring(o)' <=> Retiring(o)
    BY <1>7 DEF Retiring
  <2>4. window # {} => ret'[cur] = "no"
    BY <1>7
  <2> QED
    BY <1>4, <1>5, <2>1, <2>2, <2>3, <2>4 DEF RetireInv, Retiring
<1>17. ForkInv'
  <2>1. deferred \union handed \union window \subseteq Op
    BY DEF IInv, TypeOK
  <2>2. \A q \in deferred \union handed : q # p /\ old'[q] = old[q] /\ pc'[q] = pc[q]
    BY <1>2, <1>5, <2>1
  <2>3. (/\ \A q \in pins : kind[q] = "fork"
         /\ \A q \in Op : kind[q] = "fork" /\ pc[q] \in Forking => q \in pins
         /\ \A q \in window : kind[q] \in {"switch", "new", "fork"}
         /\ \A q \in window : kind[q] = "fork" => pc[q] # "chosen"
         /\ \A q, r \in window : q = r
         /\ deferred # {} => window # {})'
    BY <1>1, <1>2, <1>8, <2>1 DEF IInv, ForkInv, Forking
  <2>4. (/\ kind[p] = "fork" /\ pc[p] \in {"retireOld", "childIdle", "init", "leave", "done"}
         /\ p \in pins /\ old[p] # None /\ seen[p].session = sess[old[p]])'
    BY <1>1, <1>2, <1>5 DEF SessionOf
  <2>5. (\A q \in deferred \union handed :
           /\ kind[q] = "fork" /\ pc[q] \in {"retireOld", "childIdle", "init", "leave", "done"}
           /\ q \in pins /\ old[q] # None /\ seen[q].session = sess[old[q]])'
    BY <1>1, <1>8, <2>2, <2>4 DEF IInv, ForkInv
  <2>6. \A q \in handed : old[q] \in Owner \ {cur}
    BY <1>4, <1>5, <2>1 DEF IInv, ForkInv, TypeOK, Retiring
  <2>7. (\A q \in handed : Retiring(old[q]) /\ q \notin deferred)'
    <3>1. \A q \in handed : ret'[old'[q]] \notin {"no", "done"} /\ q \notin deferred'
      BY <1>5, <1>7, <1>8, <2>2, <2>6 DEF IInv, ForkInv, Retiring
    <3>2. window = {} => ret'[old'[p]] \notin {"no", "done"} /\ p \notin deferred'
      BY <1>2, <1>5, <1>7, <1>8
    <3> QED
      BY <1>8, <3>1, <3>2 DEF Retiring
  <2> QED
    BY <2>3, <2>5, <2>7 DEF ForkInv
<1>18. ExitInv'
  BY <1>1, <1>2, <1>3, <1>6, <1>7 DEF IInv, ExitInv, Early
<1>19. NoAcquisition
  BY <1>1, <1>14 DEF NoAcquisition, Carriers
<1>20. CancelInv'
  <2>1. Asked({})
    BY DEF Adopts
  <2>2. \A o \in Owner : ret[o] # "no" => ret'[o] # "no"
    BY <1>4, <1>7
  <2> QED
    BY <1>1, <1>19, <2>1, <2>2, CancelQuiet DEF IInv
<1>21. WriteInv'
  BY <1>1, <1>4 DEF WriteInv, WritesKeepTheirOwner
<1>22. SeenInv'
  BY <1>1, <1>19, SeenFrame DEF IInv
<1>23. ScopeInv' /\ PinInv'
  <2>1. pc'[p] \in Published
    BY <1>1 DEF Published
  <2> QED
    BY <1>1, <1>2, <1>4, <2>1, ScopeAlone
<1>24. /\ Watching' \subseteq Watching /\ ForksOut' = ForksOut \ {p} /\ ~Navigating'
       /\ SessionOf(cur)' = sess[next[p]]
  BY <1>1, <1>2, <1>4, <1>5 DEF Watching, ForksOut, Forking, Navigating, Before, SessionOf
<1>25. /\ \A q \in Op : seen[q].own # next[p]
       /\ \A q \in Op : seen[q].session # sess[next[p]]
  BY <1>1, <1>5 DEF IInv, SeenInv
<1>26. EpochInv'
  BY <1>1, <1>24, <1>25 DEF IInv, EpochInv, Watching
<1>27. GateInv'
  <2>1. window \subseteq Op /\ \A r \in ForksOut' : seen[r].epoch # epoch
    BY <1>1, <1>5, <1>24 DEF IInv, EpochInv, TypeOK
  <2> QED
    BY <1>1, <1>25, <2>1 DEF GateInv
<1> QED
  BY <1>9, <1>10, <1>11, <1>12, <1>13, <1>15, <1>16, <1>17, <1>18, <1>20, <1>21, <1>22,
     <1>23, <1>26, <1>27 DEF IInv

(* The window of a command closes: the retirements that waited begin.      *)
Sources == {old[q] : q \in deferred}

Closes ==
  /\ window # {} /\ window' = {}
  /\ BeginRetirement(Sources, "idle")
  /\ Asked(Sources)
  /\ handed' = handed \union deferred /\ deferred' = {}
  /\ UNCHANGED <<admission, writing, identity, owners, exiting, pc, intents, next, old, pins>>

(* The end of the window of a command keeps the invariant.                 *)
LEMMA CloseKeeps ==
  ASSUME IInv, TypeOK', Closes
  PROVE  IInv'
<1> USE OwnerFacts
<1>1. /\ UNCHANGED <<line, frozen, writing, cur, gen, epoch, sessions, sess, life, parked,
                     exiting, pc, kind, target, seen, next, old, pins>>
      /\ window # {} /\ window' = {}
      /\ handed' = handed \union deferred /\ deferred' = {}
  BY DEF Closes, admission, identity, owners, intents
<1>2. deferred \subseteq Op /\ handed \subseteq Op /\ window \subseteq Op
  BY DEF IInv, TypeOK
<1>3. /\ deferred \subseteq Leavers
      /\ \A q \in deferred : pc[q] # "flushNew"
  BY <1>2 DEF IInv, ForkInv, Leavers
<1>4. /\ Sources \subseteq Owner
      /\ \A o \in Sources : life[o] = "held" /\ ret[o] = "no" /\ o # cur /\ o \notin parked
      /\ \A q \in Carriers : next[q] \notin Sources
  BY <1>2, <1>3 DEF Sources, IInv, KeeperInv, Spare, TypeOK, Leavers
<1>5. /\ \A o \in Sources : ret'[o] = "idle"
      /\ \A o \in Owner \ Sources : ret'[o] = ret[o]
  BY <1>4 DEF Closes, BeginRetirement
<1>6. LineInv' /\ PathInv' /\ CountInv' /\ LocalInv' /\ ScopeInv' /\ PinInv'
  <2>1. LineInv' /\ CountInv'
    BY <1>1, LineFrame, CountFrame DEF IInv
  <2>2. PathInv' /\ LocalInv'
    BY <1>1 DEF IInv, PathInv, LocalInv
  <2>3. ScopeInv' /\ PinInv'
    BY <1>1 DEF IInv, ScopeInv, PinInv, SessionOf, Pinned, IsScopeCurrent
  <2> QED
    BY <2>1, <2>2, <2>3
<1>7. OwnerInv'
  <2>1. \A o \in Owner : o \in Sources => life[o] # "gone"
    BY <1>4
  <2>2. (\A o \in Owner : /\ ret[o] # "twice"
                          /\ ret[o] = "done" <=> life[o] = "gone"
                          /\ life[o] = "unborn" => ret[o] = "no"
                          /\ life[o] # "unborn" => sess[o] \in 1..sessions)'
    BY <1>1, <1>4, <1>5 DEF IInv, OwnerInv
  <2> QED
    BY <1>1, <2>2 DEF IInv, OwnerInv
<1>8. Carriers' = Carriers /\ Leavers' = Leavers \ deferred
  BY <1>1, <1>3 DEF Carriers, Leavers
<1>9. KeeperInv'
  <2>1. \A q \in Carriers : next[q] \in Owner \ Sources
    BY <1>4 DEF IInv, KeeperInv, Carriers, TypeOK
  <2>2. \A q \in Leavers \ deferred : old[q] \in Owner \ Sources
    BY <1>3 DEF IInv, KeeperInv, Leavers, TypeOK, Sources
  <2>3. parked \subseteq Owner \ Sources
    BY <1>4 DEF IInv, TypeOK
  <2>4. \A o \in Owner \ Sources : Spare(o)' <=> Spare(o)
    BY <1>1, <1>5 DEF Spare
  <2>5. (\A o \in parked : Spare(o))'
    BY <1>1, <2>3, <2>4 DEF IInv, KeeperInv
  <2>6. (\A q \in Carriers : Spare(next[q]) /\ next[q] \notin parked)'
    BY <1>1, <1>8, <2>1, <2>4 DEF IInv, KeeperInv
  <2>7. (\A q \in Leavers : Spare(old[q]) /\ old[q] \notin parked)'
    BY <1>1, <1>8, <2>2, <2>4 DEF IInv, KeeperInv
  <2>8. (/\ \A q, r \in Carriers : next[q] = next[r] => q = r
         /\ \A q, r \in Leavers : old[q] = old[r] => q = r
         /\ \A q \in Carriers, r \in Leavers : next[q] # old[r])'
    BY <1>1, <1>8 DEF IInv, KeeperInv
  <2>9. ASSUME NEW o \in Owner, life'[o] = "held", ret'[o] = "no"
        PROVE  \/ o = cur \/ o \in parked
               \/ \E q \in Carriers' : next[q] = o
               \/ \E q \in Leavers' : old[q] = o
    <3>1. o \notin Sources /\ life[o] = "held" /\ ret[o] = "no"
      BY <1>1, <1>5, <2>9
    <3>2. \A q \in Leavers : old[q] = o => q \notin deferred
      BY <3>1 DEF Sources
    <3> QED
      BY <1>8, <3>1, <3>2 DEF IInv, KeeperInv
  <2> QED
    BY <1>1, <2>5, <2>6, <2>7, <2>8, <2>9 DEF KeeperInv
<1>10. RetireInv'
  <2>1. ASSUME NEW o \in Sources
        PROVE  \E q \in handed' : old[q] = o
    BY <1>1 DEF Sources
  <2>2. ASSUME NEW o \in Owner \ Sources, Retiring(o)'
        PROVE  \/ \E q \in Op : pc[q] = "retireOld" /\ old[q] = o
               \/ \E q \in Op : pc[q] = "releasing" /\ next[q] = o
               \/ \E q \in handed' : old[q] = o
               \/ pc[Exit] \in {"retireCurrent", "retireParked"}
    BY <1>1, <1>5, <2>2 DEF IInv, RetireInv, Retiring
  <2> QED
    BY <1>1, <2>1, <2>2 DEF RetireInv
<1>11. ForkInv'
  <2>1. \A q \in deferred : old[q] \in Sources
    BY DEF Sources
  <2>2. \A q \in handed : old[q] \in Owner \ Sources
    BY <1>2, <1>4 DEF IInv, ForkInv, TypeOK, Retiring
  <2>3. (\A q \in handed : Retiring(old[q]) /\ q \notin deferred)'
    BY <1>1, <1>5, <2>1, <2>2 DEF IInv, ForkInv, Retiring
  <2> QED
    BY <1>1, <2>3 DEF IInv, ForkInv
<1>12. ExitInv'
  BY <1>1, <1>4, <1>5 DEF IInv, ExitInv, PendingForks, TypeOK
<1>13. CancelInv'
  <2>1. NoAcquisition
    BY <1>1, <1>8 DEF NoAcquisition
  <2>2. \A o \in Owner : ret[o] # "no" => ret'[o] # "no"
    BY <1>4, <1>5
  <2>3. Sources \in SUBSET Owner /\ Asked(Sources)
    BY <1>4 DEF Closes
  <2> QED
    BY <1>1, <1>4, <1>8, <2>1, <2>2, <2>3, CancelFrame DEF IInv
<1>14. WriteInv'
  <2>1. \A w \in Writer : writing[w] # None => writing[w] \in Owner \ Sources
    BY <1>4 DEF IInv, WriteInv, WritesKeepTheirOwner, TypeOK
  <2> QED
    BY <1>1, <1>5, <2>1 DEF IInv, WriteInv, WritesKeepTheirOwner
<1>15. SeenInv'
  BY <1>1, <1>8 DEF IInv, SeenInv, SessionOf
<1>16. EpochInv'
  BY <1>1, EpochFrame DEF IInv, SessionOf, EpochIsFresh, Watching, ForksOut, Navigating
<1>17. GateInv'
  BY <1>1 DEF IInv, GateInv, SessionOf
<1> QED
  BY <1>6, <1>7, <1>9, <1>10, <1>11, <1>12, <1>13, <1>14, <1>15, <1>16, <1>17 DEF IInv

-----------------------------------------------------------------------------
\* The exit and the retirements.

(* What depends on the intents alone, and on the owners of their sessions, *)
(* is left alone by the steps of the exit.                                 *)
Apart == /\ UNCHANGED <<cur, gen, epoch, sessions, sess, life, kind, target, seen,
                        next, old, window, deferred>>
         /\ \A q \in Op : pc'[q] = pc[q]
         /\ pins' \subseteq pins /\ parked' \subseteq parked
         /\ exiting => exiting'

(* The parts about intents and sessions survive a step of the exit.        *)
LEMMA ApartFrame ==
  ASSUME IInv, Apart
  PROVE  /\ CountInv' /\ LocalInv' /\ SeenInv' /\ ScopeInv' /\ EpochInv' /\ PinInv'
         /\ Carriers' = Carriers /\ Leavers' = Leavers /\ NoAcquisition
         /\ ForksOut' = ForksOut /\ PendingForks' = PendingForks
<1> USE DEF Apart
<1>1. Carriers' = Carriers /\ Leavers' = Leavers
  BY DEF Carriers, Leavers
<1>2. NoAcquisition
  BY <1>1 DEF NoAcquisition
<1>3. /\ ForksOut' = ForksOut /\ PendingForks' = PendingForks /\ Watching' = Watching
      /\ Navigating' = Navigating
  BY DEF ForksOut, PendingForks, Watching, Navigating
<1>4. CountInv'
  BY CountFrame DEF IInv
<1>5. LocalInv'
  BY DEF IInv, LocalInv
<1>6. SeenInv'
  BY <1>1 DEF IInv, SeenInv, SessionOf
<1>7. ScopeInv'
  BY DEF IInv, ScopeInv, IsScopeCurrent, SessionOf
<1>8. EpochInv'
  BY <1>3, EpochFrame DEF IInv, SessionOf, EpochIsFresh
<1>9. PinInv'
  BY DEF IInv, PinInv, Pinned
<1> QED
  BY <1>1, <1>2, <1>3, <1>4, <1>5, <1>6, <1>7, <1>8, <1>9

(* The rest, when no owner changes hands either.                           *)
LEMMA StillFrame ==
  ASSUME IInv, Apart, UNCHANGED <<ret, parked, pins, handed>>
  PROVE  OwnerInv' /\ KeeperInv' /\ ForkInv'
<1>1. OwnerInv' /\ KeeperInv'
  BY ApartFrame, OwnerFrame, KeeperFrame DEF IInv, Apart
<1>2. deferred \union handed \union window \subseteq Op
  BY DEF IInv, TypeOK
<1>3. ForkInv'
  BY <1>2 DEF IInv, ForkInv, Apart, Retiring
<1> QED
  BY <1>1, <1>3

(* Before the shutdown reaches it nobody else answers for the owner on the *)
(* surface.                                                                *)
LEMMA CurrentIsApart ==
  ASSUME IInv, cur # None, pc[Exit] \notin {"retireCurrent", "retireParked", "done"}
  PROVE  /\ cur \in Owner /\ life[cur] = "held" /\ ret[cur] = "no" /\ cur \notin parked
         /\ \A q \in Carriers : next[q] # cur
         /\ \A q \in Leavers : old[q] # cur
<1>1. cur \in Owner /\ life[cur] \in {"unborn", "held", "gone"}
  BY DEF IInv, TypeOK
<1>2. ret[cur] = "no"
  BY DEF IInv, ExitInv
<1>3. life[cur] = "held"
  BY <1>1, <1>2 DEF IInv, OwnerInv
<1> QED
  BY <1>1, <1>2, <1>3 DEF IInv, KeeperInv, Spare

-----------------------------------------------------------------------------
(* The exit moves on and asks at most the owner on the surface.            *)
ExitWalks ==
  /\ Goto(Exit, pc'[Exit])
  /\ \/ pc[Exit] = "cleanup" /\ pc'[Exit] = "prepared" /\ frozen' = frozen
     \/ pc[Exit] = "prepared" /\ pc'[Exit] = "forks" /\ frozen' = frozen
     \/ pc[Exit] = "forks" /\ pc'[Exit] = "settlements" /\ frozen' = frozen /\ PendingForks = {}
     \/ pc[Exit] = "settlements" /\ pc'[Exit] = "sources" /\ frozen' = frozen /\ window = {}
     \/ IsHead(Exit) /\ pc'[Exit] = "drain" /\ frozen' = TRUE
     \/ /\ pc[Exit] = "drain" /\ pc'[Exit] = "body" /\ frozen' = frozen
        /\ \A w \in Writer : writing[w] = None
     \/ pc[Exit] = "body" /\ pc'[Exit] = "retireParked" /\ frozen' = frozen /\ cur = None
     \/ /\ pc[Exit] = "retireCurrent" /\ pc'[Exit] = "retireParked" /\ frozen' = frozen
        /\ ret[cur] = "done"
  /\ Asked({}) \/ (pc[Exit] \in {"cleanup", "prepared"} /\ cur # None /\ Asked({cur}))
  /\ UNCHANGED <<line, writing, identity, owners, ret, exiting, intents, next, old, forks>>

(* A move of the exit keeps the invariant.                                 *)
LEMMA ExitWalkKeeps ==
  ASSUME IInv, TypeOK', ExitWalks
  PROVE  IInv'
<1> USE OwnerFacts
<1>1. /\ UNCHANGED <<line, writing, cur, gen, epoch, sessions, sess, life, parked, ret,
                     exiting, kind, target, seen, next, old, pins, window, deferred, handed>>
      /\ Goto(Exit, pc'[Exit])
  BY DEF ExitWalks, identity, owners, intents, forks
<1>2. \A t \in Task \ {Exit} : pc'[t] = pc[t]
  BY <1>1, GotoFacts DEF IInv
<1>3. /\ pc[Exit] \in {"cleanup", "prepared", "forks", "settlements", "queued", "drain",
                       "body", "retireCurrent"}
      /\ pc'[Exit] \in {"prepared", "forks", "settlements", "sources", "drain", "body",
                        "retireParked"}
  BY DEF ExitWalks, IsHead, At
<1>4. Apart
  BY <1>1, <1>2 DEF Apart
<1>5. LineInv'
  <2>1. CASE IsHead(Exit) /\ pc'[Exit] = "drain" /\ frozen' = TRUE
    BY <1>1, <2>1, LineStarts DEF IInv
  <2>2. CASE pc[Exit] \in {"drain", "body", "retireCurrent"} /\ frozen' = frozen
             /\ pc'[Exit] \in {"body", "retireParked"}
    BY <1>1, <2>2, LineWalks DEF IInv, Started
  <2>3. CASE /\ pc[Exit] \in {"cleanup", "prepared", "forks", "settlements"} /\ frozen' = frozen
             /\ pc'[Exit] \in {"prepared", "forks", "settlements", "sources"}
    BY <1>1, <2>3, LineRoams DEF IInv, InGate, Started
  <2> QED
    BY <2>1, <2>2, <2>3 DEF ExitWalks
<1>6. PathInv'
  BY <1>1, <1>2, <1>3 DEF IInv, PathInv, Early
<1>7. RetireInv'
  <2>1. pc[Exit] \in {"retireCurrent", "retireParked"}
          => pc'[Exit] \in {"retireCurrent", "retireParked"}
    BY <1>3 DEF ExitWalks, IsHead, At
  <2> QED
    BY <1>1, <1>2, <2>1 DEF IInv, RetireInv, Retiring
<1>8. ExitInv'
  <2>1. PendingForks' = PendingForks
    BY <1>4, ApartFrame
  <2>2. (exiting <=> pc[Exit] # "running")'
    BY <1>1, <1>3 DEF IInv, ExitInv
  <2>3. (pc[Exit] \in {"settlements", "sources", "retireCurrent", "retireParked", "done"}
           \union Early => PendingForks = {})'
    BY <2>1 DEF IInv, ExitInv, ExitWalks, IsHead, At, Early
  <2>4. (pc[Exit] \in {"sources", "retireCurrent", "retireParked", "done"} \union Early
           => window = {})'
    BY <1>1 DEF IInv, ExitInv, ExitWalks, IsHead, At, Early
  <2>5. (cur # None /\ ret[cur] # "no" => pc[Exit] \in {"retireCurrent", "retireParked", "done"})'
    BY <1>1, <1>3 DEF IInv, ExitInv, ExitWalks, IsHead, At
  <2>6. (cur # None /\ pc[Exit] = "retireParked" => ret[cur] = "done")'
    BY <1>1 DEF IInv, ExitInv, ExitWalks
  <2> QED
    BY <1>3, <2>2, <2>3, <2>4, <2>5, <2>6 DEF ExitInv
<1>9. CancelInv'
  <2>1. CASE Asked({})
    BY <1>1, <1>4, <2>1, ApartFrame, CancelQuiet DEF IInv
  <2>2. CASE pc[Exit] \in {"cleanup", "prepared"} /\ cur # None /\ Asked({cur})
    <3>1. /\ cur \in Owner /\ life[cur] = "held" /\ ret[cur] = "no" /\ cur \notin parked
          /\ \A q \in Carriers : next[q] # cur
      BY <2>2, CurrentIsApart
    <3> QED
      BY <1>1, <1>4, <2>2, <3>1, ApartFrame, CancelFrame DEF IInv
  <2> QED
    BY <2>1, <2>2 DEF ExitWalks
<1>10. WriteInv'
  <2>1. pc'[Exit] \in Inside => \A w \in Writer : writing[w] = None
    BY <1>3 DEF ExitWalks, Inside, Started, IInv, WriteInv, IsHead, At
  <2> QED
    BY <1>1, <1>2, <2>1 DEF IInv, WriteInv, WritesKeepTheirOwner
<1>11. GateInv'
  BY <1>1, <1>4, ApartFrame, GateFrame DEF IInv, SessionOf, EpochIsFresh
<1> QED
  BY <1>1, <1>4, <1>5, <1>6, <1>7, <1>8, <1>9, <1>10, <1>11, ApartFrame, StillFrame DEF IInv

-----------------------------------------------------------------------------
(* The owners a transition awaits under the abort listener are the owner   *)
(* on the surface.                                                         *)
LEMMA AwaitedIsCurrent ==
  ASSUME IInv
  PROVE  \A o \in Awaited : o = cur /\ cur # None
<1>1. ASSUME NEW p \in Op, pc[p] = "quiesce"
      PROVE  old[p] = cur /\ cur # None
  <2>1. kind[p] \in Ordinary
    BY <1>1 DEF IInv, PathInv, TypeOK, AllKinds, Ordinary, Early, Late, Published
  <2> QED
    BY <1>1, <2>1 DEF IInv, LocalInv, Before
<1>2. ASSUME NEW p \in Op, pc[p] = "childIdle"
      PROVE  next[p] = cur /\ cur # None
  BY <1>2 DEF IInv, LocalInv, Published
<1> QED
  BY <1>1, <1>2 DEF Awaited, At

(* The start of the exit keeps the invariant.                              *)
LEMMA ExitBeginKeeps ==
  ASSUME IInv, TypeOK', ExitBegins
  PROVE  IInv'
<1> USE OwnerFacts
<1>1. /\ UNCHANGED <<line, frozen, writing, cur, gen, epoch, sessions, sess, life, parked,
                     ret, kind, target, seen, next, old, pins, window, deferred, handed>>
      /\ pc[Exit] = "running" /\ Goto(Exit, "cleanup") /\ exiting' = TRUE
      /\ cancelled' = cancelled \union (Awaited \ cancelled)
      /\ late' = [o \in Owner |-> IF o \in Awaited \ cancelled THEN late[o] + 1 ELSE late[o]]
  BY DEF ExitBegins, admission, identity, owners, intents, forks, At
<1>2. /\ pc'[Exit] = "cleanup"
      /\ \A t \in Task \ {Exit} : pc'[t] = pc[t]
  BY <1>1, GotoFacts DEF IInv
<1>3. Apart
  BY <1>1, <1>2 DEF Apart
<1>4. LineInv'
  BY <1>1, LineRoams DEF IInv, InGate, Started
<1>5. PathInv'
  BY <1>1, <1>2 DEF IInv, PathInv
<1>6. RetireInv'
  BY <1>1, <1>2 DEF IInv, RetireInv, Retiring
<1>7. ExitInv'
  BY <1>1, <1>2 DEF IInv, ExitInv, Early
<1>8. CancelInv'
  <2>1. cancelled = {} /\ \A o \in Owner : late[o] = 0
    BY <1>1 DEF IInv, CancelInv, ExitInv
  <2>2. cancelled' = Awaited
    BY <1>1, <2>1
  <2>3. \A o \in Awaited : /\ o \in Owner /\ life[o] # "unborn" /\ o \notin parked
                           /\ \A q \in Carriers : next[q] # o
    BY <1>1, AwaitedIsCurrent, CurrentIsApart
  <2>4. \A o \in Owner : late'[o] = IF o \in Awaited THEN 1 ELSE 0
    BY <1>1, <2>1
  <2> QED
    BY <1>1, <1>3, <2>2, <2>3, <2>4, ApartFrame DEF CancelInv
<1>9. WriteInv'
  BY <1>1, <1>2 DEF IInv, WriteInv, WritesKeepTheirOwner, Inside, Started
<1>10. GateInv'
  BY <1>1, <1>3, ApartFrame, GateFrame DEF IInv, SessionOf, EpochIsFresh
<1> QED
  BY <1>1, <1>3, <1>4, <1>5, <1>6, <1>7, <1>8, <1>9, <1>10, ApartFrame, StillFrame DEF IInv

-----------------------------------------------------------------------------
(* The exit in the line keeps the invariant.                               *)
LEMMA ExitQueueKeeps ==
  ASSUME IInv, TypeOK', ExitQueues
  PROVE  IInv'
<1> USE OwnerFacts
<1>1. /\ UNCHANGED <<frozen, writing, cur, gen, epoch, sessions, sess, life, parked,
                     ret, exiting, kind, target, seen, next, old, pins, window, deferred,
                     handed, cancelled, late>>
      /\ pc[Exit] = "sources" /\ Enqueue(Exit)
  BY DEF ExitQueues, identity, agents, owners, intents, forks, At
<1>2. /\ pc'[Exit] = "queued"
      /\ \A t \in Task \ {Exit} : pc'[t] = pc[t]
      /\ line' = Append(line, Exit)
  BY <1>1, GotoFacts DEF IInv, Enqueue
<1>3. Apart
  BY <1>1, <1>2 DEF Apart
<1>4. LineInv'
  BY <1>1, LineEnters DEF IInv, InGate, Started
<1>5. PathInv'
  BY <1>1, <1>2 DEF IInv, PathInv, Early
<1>6. RetireInv'
  BY <1>1, <1>2 DEF IInv, RetireInv, Retiring
<1>7. ExitInv'
  <2>1. PendingForks' = PendingForks
    BY <1>3, ApartFrame
  <2> QED
    BY <1>1, <1>2, <2>1 DEF IInv, ExitInv, Early
<1>8. CancelInv'
  BY <1>1, <1>3, ApartFrame DEF IInv, CancelInv
<1>9. WriteInv'
  BY <1>1, <1>2 DEF IInv, WriteInv, WritesKeepTheirOwner, Inside, Started
<1>10. GateInv'
  <2>1. /\ Len(line) \in Nat /\ Len(line') = Len(line) + 1 /\ line'[Len(line')] = Exit
        /\ \A i \in 1..Len(line) : line'[i] = line[i]
    BY <1>2 DEF IInv, TypeOK
  <2>2. \A i \in 1..Len(line') : line'[i] \in Op => i \in 1..Len(line)
    BY <2>1, ExitAssumption
  <2>3. ForksOut' = ForksOut /\ window \subseteq Op
    BY <1>3, ApartFrame DEF IInv, TypeOK
  <2> QED
    BY <1>1, <2>1, <2>2, <2>3 DEF IInv, GateInv, SessionOf
<1> QED
  BY <1>1, <1>3, <1>4, <1>5, <1>6, <1>7, <1>8, <1>9, <1>10, ApartFrame, StillFrame DEF IInv

(* An owner that somebody answers for begins to be retired by the exit.    *)
ExitTakes(o) ==
  /\ ret[o] = "no" /\ life[o] = "held"
  /\ pc[Exit] \in {"body", "retireParked"} /\ pc'[Exit] \in {"retireCurrent", "retireParked"}
  /\ Goto(Exit, pc'[Exit])
  /\ BeginRetirement({o}, "idleShutdown")
  /\ parked' = parked \ {o}
  /\ \/ pc'[Exit] = "retireCurrent" /\ o = cur /\ Asked({o})
     \/ /\ pc[Exit] = "retireParked" /\ pc'[Exit] = "retireParked" /\ o \in parked
        /\ Cancel(o)
  /\ UNCHANGED <<line, frozen, writing, identity, sessions, sess, life, exiting, intents,
                 next, old, forks>>

(* A retirement begun by the exit keeps the invariant.                     *)
LEMMA ExitRetireKeeps ==
  ASSUME IInv, TypeOK', NEW o \in Owner, ExitTakes(o)
  PROVE  IInv'
<1> USE OwnerFacts DEF ExitTakes
<1>1. /\ UNCHANGED <<cur, gen, epoch, kind, target, seen, pins, window, deferred, handed>>
      /\ exiting
  BY DEF identity, intents, forks, IInv, ExitInv
<1>2. \A t \in Task \ {Exit} : pc'[t] = pc[t]
  BY GotoFacts DEF IInv
<1>3. Apart
  BY <1>1, <1>2 DEF Apart
<1>4. ret'[o] = "idleShutdown" /\ \A x \in Owner \ {o} : ret'[x] = ret[x]
  BY DEF BeginRetirement
<1>5. /\ \A q \in Carriers : next[q] # o
      /\ \A q \in Leavers : old[q] # o
      /\ o = cur \/ o \in parked
      /\ parked \subseteq Owner
  BY DEF IInv, KeeperInv, Spare, TypeOK
<1>6. LineInv'
  BY <1>1, LineWalks DEF IInv, Started
<1>7. PathInv'
  BY <1>1, <1>2 DEF IInv, PathInv
<1>8. OwnerInv'
  <2>1. (\A x \in Owner : /\ ret[x] # "twice"
                          /\ ret[x] = "done" <=> life[x] = "gone"
                          /\ life[x] = "unborn" => ret[x] = "no"
                          /\ life[x] # "unborn" => sess[x] \in 1..sessions)'
    BY <1>4 DEF IInv, OwnerInv
  <2> QED
    BY <1>1, <2>1 DEF IInv, OwnerInv
<1>9. KeeperInv'
  <2>1. Carriers' = Carriers /\ Leavers' = Leavers
    BY <1>3, ApartFrame
  <2>2. \A q \in Carriers : next[q] \in Owner \ {o}
    BY <1>5 DEF IInv, TypeOK, Carriers
  <2>3. \A q \in Leavers : old[q] \in Owner \ {o}
    BY <1>5 DEF IInv, TypeOK, Leavers
  <2>4. \A x \in Owner \ {o} : Spare(x)' <=> Spare(x)
    BY <1>1, <1>4 DEF Spare
  <2>5. (\A x \in parked : Spare(x))'
    BY <1>5, <2>4 DEF IInv, KeeperInv
  <2>6. (\A q \in Carriers : Spare(next[q]) /\ next[q] \notin parked)'
    BY <2>1, <2>2, <2>4 DEF IInv, KeeperInv
  <2>7. (\A q \in Leavers : Spare(old[q]) /\ old[q] \notin parked)'
    BY <2>1, <2>3, <2>4 DEF IInv, KeeperInv
  <2>8. (/\ \A q, r \in Carriers : next[q] = next[r] => q = r
         /\ \A q, r \in Leavers : old[q] = old[r] => q = r
         /\ \A q \in Carriers, r \in Leavers : next[q] # old[r])'
    BY <2>1 DEF IInv, KeeperInv
  <2>9. ASSUME NEW x \in Owner, life'[x] = "held", ret'[x] = "no"
        PROVE  \/ x = cur' \/ x \in parked'
               \/ \E q \in Carriers' : next'[q] = x
               \/ \E q \in Leavers' : old'[q] = x
    <3>1. x # o /\ life[x] = "held" /\ ret[x] = "no"
      BY <1>4, <2>9
    <3> QED
      BY <1>1, <2>1, <3>1 DEF IInv, KeeperInv
  <2> QED
    BY <2>5, <2>6, <2>7, <2>8, <2>9 DEF KeeperInv
<1>10. RetireInv'
  BY DEF RetireInv
<1>11. ForkInv'
  <2>1. deferred \union handed \union window \subseteq Op
    BY DEF IInv, TypeOK
  <2>2. \A q \in handed : old[q] \in Owner \ {o}
    BY <2>1 DEF IInv, ForkInv, Retiring, TypeOK
  <2> QED
    BY <1>1, <1>2, <1>4, <2>1, <2>2 DEF IInv, ForkInv, Retiring
<1>12. ExitInv'
  <2>1. PendingForks' = PendingForks
    BY <1>3, ApartFrame
  <2>2. (cur # None /\ pc[Exit] = "retireParked" => ret[cur] = "done")'
    BY <1>1, <1>4 DEF IInv, ExitInv, KeeperInv, Spare, TypeOK
  <2>3. (pc[Exit] = "retireCurrent" => cur # None)'
    BY <1>1
  <2> QED
    BY <1>1, <2>1, <2>2, <2>3 DEF IInv, ExitInv, Early
<1>13. CancelInv'
  <2>1. CASE Asked({o}) /\ o = cur
    <3>1. \A x \in Owner : ret[x] # "no" => ret'[x] # "no"
      BY <1>4
    <3>2. o \notin parked
      BY <2>1 DEF IInv, KeeperInv, Spare
    <3> QED
      BY <1>1, <1>3, <1>5, <2>1, <3>1, <3>2, ApartFrame, CancelFrame DEF IInv
  <2>2. CASE Cancel(o) /\ o \in parked
    <3>1. o \notin cancelled /\ late[o] = 0
      BY <2>2 DEF IInv, CancelInv, TypeOK
    <3>2. /\ cancelled' = cancelled /\ late'[o] = 1
          /\ \A x \in Owner \ {o} : late'[x] = late[x]
      BY <1>1, <2>2, <3>1 DEF Cancel, IInv, TypeOK
    <3>3. (\A x \in Owner : late[x] <= 1 /\ (late[x] = 1 => x \in cancelled \/ ret[x] # "no"))'
      BY <1>4, <3>2 DEF IInv, CancelInv
    <3> QED
      BY <1>1, <1>3, <3>2, <3>3, ApartFrame DEF IInv, CancelInv
  <2> QED
    BY <2>1, <2>2
<1>14. WriteInv'
  <2>1. pc[Exit] \in Inside
    BY DEF Inside, Started
  <2> QED
    BY <2>1 DEF IInv, WriteInv, WritesKeepTheirOwner
<1>15. GateInv'
  BY <1>1, <1>3, ApartFrame, GateFrame DEF IInv, SessionOf, EpochIsFresh
<1> QED
  BY <1>3, <1>6, <1>7, <1>8, <1>9, <1>10, <1>11, <1>12, <1>13, <1>14, <1>15, ApartFrame DEF IInv

-----------------------------------------------------------------------------
(* The end of the exit keeps the invariant.                                *)
LEMMA ExitEndKeeps ==
  ASSUME IInv, TypeOK', ExitEnds
  PROVE  IInv'
<1> USE OwnerFacts
<1>1. /\ UNCHANGED <<writing, cur, gen, epoch, sessions, sess, life, parked,
                     ret, exiting, kind, target, seen, next, old, window, deferred,
                     handed, cancelled, late>>
      /\ pc[Exit] = "retireParked" /\ Goto(Exit, "done")
      /\ line' = Tail(line) /\ frozen' = FALSE
      /\ parked = {} /\ \A o \in Owner : ret[o] \in {"no", "done"}
      /\ pins' \in {pins, pins \ {Exit}}
  BY DEF ExitEnds, Finish, EndTask, identity, agents, owners, intents, At, NothingRetiring
<1>2. /\ pc'[Exit] = "done"
      /\ \A t \in Task \ {Exit} : pc'[t] = pc[t]
      /\ pins' = pins
  <2>1. pc'[Exit] = "done" /\ \A t \in Task \ {Exit} : pc'[t] = pc[t]
    BY <1>1, GotoFacts DEF IInv
  <2>2. pins \in SUBSET Op
    BY DEF IInv, TypeOK
  <2>3. Exit \notin pins
    BY <2>2
  <2> QED
    BY <1>1, <2>1, <2>3
<1>3. Apart
  BY <1>1, <1>2 DEF Apart
<1>4. pc[Exit] \in Started /\ \A q \in Op : pc[q] \notin Started
  BY <1>1, StartedIsHead DEF IInv, Started
<1>5. LineInv'
  BY <1>1, <1>4, LineEnds DEF IInv
<1>6. PathInv'
  BY <1>1, <1>2 DEF IInv, PathInv
<1>7. RetireInv'
  BY <1>1 DEF RetireInv, Retiring
<1>8. PendingForks = {} /\ window = {} /\ deferred = {}
  BY <1>1 DEF IInv, ExitInv, ForkInv
<1>9. \A p \in Op : pc[p] \in {"idle", "chosen", "leave", "done", "queued"}
  <2>1. \A p \in Op : kind[p] = "fork" => pc[p] \in {"idle", "chosen", "done"}
    BY <1>8 DEF PendingForks
  <2>2. \A p \in Op : kind[p] \in {"switch", "pick", "new", "first", "fork", "plain", "none"}
    BY DEF IInv, TypeOK, AllKinds
  <2> QED
    BY <1>4, <2>1, <2>2 DEF IInv, PathInv, Started, Early, Before, Late, Published
<1>10. Carriers = {}
  <2>1. \A p \in Op : pc[p] \notin {"attaching", "commit"}
    BY <1>9
  <2>2. \A p \in Op : pc[p] \in Early => next[p] = None
    BY <1>8, <1>9 DEF IInv, LocalInv, PendingForks, Early
  <2> QED
    BY <2>1, <2>2 DEF Carriers
<1>11. Leavers = {}
  BY <1>8, <1>9 DEF Leavers
<1>12. \A o \in Owner : life[o] # "held"
  <2>1. ASSUME NEW o \in Owner, life[o] = "held"
        PROVE  FALSE
    <3>1. ret[o] = "no"
      BY <1>1, <2>1 DEF IInv, OwnerInv
    <3>2. o = cur
      BY <1>1, <1>10, <1>11, <2>1, <3>1 DEF IInv, KeeperInv
    <3> QED
      BY <1>1, <3>1, <3>2 DEF IInv, ExitInv, Owner, None
  <2> QED
    BY <2>1
<1>13. ExitInv'
  BY <1>1, <1>2, <1>3, <1>8, <1>9, <1>12, ApartFrame DEF IInv, ExitInv, Early
<1>14. CancelInv'
  BY <1>1, <1>3, ApartFrame DEF IInv, CancelInv
<1>15. WriteInv'
  BY <1>1, <1>2 DEF IInv, WriteInv, WritesKeepTheirOwner, Inside, Started
<1>16. GateInv'
  BY <1>1, <1>3, StartedIsHead, <1>4, ApartFrame, GateFrameTail
  DEF IInv, SessionOf, EpochIsFresh
<1> QED
  BY <1>1, <1>2, <1>3, <1>5, <1>6, <1>7, <1>13, <1>14, <1>15, <1>16,
     ApartFrame, StillFrame DEF IInv

-----------------------------------------------------------------------------
(* A turn starts, ends or is asked to stop; a write is admitted or leaves. *)
Stirs == /\ \A w \in Writer : writing'[w] \in {writing[w], None, cur}
         /\ writing' # writing => /\ ~frozen /\ pc[Exit] # "done" /\ cur # None
                                  \/ \A w \in Writer : writing'[w] \in {writing[w], None}
         /\ Asked({})
         /\ UNCHANGED <<admission, identity, owners, ret, exiting, pc, intents, next, old, forks>>

(* A turn or a write keeps the invariant.                                  *)
LEMMA StirKeeps ==
  ASSUME IInv, TypeOK', Stirs
  PROVE  IInv'
<1> USE OwnerFacts
<1>1. UNCHANGED <<line, frozen, cur, gen, epoch, sessions, sess, life, parked,
                  ret, exiting, pc, kind, target, seen, next, old, pins, window, deferred,
                  handed>>
  BY DEF Stirs, admission, identity, owners, intents, forks
<1>2. Apart
  BY <1>1 DEF Apart
<1>3. LineInv'
  BY <1>1, LineFrame DEF IInv
<1>4. PathInv' /\ RetireInv'
  BY <1>1 DEF IInv, PathInv, RetireInv, Retiring
<1>5. ExitInv'
  BY <1>1, <1>2, ApartFrame DEF IInv, ExitInv
<1>6. CancelInv'
  BY <1>1, <1>2, ApartFrame, CancelQuiet DEF IInv, Stirs
<1>7. WriteInv'
  <2>1. CASE \A w \in Writer : writing'[w] \in {writing[w], None}
    BY <1>1, <2>1 DEF IInv, WriteInv, WritesKeepTheirOwner
  <2>2. CASE ~frozen /\ pc[Exit] # "done" /\ cur # None
    <3>1. \A t \in Task : pc[t] \notin Started
      BY <2>2 DEF IInv, LineInv
    <3>2. pc[Exit] \notin {"retireCurrent", "retireParked", "done"}
      BY <2>2, <3>1 DEF Started
    <3>3. ret[cur] = "no"
      BY <2>2, <3>2, CurrentIsApart
    <3> QED
      BY <1>1, <3>1, <3>3 DEF Stirs, IInv, WriteInv, WritesKeepTheirOwner, Inside
  <2> QED
    BY <2>1, <2>2 DEF Stirs
<1>8. GateInv'
  BY <1>1, <1>2, ApartFrame, GateFrame DEF IInv, SessionOf, EpochIsFresh
<1> QED
  BY <1>1, <1>2, <1>3, <1>4, <1>5, <1>6, <1>7, <1>8, ApartFrame, StillFrame DEF IInv

-----------------------------------------------------------------------------
(* A retirement goes on: it stays one, and its fork stays the owner of it. *)
RetirementGoesOn(o) ==
  /\ ret[o] \in {"idle", "idleShutdown", "flush"}
  /\ \E phase \in {"flush", "dispose"} : ret' = [ret EXCEPT ![o] = phase]
  /\ UNCHANGED <<admission, writing, identity, agents, owners, exiting, pc, intents, next,
                 old, forks>>

(* A step of a retirement keeps the invariant.                             *)
LEMMA GoOnKeeps ==
  ASSUME IInv, TypeOK', NEW o \in Owner, RetirementGoesOn(o)
  PROVE  IInv'
<1> USE OwnerFacts
<1>1. /\ UNCHANGED <<line, frozen, writing, cur, gen, epoch, sessions, sess, life, parked,
                     exiting, pc, kind, target, seen, next, old, pins, window, deferred,
                     handed, cancelled, late>>
  BY DEF RetirementGoesOn, admission, identity, agents, owners, intents, forks
<1>2. Apart
  BY <1>1 DEF Apart
<1>3. \A x \in Owner : /\ ret'[x] = "no" <=> ret[x] = "no"
                       /\ ret'[x] = "done" <=> ret[x] = "done"
                       /\ ret'[x] = "twice" <=> ret[x] = "twice"
  BY DEF RetirementGoesOn, IInv, TypeOK
<1>4. LineInv' /\ PathInv'
  BY <1>1, LineFrame DEF IInv, PathInv
<1>5. OwnerInv'
  BY <1>1, <1>3 DEF IInv, OwnerInv
<1>6. KeeperInv'
  <2>1. parked \subseteq Owner /\ \A q \in Carriers : next[q] \in Owner
    BY DEF IInv, TypeOK, Carriers
  <2>2. \A q \in Leavers : old[q] \in Owner
    BY DEF IInv, TypeOK, Leavers
  <2>3. \A x \in Owner : Spare(x)' <=> Spare(x)
    BY <1>1, <1>3 DEF Spare
  <2>4. Carriers' = Carriers /\ Leavers' = Leavers
    BY <1>2, ApartFrame
  <2> QED
    BY <1>1, <1>3, <2>1, <2>2, <2>3, <2>4 DEF IInv, KeeperInv
<1>7. RetireInv'
  BY <1>1, <1>3 DEF IInv, RetireInv, Retiring
<1>8. ForkInv'
  <2>1. \A q \in handed : old[q] \in Owner
    BY DEF IInv, ForkInv, TypeOK
  <2> QED
    BY <1>1, <1>3, <2>1 DEF IInv, ForkInv, Retiring
<1>9. ExitInv'
  <2>1. cur # None => cur \in Owner
    BY DEF IInv, TypeOK
  <2> QED
    BY <1>1, <1>2, <1>3, <2>1, ApartFrame DEF IInv, ExitInv
<1>10. CancelInv'
  BY <1>1, <1>2, <1>3, ApartFrame DEF IInv, CancelInv
<1>11. WriteInv'
  <2>1. \A w \in Writer : writing[w] # None => writing[w] \in Owner
    BY DEF IInv, TypeOK
  <2> QED
    BY <1>1, <1>3, <2>1 DEF IInv, WriteInv, WritesKeepTheirOwner
<1>12. GateInv'
  BY <1>1, <1>2, ApartFrame, GateFrame DEF IInv, SessionOf, EpochIsFresh
<1> QED
  BY <1>2, <1>4, <1>5, <1>6, <1>7, <1>8, <1>9, <1>10, <1>11, <1>12, ApartFrame DEF IInv

-----------------------------------------------------------------------------
(* The end of a retirement keeps the invariant.                            *)
LEMMA DisposeKeeps ==
  ASSUME IInv, TypeOK', NEW o \in Owner, RetireDispose(o)
  PROVE  IInv'
<1> USE OwnerFacts
<1> DEFINE finished == {q \in handed : old[q] = o}
<1>1. /\ UNCHANGED <<line, frozen, writing, cur, gen, epoch, sessions, sess, parked,
                     exiting, pc, kind, target, seen, next, old, window, deferred,
                     cancelled, late>>
      /\ ret[o] = "dispose"
      /\ handed' = handed \ finished /\ pins' = pins \ finished
  BY DEF RetireDispose, admission, identity, agents, intents
<1>2. /\ ret'[o] = "done" /\ life'[o] = "gone"
      /\ \A x \in Owner \ {o} : ret'[x] = ret[x] /\ life'[x] = life[x]
  BY DEF RetireDispose, IInv, TypeOK
<1>3. life[o] = "held"
  BY <1>1 DEF IInv, OwnerInv, TypeOK
<1>4. deferred \union handed \union window \subseteq Op
  BY DEF IInv, TypeOK
<1>5. finished \intersect deferred = {} /\ finished \subseteq handed
  BY DEF IInv, ForkInv
<1>6. /\ Carriers' = Carriers /\ Leavers' = Leavers
      /\ ForksOut' = ForksOut /\ PendingForks' = PendingForks
  BY <1>1 DEF Carriers, Leavers, ForksOut, PendingForks
<1>7. LineInv' /\ PathInv' /\ LocalInv' /\ ScopeInv'
  BY <1>1, LineFrame DEF IInv, PathInv, LocalInv, ScopeInv, IsScopeCurrent, SessionOf
<1>8. CountInv'
  <2>1. Born' = Born /\ Users' = Users
    BY <1>1, <1>2, <1>3 DEF Born, Users
  <2> QED
    BY <1>1, <2>1 DEF IInv, CountInv
<1>9. OwnerInv'
  <2>1. (\A x \in Owner : /\ ret[x] # "twice"
                          /\ ret[x] = "done" <=> life[x] = "gone"
                          /\ life[x] = "unborn" => ret[x] = "no"
                          /\ life[x] # "unborn" => sess[x] \in 1..sessions)'
    BY <1>1, <1>2, <1>3 DEF IInv, OwnerInv
  <2>2. \A x \in Owner : life'[x] = "held" => life[x] = "held"
    BY <1>2
  <2>3. cur # None => life'[cur] # "unborn"
    BY <1>2 DEF IInv, OwnerInv, TypeOK
  <2> QED
    BY <1>1, <2>1, <2>2, <2>3 DEF IInv, OwnerInv
<1>10. KeeperInv'
  <2>1. /\ parked \subseteq Owner \ {o}
        /\ \A q \in Carriers : next[q] \in Owner \ {o}
    BY <1>1 DEF IInv, TypeOK, Carriers, KeeperInv, Spare
  <2>2. \A q \in Leavers : old[q] \in Owner \ {o}
    BY <1>1 DEF IInv, TypeOK, Leavers, KeeperInv, Spare
  <2>3. \A x \in Owner \ {o} : Spare(x)' <=> Spare(x)
    BY <1>1, <1>2 DEF Spare
  <2> QED
    BY <1>1, <1>2, <1>6, <2>1, <2>2, <2>3 DEF IInv, KeeperInv
<1>11. RetireInv'
  BY <1>1, <1>2 DEF IInv, RetireInv, Retiring
<1>12. ForkInv'
  <2>1. \A q \in handed' : old[q] \in Owner \ {o} /\ q \in handed
    BY <1>1, <1>4 DEF IInv, ForkInv, TypeOK
  <2>2. \A q \in Op : kind[q] = "fork" /\ pc[q] \in Forking => q \notin finished
    BY DEF IInv, ForkInv, Forking
  <2>3. (\A q \in handed : Retiring(old[q]) /\ q \notin deferred)'
    BY <1>1, <1>2, <2>1 DEF IInv, ForkInv, Retiring
  <2>4. \A q \in deferred' \union handed' : q \in deferred \union handed /\ q \notin finished
    BY <1>1, <1>5
  <2> QED
    BY <1>1, <2>2, <2>3, <2>4 DEF IInv, ForkInv
<1>13. ExitInv'
  <2>1. cur # None => cur \in Owner
    BY DEF IInv, TypeOK
  <2>2. \A x \in Owner : life'[x] = "held" => life[x] = "held"
    BY <1>2
  <2> QED
    BY <1>1, <1>2, <1>6, <2>1, <2>2 DEF IInv, ExitInv
<1>14. NoAcquisition
  BY <1>1, <1>2, <1>3, <1>6 DEF NoAcquisition
<1>15. CancelInv'
  <2>1. Asked({}) /\ \A x \in Owner : ret[x] # "no" => ret'[x] # "no"
    BY <1>1, <1>2 DEF Asked
  <2> QED
    BY <1>1, <1>14, <2>1, CancelQuiet DEF IInv
<1>16. WriteInv'
  <2>1. \A w \in Writer : writing[w] # None => writing[w] \in Owner \ {o}
    BY <1>1 DEF IInv, WriteInv, WritesKeepTheirOwner, TypeOK
  <2> QED
    BY <1>1, <1>2, <2>1 DEF IInv, WriteInv, WritesKeepTheirOwner
<1>17. SeenInv'
  BY <1>1, <1>14, SeenFrame DEF IInv
<1>18. PinInv'
  BY <1>1 DEF IInv, PinInv, Pinned
<1>19. EpochInv'
  BY <1>1, EpochFrame DEF IInv, SessionOf, EpochIsFresh, Watching, ForksOut, Navigating
<1>20. GateInv'
  BY <1>1, <1>6, GateFrame DEF IInv, SessionOf, EpochIsFresh
<1> QED
  BY <1>7, <1>8, <1>9, <1>10, <1>11, <1>12, <1>13, <1>15, <1>16, <1>17, <1>18, <1>19,
     <1>20 DEF IInv
=============================================================================
