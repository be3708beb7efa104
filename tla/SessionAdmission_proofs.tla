----------------------- MODULE SessionAdmission_proofs -----------------------
(***************************************************************************)
(* The safety of SessionAdmission for every finite set of transition and  *)
(* writer callers: an inductive invariant, and from it each invariant that *)
(* TLC checks on small sets and the refinement of ExclusiveTransition.     *)
(***************************************************************************)
EXTENDS SessionAdmission, FiniteSetTheorems, TLAPS

(* The callers in the line are exactly those that asked and did not settle, *)
(* once each, and only the oldest can have started.                         *)
LineInv == /\ \A i, j \in 1..Len(line) : line[i] = line[j] => i = j
           /\ \A t \in Task : pc[t] # "out" <=> \E i \in 1..Len(line) : line[i] = t
           /\ \A i \in 2..Len(line) : pc[line[i]] = "queued"

(* The flags and the counter of the gate and the freeze follow the callers. *)
FlagInv == /\ queued = Len(line)
           /\ active <=> \E t \in Task : pc[t] \in Started
           /\ frozen <=> \E t \in Task : pc[t] \in InSection
           /\ \A t \in Task : pc[t] # "bug"

InProgress == {w \in Writer : wpc[w] = "in"}

(* The counter counts the admitted writers; only a transition that is still *)
(* draining coexists with one.                                              *)
DrainInv == /\ writers = Cardinality(InProgress)
            /\ wait = {t \in Task : pc[t] = "parked"}
            /\ \A t \in Task : pc[t] = "parked" => writers > 0
            /\ \A t \in Task : pc[t] \in {"woken", "body"} => writers = 0

IInv == TypeOK /\ LineInv /\ FlagInv /\ DrainInv

-----------------------------------------------------------------------------
(* A started transition is the head of the line, hence there is at most one. *)
LEMMA StartedIsHead ==
  ASSUME IInv, NEW t \in Task, pc[t] \in Started
  PROVE  /\ Len(line) >= 1
         /\ t = line[1]
         /\ t = Head(line)
<1>1. PICK i \in 1..Len(line) : line[i] = t
  BY DEF IInv, LineInv, Started, InSection
<1>2. i = 1
  BY <1>1 DEF IInv, TypeOK, LineInv, Started, InSection
<1> QED
  BY <1>1, <1>2 DEF IInv, TypeOK

LEMMA OneStarted ==
  ASSUME IInv, NEW t \in Task, NEW u \in Task,
         pc[t] \in Started, pc[u] \in Started
  PROVE  t = u
BY StartedIsHead

(* A transition is called only when no other one is started, so it never    *)
(* meets a frozen barrier or a parked transition.                           *)
LEMMA CalledAlone ==
  ASSUME IInv, NEW t \in Task, Called(t)
  PROVE  /\ \A u \in Task : pc[u] \notin Started
         /\ ~frozen
         /\ wait = {}
<1>1. ASSUME NEW u \in Task, pc[u] \in Started PROVE FALSE
  <2>1. u = Head(line)
    BY <1>1, StartedIsHead
  <2> QED
    BY <1>1, <2>1 DEF Called, Started, InSection
<1>2. ~frozen
  BY <1>1 DEF IInv, FlagInv, Started
<1>3. wait = {}
  BY <1>1 DEF IInv, DrainInv, Started, InSection
<1> QED
  BY <1>1, <1>2, <1>3

(* The drain holds up exactly while a writer is in progress.                *)
LEMMA WritersCounted ==
  ASSUME IInv
  PROVE  /\ IsFiniteSet(InProgress)
         /\ writers = 0 <=> InProgress = {}
<1>1. IsFiniteSet(InProgress)
  BY WriterAssumption, FS_Subset DEF InProgress
<1> QED
  BY <1>1, FS_EmptySet DEF IInv, DrainInv

LEMMA InitIInv == Init => IInv
<1> SUFFICES ASSUME Init PROVE IInv
  OBVIOUS
<1>1. TypeOK
  <2>1. line \in Seq(Task)
    BY DEF Init
  <2>2. pc \in [Task -> TaskState] /\ wpc \in [Writer -> WriterState]
    BY DEF Init, TaskState, WriterState
  <2> QED
    BY <2>1, <2>2 DEF Init, TypeOK
<1>2. LineInv
  BY DEF Init, LineInv
<1>3. FlagInv
  BY DEF Init, FlagInv, Started, InSection
<1>4. InProgress = {}
  BY DEF Init, InProgress
<1>5. DrainInv
  BY <1>4, FS_EmptySet DEF Init, DrainInv
<1> QED
  BY <1>1, <1>2, <1>3, <1>5 DEF IInv

LEMMA QueueKeeps ==
  ASSUME IInv, NEW t \in Task, Queue(t)
  PROVE  IInv'
<1> USE DEF Queue, barrierVars
<1>1. TypeOK'
  BY DEF IInv, TypeOK, TaskState, WriterState
<1>2. /\ Len(line') = Len(line) + 1
      /\ \A i \in 1..Len(line) : line'[i] = line[i]
      /\ line'[Len(line')] = t
  BY DEF IInv, TypeOK
<1>3. \A i \in 1..Len(line) : line[i] # t
  BY DEF IInv, LineInv, TypeOK
<1>4. LineInv'
  <2>1. (\A i, j \in 1..Len(line) : line[i] = line[j] => i = j)'
    BY <1>2, <1>3 DEF IInv, LineInv, TypeOK
  <2>2. (\A u \in Task : pc[u] # "out" <=> \E i \in 1..Len(line) : line[i] = u)'
    <3> SUFFICES ASSUME NEW u \in Task
                 PROVE  pc'[u] # "out" <=> \E i \in 1..Len(line') : line'[i] = u
      OBVIOUS
    <3>1. CASE u = t
      BY <1>2, <3>1 DEF IInv, TypeOK
    <3>2. CASE u # t
      <4>1. pc'[u] = pc[u]
        BY <3>2 DEF IInv, TypeOK
      <4>2. (\E i \in 1..Len(line') : line'[i] = u)
              <=> \E i \in 1..Len(line) : line[i] = u
        BY <1>2, <3>2 DEF IInv, TypeOK
      <4> QED
        BY <4>1, <4>2 DEF IInv, LineInv
    <3> QED
      BY <3>1, <3>2
  <2>3. (\A i \in 2..Len(line) : pc[line[i]] = "queued")'
    <3> SUFFICES ASSUME NEW i \in 2..Len(line')
                 PROVE  pc'[line'[i]] = "queued"
      OBVIOUS
    <3>1. CASE i = Len(line')
      BY <1>2, <3>1 DEF IInv, TypeOK
    <3>2. CASE i # Len(line')
      BY <1>2, <1>3, <3>2 DEF IInv, TypeOK, LineInv
    <3> QED
      BY <3>1, <3>2
  <2> QED
    BY <2>1, <2>2, <2>3 DEF LineInv
<1>5. \A u \in Task : /\ pc'[u] \in Started <=> pc[u] \in Started
                      /\ pc'[u] \in InSection <=> pc[u] \in InSection
                      /\ pc'[u] = "bug" <=> pc[u] = "bug"
                      /\ pc'[u] = "parked" <=> pc[u] = "parked"
                      /\ pc'[u] \in {"woken", "body"} <=> pc[u] \in {"woken", "body"}
  BY DEF IInv, TypeOK, Started, InSection
<1>6. FlagInv'
  BY <1>2, <1>5 DEF IInv, FlagInv, TypeOK
<1>7. InProgress' = InProgress
  BY DEF InProgress
<1>8. DrainInv'
  BY <1>5, <1>7 DEF IInv, DrainInv
<1> QED
  BY <1>1, <1>4, <1>6, <1>8 DEF IInv

(* A step of a started transition, or of one being called, that leaves the  *)
(* line alone and keeps every other caller where it is keeps the line.      *)
LEMMA LineKept ==
  ASSUME IInv, NEW t \in Task, NEW s \in TaskState \ {"out"},
         Len(line) >= 1, t = line[1],
         line' = line, pc' = [pc EXCEPT ![t] = s]
  PROVE  LineInv'
<1>1. \A u \in Task : pc'[u] # "out" <=> pc[u] # "out"
  <2>1. pc[t] # "out"
    BY DEF IInv, LineInv, TypeOK
  <2> QED
    BY <2>1 DEF IInv, TypeOK, TaskState
<1>2. \A i \in 2..Len(line) : line[i] # t
  BY DEF IInv, LineInv, TypeOK
<1> QED
  BY <1>1, <1>2 DEF IInv, LineInv, TypeOK

(* Calling the head of the line: at most the barrier is frozen with it.     *)
LEMMA StartKeeps ==
  ASSUME IInv, NEW t \in Task, Start(t)
  PROVE  IInv'
<1>1. Called(t) /\ Len(line) >= 1 /\ t = line[1]
  BY DEF Start, StartNoOp, StartPlain, StartNavigation, Called, IInv, TypeOK
<1>2. /\ \A u \in Task : pc[u] \notin Started
      /\ ~frozen
      /\ wait = {}
  BY <1>1, CalledAlone
<1>3. PICK s \in {"leaving", "stopping", "parked", "body"} :
        /\ pc' = [pc EXCEPT ![t] = s]
        /\ frozen' = (s # "leaving")
        /\ wait' = IF s = "parked" THEN {t} ELSE {}
        /\ s = "parked" => writers > 0
        /\ s = "body" => ~(writers > 0)
  <2>1. CASE StartNoOp(t)
    BY <1>2, <2>1 DEF StartNoOp, IInv, TypeOK
  <2>2. CASE StartPlain(t)
    BY <1>2, <2>2 DEF StartPlain, DrainOrRun
  <2>3. CASE StartNavigation(t)
    BY <1>2, <2>3 DEF StartNavigation
  <2> QED
    BY <2>1, <2>2, <2>3 DEF Start
<1>4. UNCHANGED <<line, queued, writers, wpc>> /\ active' = TRUE
  BY <1>1 DEF Called
<1>5. TypeOK'
  BY <1>3, <1>4 DEF IInv, TypeOK, TaskState
<1>6. LineInv'
  BY <1>1, <1>3, <1>4, LineKept DEF TaskState
<1>7. \A u \in Task : pc'[u] = IF u = t THEN s ELSE pc[u]
  BY <1>3 DEF IInv, TypeOK
<1>8. FlagInv'
  BY <1>2, <1>3, <1>4, <1>7 DEF IInv, FlagInv, Started, InSection
<1>9. DrainInv'
  <2>1. InProgress' = InProgress
    BY <1>4 DEF InProgress
  <2>2. wait' = {u \in Task : pc'[u] = "parked"}
    BY <1>2, <1>3, <1>7 DEF Started, InSection
  <2>3. \A u \in Task : pc'[u] = "parked" => writers' > 0
    BY <1>2, <1>3, <1>4, <1>7 DEF Started, InSection
  <2>4. \A u \in Task : pc'[u] \in {"woken", "body"} => writers' = 0
    BY <1>2, <1>3, <1>4, <1>7 DEF Started, InSection, IInv, TypeOK
  <2> QED
    BY <1>4, <2>1, <2>2, <2>3, <2>4 DEF IInv, DrainInv
<1> QED
  BY <1>5, <1>6, <1>8, <1>9 DEF IInv

(* The accepted stop and the woken drain re-evaluate the writers.           *)
LEMMA DrainKeeps ==
  ASSUME IInv, NEW t \in Task, StopAccepted(t) \/ Resume(t)
  PROVE  IInv'
<1>1. pc[t] \in {"stopping", "woken"}
  BY DEF StopAccepted, Resume
<1>2. /\ Len(line) >= 1
      /\ t = line[1]
      /\ \A u \in Task \ {t} : pc[u] \notin Started
      /\ wait = {}
  <2>1. pc[t] \in Started
    BY <1>1 DEF Started, InSection
  <2>2. \A u \in Task \ {t} : pc[u] \notin Started
    BY <2>1, OneStarted
  <2>3. wait = {}
    BY <1>1, <2>2 DEF IInv, DrainInv, Started, InSection
  <2> QED
    BY <2>1, <2>2, <2>3, StartedIsHead
<1>3. PICK s \in {"parked", "body"} :
        /\ pc' = [pc EXCEPT ![t] = s]
        /\ wait' = IF s = "parked" THEN {t} ELSE {}
        /\ s = "parked" => writers > 0
        /\ s = "body" => ~(writers > 0)
  BY <1>2 DEF StopAccepted, Resume, DrainOrRun
<1>4. UNCHANGED <<line, active, queued, frozen, writers, wpc>>
  BY DEF StopAccepted, Resume, gateVars
<1>5. TypeOK'
  BY <1>3, <1>4 DEF IInv, TypeOK, TaskState
<1>6. LineInv'
  BY <1>2, <1>3, <1>4, LineKept DEF TaskState
<1>7. \A u \in Task : pc'[u] = IF u = t THEN s ELSE pc[u]
  BY <1>3 DEF IInv, TypeOK
<1>8. FlagInv'
  BY <1>1, <1>3, <1>4, <1>7 DEF IInv, FlagInv, Started, InSection
<1>9. DrainInv'
  <2>1. InProgress' = InProgress
    BY <1>4 DEF InProgress
  <2>2. wait' = {u \in Task : pc'[u] = "parked"}
    BY <1>2, <1>3, <1>7 DEF Started, InSection
  <2>3. \A u \in Task : pc'[u] = "parked" => writers' > 0
    BY <1>2, <1>3, <1>4, <1>7 DEF Started, InSection
  <2>4. \A u \in Task : pc'[u] \in {"woken", "body"} => writers' = 0
    BY <1>2, <1>3, <1>4, <1>7 DEF Started, InSection, IInv, TypeOK
  <2> QED
    BY <1>4, <2>1, <2>2, <2>3, <2>4 DEF IInv, DrainInv
<1> QED
  BY <1>5, <1>6, <1>8, <1>9 DEF IInv

(* `finally` of runTransition: nobody else is in the section to be woken.   *)
LEMMA UnfreezeKeeps ==
  ASSUME IInv, NEW t \in Task, StopThrows(t) \/ BodyEnds(t)
  PROVE  IInv'
<1>1. pc[t] \in {"stopping", "body"} /\ Unfreeze(t)
  BY DEF StopThrows, BodyEnds
<1>2. /\ Len(line) >= 1
      /\ t = line[1]
      /\ \A u \in Task \ {t} : pc[u] \notin Started
      /\ wait = {}
  <2>1. pc[t] \in Started
    BY <1>1 DEF Started, InSection
  <2>2. \A u \in Task \ {t} : pc[u] \notin Started
    BY <2>1, OneStarted
  <2>3. wait = {}
    BY <1>1, <2>2 DEF IInv, DrainInv, Started, InSection
  <2> QED
    BY <2>1, <2>2, <2>3, StartedIsHead
<1>3. /\ pc' = [pc EXCEPT ![t] = "leaving"]
      /\ frozen' = FALSE
      /\ wait' = {}
      /\ UNCHANGED <<line, active, queued, writers, wpc>>
  BY <1>1, <1>2 DEF Unfreeze, WakeAll, gateVars, IInv, TypeOK
<1>4. TypeOK'
  BY <1>3 DEF IInv, TypeOK, TaskState
<1>5. LineInv'
  BY <1>2, <1>3, LineKept DEF TaskState
<1>6. \A u \in Task : pc'[u] = IF u = t THEN "leaving" ELSE pc[u]
  BY <1>3 DEF IInv, TypeOK
<1>7. FlagInv'
  BY <1>1, <1>2, <1>3, <1>6 DEF IInv, FlagInv, Started, InSection
<1>8. DrainInv'
  <2>1. InProgress' = InProgress
    BY <1>3 DEF InProgress
  <2>2. \A u \in Task : pc'[u] \notin {"parked", "woken", "body"}
    BY <1>2, <1>6 DEF Started, InSection
  <2> QED
    BY <1>3, <2>1, <2>2 DEF IInv, DrainInv
<1> QED
  BY <1>4, <1>5, <1>7, <1>8 DEF IInv

(* The gate's reaction removes the settled head.                            *)
LEMMA SettleKeeps ==
  ASSUME IInv, NEW t \in Task, Settle(t)
  PROVE  IInv'
<1> USE DEF Settle, barrierVars
<1>1. /\ Len(line) >= 1
      /\ t = line[1]
      /\ \A u \in Task \ {t} : pc[u] \notin Started
  BY StartedIsHead, OneStarted DEF Started
<1>2. /\ line' \in Seq(Task)
      /\ Len(line') = Len(line) - 1
      /\ \A i \in 1..Len(line') : line'[i] = line[i + 1]
  BY <1>1 DEF IInv, TypeOK
<1>3. TypeOK'
  <2>1. queued' \in Nat
    BY <1>1, <1>2 DEF IInv, TypeOK, FlagInv
  <2>2. pc' \in [Task -> TaskState]
    BY DEF IInv, TypeOK, TaskState
  <2> QED
    BY <1>2, <2>1, <2>2 DEF IInv, TypeOK
<1>4. \A u \in Task : pc'[u] = IF u = t THEN "out" ELSE pc[u]
  BY DEF IInv, TypeOK
<1>5. LineInv'
  <2>1. (\A i, j \in 1..Len(line) : line[i] = line[j] => i = j)'
    BY <1>2 DEF IInv, LineInv, TypeOK
  <2>2. (\A u \in Task : pc[u] # "out" <=> \E i \in 1..Len(line) : line[i] = u)'
    <3> SUFFICES ASSUME NEW u \in Task
                 PROVE  pc'[u] # "out" <=> \E i \in 1..Len(line') : line'[i] = u
      OBVIOUS
    <3>1. CASE u = t
      BY <1>1, <1>2, <1>4, <3>1 DEF IInv, LineInv, TypeOK
    <3>2. CASE u # t
      <4>1. ASSUME NEW i \in 1..Len(line), line[i] = u
            PROVE  \E j \in 1..Len(line') : line'[j] = u
        <5>1. i - 1 \in 1..Len(line') /\ line'[i - 1] = u
          BY <1>1, <1>2, <3>2, <4>1 DEF IInv, TypeOK
        <5> QED
          BY <5>1
      <4>2. ASSUME NEW j \in 1..Len(line'), line'[j] = u
            PROVE  \E i \in 1..Len(line) : line[i] = u
        <5>1. j + 1 \in 1..Len(line) /\ line[j + 1] = u
          BY <1>2, <4>2 DEF IInv, TypeOK
        <5> QED
          BY <5>1
      <4> QED
        BY <1>4, <3>2, <4>1, <4>2 DEF IInv, LineInv
    <3> QED
      BY <3>1, <3>2
  <2>3. (\A i \in 2..Len(line) : pc[line[i]] = "queued")'
    <3> SUFFICES ASSUME NEW i \in 2..Len(line')
                 PROVE  pc'[line'[i]] = "queued"
      OBVIOUS
    <3>1. /\ i + 1 \in 2..Len(line)
          /\ line'[i] = line[i + 1]
          /\ line[i + 1] # t
      BY <1>1, <1>2 DEF IInv, LineInv, TypeOK
    <3> QED
      BY <1>4, <3>1 DEF IInv, LineInv, TypeOK
  <2> QED
    BY <2>1, <2>2, <2>3 DEF LineInv
<1>6. FlagInv'
  <2>1. \A u \in Task : pc'[u] \notin Started
    BY <1>1, <1>4 DEF Started, InSection
  <2>2. ~frozen
    BY <1>1 DEF IInv, FlagInv, Started, InSection
  <2> QED
    BY <1>2, <2>1, <2>2 DEF IInv, FlagInv, Started
<1>7. DrainInv'
  <2>1. InProgress' = InProgress
    BY DEF InProgress
  <2>2. \A u \in Task : /\ pc'[u] = "parked" <=> pc[u] = "parked"
                        /\ pc'[u] \in {"woken", "body"} <=> pc[u] \in {"woken", "body"}
    BY <1>4
  <2> QED
    BY <2>1, <2>2 DEF IInv, DrainInv
<1> QED
  BY <1>3, <1>5, <1>6, <1>7 DEF IInv

LEMMA AdmitKeeps ==
  ASSUME IInv, NEW w \in Writer, AdmitWriter(w)
  PROVE  IInv'
<1> USE DEF AdmitWriter, gateVars
<1>1. TypeOK'
  BY DEF IInv, TypeOK, WriterState
<1>2. LineInv' /\ FlagInv'
  BY DEF IInv, LineInv, FlagInv
<1>3. /\ InProgress' = InProgress \union {w}
      /\ w \notin InProgress
  BY DEF IInv, TypeOK, InProgress
<1>4. Cardinality(InProgress') = Cardinality(InProgress) + 1
  BY <1>3, WritersCounted, FS_AddElement
<1>5. \A u \in Task : pc[u] \notin {"parked", "woken", "body"}
  BY DEF IInv, FlagInv, InSection
<1>6. DrainInv'
  BY <1>4, <1>5 DEF IInv, DrainInv
<1> QED
  BY <1>1, <1>2, <1>6 DEF IInv

(* A refused writer is not counted; neither is one that may retry.          *)
LEMMA RefuseKeeps ==
  ASSUME IInv, NEW w \in Writer, RefuseWriter(w) \/ RetryLater(w)
  PROVE  IInv'
<1> USE DEF RefuseWriter, RetryLater, gateVars, barrierVars
<1>1. TypeOK'
  BY DEF IInv, TypeOK, WriterState
<1>2. LineInv' /\ FlagInv'
  BY DEF IInv, LineInv, FlagInv
<1>3. InProgress' = InProgress
  BY DEF IInv, TypeOK, InProgress
<1> QED
  BY <1>1, <1>2, <1>3 DEF IInv, DrainInv

(* The last writer that leaves wakes the transition parked in the drain.    *)
LEMMA LeaveKeeps ==
  ASSUME IInv, NEW w \in Writer, LeaveWriter(w)
  PROVE  IInv'
<1> USE DEF LeaveWriter, gateVars
<1>1. /\ InProgress' = InProgress \ {w}
      /\ w \in InProgress
  BY DEF IInv, TypeOK, InProgress
<1>2. Cardinality(InProgress') = Cardinality(InProgress) - 1
  BY <1>1, WritersCounted, FS_RemoveElement
<1>3. writers \in Nat /\ writers' = writers - 1 /\ writers >= 1
  BY <1>1, WritersCounted DEF IInv, TypeOK
<1>4. \A u \in Task : pc[u] \notin {"woken", "body"}
  BY <1>3 DEF IInv, DrainInv
<1>5. \A u \in Task :
        pc'[u] = IF writers' = 0 /\ pc[u] = "parked" THEN "woken" ELSE pc[u]
  BY DEF WakeAll, IInv, TypeOK, DrainInv
<1>6. TypeOK'
  BY <1>3 DEF WakeAll, IInv, TypeOK, TaskState, WriterState
<1>7. LineInv'
  <2>1. \A u \in Task : /\ pc'[u] # "out" <=> pc[u] # "out"
                        /\ pc[u] = "queued" => pc'[u] = "queued"
    BY <1>5
  <2> QED
    BY <2>1 DEF IInv, LineInv, TypeOK
<1>8. FlagInv'
  <2>1. \A u \in Task : /\ pc'[u] \in Started <=> pc[u] \in Started
                        /\ pc'[u] \in InSection <=> pc[u] \in InSection
                        /\ pc'[u] = "bug" <=> pc[u] = "bug"
    BY <1>5 DEF Started, InSection
  <2> QED
    BY <2>1 DEF IInv, FlagInv
<1>9. DrainInv'
  <2>1. CASE writers' = 0
    <3>1. wait' = {} /\ \A u \in Task : pc'[u] # "parked"
      BY <1>5, <2>1
    <3> QED
      BY <1>2, <1>3, <2>1, <3>1 DEF IInv, DrainInv
  <2>2. CASE writers' # 0
    <3>1. writers' > 0 /\ wait' = wait /\ pc' = pc
      BY <1>3, <2>2
    <3> QED
      BY <1>2, <1>3, <1>4, <3>1 DEF IInv, DrainInv
  <2> QED
    BY <2>1, <2>2
<1> QED
  BY <1>6, <1>7, <1>8, <1>9 DEF IInv

LEMMA NextKeeps == IInv /\ [Next]_vars => IInv'
<1> SUFFICES ASSUME IInv, [Next]_vars PROVE IInv'
  OBVIOUS
<1>1. ASSUME NEW t \in Task, Queue(t) \/ Proceed(t) PROVE IInv'
  BY <1>1, QueueKeeps, StartKeeps, DrainKeeps, UnfreezeKeeps, SettleKeeps
     DEF Proceed
<1>2. ASSUME NEW w \in Writer,
             AdmitWriter(w) \/ RefuseWriter(w) \/ RetryLater(w) \/ LeaveWriter(w)
      PROVE  IInv'
  BY <1>2, AdmitKeeps, RefuseKeeps, LeaveKeeps
<1>3. CASE UNCHANGED vars
  BY <1>3 DEF vars, IInv, TypeOK, LineInv, FlagInv, DrainInv, InProgress
<1> QED
  BY <1>1, <1>2, <1>3 DEF Next

(* The inductive invariant holds in every reachable state.                  *)
THEOREM Inductive == SafeSpec => []IInv
BY InitIInv, NextKeeps, PTL DEF SafeSpec

(* The type invariant: in particular neither counter ever goes negative, so *)
(* `writers === 0` and `queued > 0` mean what the code takes them to mean.  *)
THEOREM TypeCorrect == SafeSpec => []TypeOK
<1>1. IInv => TypeOK
  BY DEF IInv
<1> QED
  BY <1>1, Inductive, PTL

(* Mutual exclusion of transition bodies with writers and with each other.  *)
THEOREM Exclusive == SafeSpec => []BodyIsExclusive
<1>1. IInv => BodyIsExclusive
  <2> SUFFICES ASSUME IInv, NEW t \in Task, pc[t] = "body"
               PROVE  /\ \A w \in Writer : wpc[w] # "in"
                      /\ \A u \in Task \ {t} : pc[u] \notin InSection
    BY DEF BodyIsExclusive
  <2>1. InProgress = {}
    BY WritersCounted DEF IInv, DrainInv
  <2>2. \A u \in Task \ {t} : pc[u] \notin InSection
    BY OneStarted DEF Started, InSection
  <2> QED
    BY <2>1, <2>2 DEF InProgress
<1> QED
  BY <1>1, Inductive, PTL

(* runTransition's 'BUG: reentrant session transition' is never thrown.     *)
THEOREM NotReentrant == SafeSpec => []NeverReentrant
<1>1. IInv => NeverReentrant
  BY DEF IInv, FlagInv, NeverReentrant
<1> QED
  BY <1>1, Inductive, PTL

(* A parked transition always has a writer left that will wake it.          *)
THEOREM WakeupNotLost == SafeSpec => []NoLostWakeup
<1>1. IInv => NoLostWakeup
  <2> SUFFICES ASSUME IInv, NEW t \in Task
               PROVE  /\ pc[t] = "parked" <=> t \in wait
                      /\ pc[t] = "parked" => \E w \in Writer : wpc[w] = "in"
    BY DEF NoLostWakeup
  <2>1. pc[t] = "parked" <=> t \in wait
    BY DEF IInv, DrainInv
  <2>2. pc[t] = "parked" => InProgress # {}
    BY WritersCounted DEF IInv, DrainInv
  <2> QED
    BY <2>1, <2>2 DEF InProgress
<1> QED
  BY <1>1, Inductive, PTL

(* `pending` and `busy` cover the whole life of a transition.               *)
THEOREM PendingCovers == SafeSpec => []PendingCoversTransition
<1>1. IInv => PendingCoversTransition
  <2> SUFFICES ASSUME IInv PROVE PendingCoversTransition
    OBVIOUS
  <2>1. pending <=> Len(line) >= 1
    BY DEF pending, IInv, FlagInv, TypeOK
  <2>2. (\E t \in Task : pc[t] # "out") <=> Len(line) >= 1
    <3>1. ASSUME Len(line) >= 1 PROVE line[1] \in Task /\ pc[line[1]] # "out"
      BY <3>1 DEF IInv, TypeOK, LineInv
    <3>2. ASSUME NEW t \in Task, pc[t] # "out" PROVE Len(line) >= 1
      BY <3>2 DEF IInv, TypeOK, LineInv
    <3> QED
      BY <3>1, <3>2
  <2>3. busy => \E t \in Task : pc[t] # "out"
    BY DEF busy, IInv, FlagInv, Started, InSection
  <2>4. frozen => busy
    BY DEF busy, IInv, FlagInv, Started
  <2> QED
    BY <2>1, <2>2, <2>3, <2>4 DEF PendingCoversTransition
<1> QED
  BY <1>1, Inductive, PTL

-----------------------------------------------------------------------------
Inside == {t \in Task : pc[t] = "body"}

LEMMA InitMaps == Init => Promise!Init
BY DEF Init, Promise!Init

(* Reaching the body is the abstract entry, everything before it a stutter. *)
LEMMA DrainMaps ==
  ASSUME IInv, NEW t \in Task, DrainOrRun(t), UNCHANGED <<line, wpc>>,
         Len(line) >= 1, t = Head(line),
         \A u \in Task : pc[u] # "body"
  PROVE  [Promise!Next]_Promise!vars
<1>1. UNCHANGED InProgress
  BY DEF InProgress
<1>2. CASE writers > 0
  <2>1. Inside' = Inside
    BY <1>2 DEF DrainOrRun, Inside, IInv, TypeOK
  <2> QED
    BY <1>1, <2>1 DEF Promise!vars, InProgress, Inside
<1>3. CASE ~(writers > 0)
  <2>1. Inside' = {t} /\ Inside = {}
    BY <1>3 DEF DrainOrRun, Inside, IInv, TypeOK
  <2>2. InProgress = {}
    BY <1>3, WritersCounted DEF IInv, TypeOK
  <2>3. Promise!Enter(t)
    BY <1>1, <2>1, <2>2 DEF Promise!Enter, InProgress, Inside, IInv, TypeOK
  <2> QED
    BY <2>3 DEF Promise!Next
<1> QED
  BY <1>2, <1>3

LEMMA StepMaps == IInv /\ [Next]_vars => [Promise!Next]_Promise!vars
<1> SUFFICES ASSUME IInv, [Next]_vars PROVE [Promise!Next]_Promise!vars
  OBVIOUS
<1> USE DEF Inside, InProgress
<1>1. ASSUME NEW t \in Task, Queue(t) PROVE Promise!Join(t)
  <2>1. Inside' = Inside /\ InProgress' = InProgress
    BY <1>1 DEF Queue, IInv, TypeOK
  <2>2. \A i \in DOMAIN line : line[i] # t
    BY <1>1 DEF Queue, IInv, LineInv, TypeOK
  <2> QED
    BY <1>1, <2>1, <2>2 DEF Queue, Promise!Join
<1>2. ASSUME NEW t \in Task, Start(t) PROVE [Promise!Next]_Promise!vars
  <2>1. Called(t)
    BY <1>2 DEF Start, StartNoOp, StartPlain, StartNavigation
  <2>2. /\ Len(line) >= 1 /\ t = Head(line)
        /\ UNCHANGED <<line, wpc>>
        /\ ~frozen
        /\ \A u \in Task : pc[u] # "body"
    BY <2>1, CalledAlone DEF Called, Started, InSection, IInv, TypeOK
  <2>3. CASE StartNoOp(t) \/ StartNavigation(t)
    <3>1. PICK s \in {"leaving", "stopping"} : pc' = [pc EXCEPT ![t] = s]
      BY <2>2, <2>3 DEF StartNoOp, StartNavigation
    <3>2. Inside' = Inside /\ InProgress' = InProgress
      BY <2>2, <3>1 DEF IInv, TypeOK
    <3> QED
      BY <2>2, <3>2 DEF Promise!vars
  <2>4. CASE StartPlain(t)
    <3>1. DrainOrRun(t)
      BY <2>2, <2>4 DEF StartPlain
    <3> QED
      BY <2>2, <3>1, DrainMaps
  <2> QED
    BY <1>2, <2>3, <2>4 DEF Start
<1>3. ASSUME NEW t \in Task, StopAccepted(t) \/ Resume(t)
      PROVE  [Promise!Next]_Promise!vars
  <2>1. /\ pc[t] \in {"stopping", "woken"}
        /\ DrainOrRun(t)
        /\ UNCHANGED <<line, wpc>>
    BY <1>3 DEF StopAccepted, Resume, gateVars
  <2>2. Len(line) >= 1 /\ t = Head(line)
    BY <2>1, StartedIsHead DEF Started, InSection
  <2>3. \A u \in Task : pc[u] # "body"
    BY <2>1, OneStarted DEF Started, InSection
  <2> QED
    BY <2>1, <2>2, <2>3, DrainMaps
<1>4. ASSUME NEW t \in Task, StopThrows(t) \/ BodyEnds(t)
      PROVE  [Promise!Next]_Promise!vars
  <2>1. \A u \in Task : pc'[u] = "body" <=> (pc[u] = "body" /\ u # t)
    BY <1>4 DEF StopThrows, BodyEnds, Unfreeze, WakeAll, IInv, TypeOK, DrainInv
  <2>2. Inside' = Inside \ {t}
    BY <2>1
  <2>3. InProgress' = InProgress /\ line' = line
    BY <1>4 DEF StopThrows, BodyEnds, Unfreeze, gateVars
  <2>4. CASE pc[t] = "body"
    <3>1. Promise!Exit(t)
      BY <2>2, <2>3, <2>4 DEF Promise!Exit
    <3> QED
      BY <3>1 DEF Promise!Next
  <2>5. CASE pc[t] # "body"
    BY <2>2, <2>3, <2>5 DEF Promise!vars
  <2> QED
    BY <2>4, <2>5
<1>5. ASSUME NEW t \in Task, Settle(t) PROVE Promise!Settle(t)
  <2>1. Len(line) >= 1 /\ t = Head(line)
    BY <1>5, StartedIsHead DEF Settle, Started
  <2>2. Inside' = Inside /\ InProgress' = InProgress /\ t \notin Inside
    BY <1>5 DEF Settle, IInv, TypeOK
  <2> QED
    BY <1>5, <2>1, <2>2 DEF Settle, Promise!Settle, IInv, TypeOK
<1>6. ASSUME NEW w \in Writer, AdmitWriter(w) PROVE Promise!StartWrite(w)
  <2>1. Inside = {}
    BY <1>6 DEF AdmitWriter, IInv, FlagInv, InSection
  <2>2. InProgress' = InProgress \union {w} /\ w \notin InProgress
    BY <1>6 DEF AdmitWriter, IInv, TypeOK
  <2> QED
    BY <1>6, <2>1, <2>2 DEF AdmitWriter, gateVars, Promise!StartWrite
<1>7. ASSUME NEW w \in Writer, RefuseWriter(w) \/ RetryLater(w)
      PROVE  UNCHANGED Promise!vars
  <2>1. InProgress' = InProgress
    BY <1>7 DEF RefuseWriter, RetryLater, IInv, TypeOK
  <2> QED
    BY <1>7, <2>1 DEF RefuseWriter, RetryLater, gateVars, Promise!vars
<1>8. ASSUME NEW w \in Writer, LeaveWriter(w) PROVE Promise!EndWrite(w)
  <2>1. InProgress' = InProgress \ {w} /\ w \in InProgress
    BY <1>8 DEF LeaveWriter, IInv, TypeOK
  <2>2. Inside' = Inside
    BY <1>8 DEF LeaveWriter, WakeAll, IInv, TypeOK, DrainInv
  <2> QED
    BY <1>8, <2>1, <2>2 DEF LeaveWriter, gateVars, Promise!EndWrite
<1>9. CASE UNCHANGED vars
  BY <1>9 DEF vars, Promise!vars
<1> QED
  BY <1>1, <1>2, <1>3, <1>4, <1>5, <1>6, <1>7, <1>8, <1>9
     DEF Next, Proceed, Promise!Next

(* The gate and the barrier implement the exclusive, ordered admission.     *)
THEOREM Implements == SafeSpec => ImplementsExclusiveTransition
<1>1. SafeSpec => Promise!Init
  BY InitMaps DEF SafeSpec
<1>2. SafeSpec => [][Promise!Next]_Promise!vars
  BY Inductive, StepMaps, PTL DEF SafeSpec
<1> QED
  BY <1>1, <1>2 DEF ImplementsExclusiveTransition, Promise!Spec

=============================================================================
