------------------------ MODULE QueuePullBack_proofs ------------------------
(***************************************************************************)
(* The safety of QueuePullBack for every number of rows and every finite   *)
(* set of key presses and transitions: an inductive invariant, from it the *)
(* invariants that TLC checks on small sets, and the refinement of         *)
(* ExclusiveTransition.                                                    *)
(***************************************************************************)
EXTENDS QueuePullBack, FiniteSetTheorems, TLAPS

InSection == {"stopping", "drain", "body"}
Started == InSection \union {"leaving"}

(* The line holds each transition under way once, and only its head runs;  *)
(* the barrier is frozen exactly while one is in its section.              *)
LineInv == /\ \A i, j \in 1..Len(line) : line[i] = line[j] => i = j
           /\ \A t \in Task : pc[t] \notin {"out", "done"}
                                <=> \E i \in 1..Len(line) : line[i] = t
           /\ \A i \in 2..Len(line) : pc[line[i]] = "queued"
           /\ frozen <=> \E t \in Task : pc[t] \in InSection
           /\ \A t \in Task : pc[t] = "stopping" => kind[t] = "navigation"

Busy(p) == phase[p] \in {"removing", "deferred"}

(* No removal is under way in a body, and none of the pull-backs of a      *)
(* session outlives it.  A preset does not settle the ledger at the gate,  *)
(* hence nothing may have entered it since its body did.                   *)
WriteInv == /\ \A t \in Task : pc[t] = "body" => \A p \in Pull : phase[p] # "removing"
            /\ \A t \in Task : pc[t] = "leaving" /\ kind[t] = "preset"
                                 => \A p \in Pull : ~Busy(p)
            /\ RecallHasItsTransition
            /\ owner # 0 => queue = {} /\ \A p \in Pull : ~Busy(p)

(* The locals of a pull-back.                                              *)
PullInv == /\ \A p \in Pull : phase[p] = "idle" => gone[p] = {} /\ staged[p] = {}
           /\ \A p \in Pull : phase[p] = "removing" => gone[p] \subseteq rows[p]
           /\ \A p \in Pull : phase[p] = "deferred" => staged[p] = keep[p]
           /\ queue \intersect taken = {}

(* A text whose removal is certain has one holder at most, and a holder    *)
(* excludes the editor, the queue and the turns.                           *)
PlaceInv == \A m \in Message \ unsure :
              /\ \A p, q \in Pull : Holds(p, m) /\ Holds(q, m) => p = q
              /\ \A p \in Pull : Holds(p, m) => editor[m] = 0 /\ m \notin queue \union taken
              /\ editor[m] <= 1
              /\ editor[m] = 1 => m \notin queue \union taken

DraftInv == SameSession =>
              \A m \in Message : editor[m] > 0
                <=> \E p \in Pull : phase[p] = "done" /\ m \in staged[p]

IInv == TypeOK /\ LineInv /\ WriteInv /\ PullInv /\ PlaceInv /\ DraftInv

-----------------------------------------------------------------------------
LEMMA InitIInv == Init => IInv
<1> SUFFICES ASSUME Init PROVE IInv
  OBVIOUS
<1> USE DEF Init
<1>1. TypeOK
  <2>1. line \in Seq(Task) /\ pc \in [Task -> {"out"}] /\ kind \in [Task -> Kind]
    BY DEF Kind
  <2>2. /\ rows \in [Pull -> SUBSET Message] /\ gone \in [Pull -> SUBSET Message]
        /\ keep \in [Pull -> SUBSET Message] /\ staged \in [Pull -> SUBSET Message]
    OBVIOUS
  <2>3. /\ phase \in [Pull -> {"idle"}] /\ editor \in [Message -> Nat]
        /\ subject \in [Pull -> Nat \X Nat]
        /\ pins = {p \in Pull : phase[p] \in {"removing", "deferred"}}
    OBVIOUS
  <2> QED
    BY <2>1, <2>2, <2>3 DEF TypeOK
<1>2. LineInv
  BY DEF LineInv, InSection
<1>3. WriteInv /\ PullInv
  BY DEF WriteInv, PullInv, Busy, RecallHasItsTransition, recalls
<1>4. PlaceInv /\ DraftInv
  BY DEF PlaceInv, DraftInv, Holds
<1> QED
  BY <1>1, <1>2, <1>3, <1>4 DEF IInv

(* A transition that has started is the head of the line, hence alone.     *)
LEMMA StartedIsHead ==
  ASSUME TypeOK, LineInv, NEW t \in Task, pc[t] \in Started
  PROVE  /\ Len(line) >= 1
         /\ t = line[1]
         /\ \A u \in Task \ {t} : pc[u] \notin Started
<1>1. ASSUME NEW u \in Task, pc[u] \in Started
      PROVE  Len(line) >= 1 /\ u = line[1]
  <2>1. PICK i \in 1..Len(line) : line[i] = u
    BY <1>1 DEF LineInv, Started, InSection
  <2>2. i = 1
    BY <1>1, <2>1 DEF TypeOK, LineInv, Started, InSection
  <2> QED
    BY <2>1, <2>2 DEF TypeOK
<1> QED
  BY <1>1

(* Nobody is in a section when a transition is called.                     *)
LEMMA CalledAlone ==
  ASSUME TypeOK, LineInv, NEW t \in Task, Called(t)
  PROVE  /\ Len(line) >= 1
         /\ t = line[1]
         /\ \A u \in Task : pc[u] \notin Started
         /\ ~frozen
<1>1. Len(line) >= 1 /\ t = line[1] /\ pc[t] = "queued"
  BY DEF Called, TypeOK
<1>2. \A u \in Task : pc[u] \notin Started
  BY <1>1, StartedIsHead DEF Started, InSection
<1> QED
  BY <1>1, <1>2 DEF LineInv, Started

-----------------------------------------------------------------------------
\* The line.

(* The head moves on, and no other transition is in a section with it.     *)
LEMMA HeadMoves ==
  ASSUME TypeOK, LineInv, NEW t \in Task,
         NEW s \in {"stopping", "drain", "body", "leaving"},
         Len(line) >= 1, t = line[1],
         \A u \in Task \ {t} : pc[u] \notin Started,
         s = "stopping" => kind[t] = "navigation",
         line' = line, kind' = kind, pc' = [pc EXCEPT ![t] = s],
         frozen' = (s # "leaving")
  PROVE  LineInv'
<1>1. \A u \in Task : pc'[u] = IF u = t THEN s ELSE pc[u]
  BY DEF TypeOK
<1>2. \A i \in 2..Len(line) : line[i] # t /\ line[i] \in Task
  BY DEF LineInv, TypeOK
<1>3. \A u \in Task : pc'[u] \notin {"out", "done"} <=> pc[u] \notin {"out", "done"}
  <2>1. pc[t] \notin {"out", "done"}
    BY DEF LineInv, TypeOK
  <2> QED
    BY <1>1, <2>1
<1>4. (\A u \in Task : pc[u] \notin {"out", "done"} <=> \E i \in 1..Len(line) : line[i] = u)'
  BY <1>3 DEF LineInv
<1>5. (\A i \in 2..Len(line) : pc[line[i]] = "queued")'
  BY <1>1, <1>2 DEF LineInv
<1>6. (frozen <=> \E u \in Task : pc[u] \in InSection)'
  BY <1>1 DEF Started, InSection
<1>7. (\A u \in Task : pc[u] = "stopping" => kind[u] = "navigation")'
  BY <1>1 DEF LineInv
<1> QED
  BY <1>4, <1>5, <1>6, <1>7 DEF LineInv

LEMMA RequestLine ==
  ASSUME TypeOK, LineInv, NEW t \in Task, NEW k \in Kind, Request(t, k)
  PROVE  LineInv'
<1> USE DEF Request
<1>1. /\ Len(line') = Len(line) + 1
      /\ \A i \in 1..Len(line) : line'[i] = line[i]
      /\ line'[Len(line')] = t
  BY DEF TypeOK
<1>2. \A i \in 1..Len(line) : line[i] # t
  BY DEF LineInv, TypeOK
<1>3. \A u \in Task : /\ pc'[u] = IF u = t THEN "queued" ELSE pc[u]
                      /\ kind'[u] = IF u = t THEN k ELSE kind[u]
  BY DEF TypeOK
<1>4. (\A i, j \in 1..Len(line) : line[i] = line[j] => i = j)'
  BY <1>1, <1>2 DEF LineInv, TypeOK
<1>5. ASSUME NEW u \in Task
      PROVE  pc'[u] \notin {"out", "done"} <=> \E i \in 1..Len(line') : line'[i] = u
  <2>1. CASE u = t
    BY <1>1, <1>3, <2>1 DEF TypeOK
  <2>2. CASE u # t
    <3>1. (\E i \in 1..Len(line') : line'[i] = u) <=> \E i \in 1..Len(line) : line[i] = u
      BY <1>1, <2>2 DEF TypeOK
    <3> QED
      BY <1>3, <2>2, <3>1 DEF LineInv
  <2> QED
    BY <2>1, <2>2
<1>6. ASSUME NEW i \in 2..Len(line')
      PROVE  pc'[line'[i]] = "queued"
  <2>1. CASE i = Len(line')
    BY <1>1, <1>3, <2>1 DEF TypeOK
  <2>2. CASE i # Len(line')
    <3>1. i \in 2..Len(line) /\ line'[i] = line[i] /\ line[i] \in Task
      BY <1>1, <2>2 DEF TypeOK
    <3> QED
      BY <1>3, <3>1 DEF LineInv
  <2> QED
    BY <2>1, <2>2
<1>7. (frozen <=> \E u \in Task : pc[u] \in InSection)'
  BY <1>3 DEF LineInv, InSection
<1>8. (\A u \in Task : pc[u] = "stopping" => kind[u] = "navigation")'
  BY <1>3 DEF LineInv
<1> QED
  BY <1>4, <1>5, <1>6, <1>7, <1>8 DEF LineInv

LEMMA EndTaskLine ==
  ASSUME TypeOK, LineInv, NEW t \in Task, EndTask(t)
  PROVE  LineInv' /\ ~frozen /\ Len(line) >= 1 /\ t = line[1]
<1> USE DEF EndTask
<1>1. /\ Len(line) >= 1
      /\ t = line[1]
      /\ \A u \in Task \ {t} : pc[u] \notin Started
  BY StartedIsHead DEF Started
<1>2. /\ line' \in Seq(Task)
      /\ Len(line') = Len(line) - 1
      /\ \A i \in 1..Len(line') : line'[i] = line[i + 1]
  BY <1>1 DEF TypeOK
<1>3. \A u \in Task : pc'[u] = IF u = t THEN "done" ELSE pc[u]
  BY DEF TypeOK
<1>4. (\A i, j \in 1..Len(line) : line[i] = line[j] => i = j)'
  BY <1>2 DEF LineInv, TypeOK
<1>5. ASSUME NEW u \in Task
      PROVE  pc'[u] \notin {"out", "done"} <=> \E i \in 1..Len(line') : line'[i] = u
  <2>1. CASE u = t
    BY <1>1, <1>2, <1>3, <2>1 DEF LineInv, TypeOK
  <2>2. CASE u # t
    <3>1. ASSUME NEW i \in 1..Len(line), line[i] = u
          PROVE  \E j \in 1..Len(line') : line'[j] = u
      <4>1. i - 1 \in 1..Len(line') /\ line'[i - 1] = u
        BY <1>1, <1>2, <2>2, <3>1 DEF TypeOK
      <4> QED
        BY <4>1
    <3>2. ASSUME NEW j \in 1..Len(line'), line'[j] = u
          PROVE  \E i \in 1..Len(line) : line[i] = u
      <4>1. j + 1 \in 1..Len(line) /\ line[j + 1] = u
        BY <1>2, <3>2 DEF TypeOK
      <4> QED
        BY <4>1
    <3> QED
      BY <1>3, <2>2, <3>1, <3>2 DEF LineInv
  <2> QED
    BY <2>1, <2>2
<1>6. ASSUME NEW i \in 2..Len(line')
      PROVE  pc'[line'[i]] = "queued"
  <2>1. /\ i + 1 \in 2..Len(line)
        /\ line'[i] = line[i + 1]
        /\ line[i + 1] # t /\ line[i + 1] \in Task
    BY <1>1, <1>2 DEF LineInv, TypeOK
  <2> QED
    BY <1>3, <2>1 DEF LineInv, TypeOK
<1>7. ~frozen /\ ~frozen' /\ \A u \in Task : pc'[u] \notin InSection
  BY <1>1, <1>3 DEF LineInv, Started, InSection
<1>8. (\A u \in Task : pc[u] = "stopping" => kind[u] = "navigation")'
  BY <1>3 DEF LineInv
<1> QED
  BY <1>1, <1>4, <1>5, <1>6, <1>7, <1>8 DEF LineInv

-----------------------------------------------------------------------------
\* The ledger of recalls and the tail of a pull-back.

(* What a set of recalls adds to the editor.                               *)
LEMMA RestoredFacts ==
  ASSUME TypeOK, NEW B \in SUBSET Pull
  PROVE  /\ Restored(B) \in [Message -> Nat]
         /\ \A m \in Message :
              /\ Restored(B)[m] >= editor[m]
              /\ Restored(B)[m] > editor[m] <=> \E p \in B : m \in keep[p]
              /\ (\A p, q \in B : m \in keep[p] /\ m \in keep[q] => p = q)
                   => Restored(B)[m] <= editor[m] + 1
<1> DEFINE H(m) == {p \in B : m \in keep[p]}
<1>1. ASSUME NEW m \in Message
      PROVE  /\ Cardinality(H(m)) \in Nat
             /\ Cardinality(H(m)) = 0 <=> H(m) = {}
             /\ (\A p, q \in H(m) : p = q) => Cardinality(H(m)) <= 1
  <2>1. IsFiniteSet(H(m))
    BY PullAssumption, FS_Subset
  <2>2. Cardinality(H(m)) \in Nat /\ (Cardinality(H(m)) = 0 <=> H(m) = {})
    BY <2>1, FS_CardinalityType, FS_EmptySet
  <2>3. ASSUME \A p, q \in H(m) : p = q, H(m) # {}
        PROVE  Cardinality(H(m)) = 1
    <3>1. PICK p \in H(m) : H(m) = {p}
      BY <2>3
    <3> HIDE DEF H
    <3> QED
      BY <3>1, FS_Singleton
  <2> QED
    BY <2>2, <2>3
<1>2. \A m \in Message : Restored(B)[m] = editor[m] + Cardinality(H(m))
  BY DEF Restored
<1>3. Restored(B) \in [Message -> Nat]
  <2>1. \A m \in Message : editor[m] \in Nat /\ Cardinality(H(m)) \in Nat
    BY <1>1 DEF TypeOK
  <2>2. \A m \in Message : Restored(B)[m] \in Nat
    <3> HIDE DEF H
    <3> QED
      BY <1>2, <2>1
  <2> QED
    BY <2>2 DEF Restored
<1>4. ASSUME NEW m \in Message
      PROVE  /\ Restored(B)[m] >= editor[m]
             /\ Restored(B)[m] > editor[m] <=> H(m) # {}
             /\ (\A p, q \in H(m) : p = q) => Restored(B)[m] <= editor[m] + 1
  <2> DEFINE c == Cardinality(H(m))
  <2>1. editor[m] \in Nat /\ c \in Nat /\ Restored(B)[m] = editor[m] + c
    BY <1>1, <1>2 DEF TypeOK
  <2>2. (c = 0 <=> H(m) = {}) /\ ((\A p, q \in H(m) : p = q) => c <= 1)
    BY <1>1
  <2> HIDE DEF c, H
  <2> QED
    BY <2>1, <2>2
<1> QED
  BY <1>3, <1>4

(* The types of what a settlement of the ledger touches.                   *)
LEMMA SettleTypes ==
  ASSUME TypeOK, NEW c \in BOOLEAN, SettleRecalls(c)
  PROVE  /\ editor' \in [Message -> Nat]
         /\ phase' \in [Pull -> {"idle", "removing", "deferred", "done"}]
         /\ \A p \in Pull : phase'[p] = IF phase[p] = "deferred" THEN "done" ELSE phase[p]
         /\ staged' \in [Pull -> SUBSET Message]
         /\ UNCHANGED <<rows, gone, subject, keep, unsure>>
         /\ pins' = {p \in Pull : phase'[p] \in {"removing", "deferred"}}
         /\ recalls' = {}
<1> USE DEF SettleRecalls
<1>1. \A p \in Pull : phase'[p] = IF phase[p] = "deferred" THEN "done" ELSE phase[p]
  BY DEF recalls
<1>2. phase' \in [Pull -> {"idle", "removing", "deferred", "done"}]
  BY DEF TypeOK
<1>3. editor' \in [Message -> Nat]
  BY RestoredFacts DEF Back, recalls
<1>4. staged' \in [Pull -> SUBSET Message]
  BY DEF TypeOK
<1>5. pins' = {p \in Pull : phase'[p] \in {"removing", "deferred"}}
  BY <1>1 DEF TypeOK, Unpin, recalls
<1>6. recalls' = {}
  BY <1>1 DEF recalls
<1> QED
  BY <1>1, <1>2, <1>3, <1>4, <1>5, <1>6 DEF TypeOK

(* A settlement moves texts out of the ledger: into the editor, or nowhere *)
(* together with their drafts.                                             *)
LEMMA SettleKeeps ==
  ASSUME IInv, NEW c \in BOOLEAN, SettleRecalls(c),
         queue' \subseteq queue, taken' = taken, disposed' = disposed,
         owner' = 0 => owner = 0
  PROVE  PullInv' /\ PlaceInv' /\ DraftInv'
<1> USE DEF IInv
<1>1. /\ \A p \in Pull : phase'[p] = IF phase[p] = "deferred" THEN "done" ELSE phase[p]
      /\ UNCHANGED <<rows, gone, keep, unsure>>
  BY SettleTypes DEF SettleRecalls
<1>2. /\ Back(c) \subseteq {p \in Pull : phase[p] = "deferred"}
      /\ \A p \in Pull : staged'[p] = IF phase[p] = "deferred" /\ p \notin Back(c)
                                        THEN {} ELSE staged[p]
  BY DEF SettleRecalls, recalls, Back
<1>3. \A m \in Message :
        /\ editor[m] \in Nat /\ editor'[m] \in Nat
        /\ editor'[m] >= editor[m]
        /\ editor'[m] > editor[m] <=> \E p \in Back(c) : m \in keep[p]
        /\ (\A p, q \in Back(c) : m \in keep[p] /\ m \in keep[q] => p = q)
             => editor'[m] <= editor[m] + 1
  <2>1. Back(c) \in SUBSET Pull /\ editor' = Restored(Back(c))
    BY <1>2 DEF SettleRecalls
  <2>2. /\ editor' \in [Message -> Nat]
        /\ \A m \in Message :
             /\ editor'[m] >= editor[m]
             /\ editor'[m] > editor[m] <=> \E p \in Back(c) : m \in keep[p]
             /\ (\A p, q \in Back(c) : m \in keep[p] /\ m \in keep[q] => p = q)
                  => editor'[m] <= editor[m] + 1
    BY <2>1, RestoredFacts
  <2> QED
    BY <2>2 DEF TypeOK
<1>4. PullInv'
  BY <1>1, <1>2 DEF PullInv
<1>5. PlaceInv'
  <2> SUFFICES ASSUME NEW m \in Message \ unsure
               PROVE  /\ \A p, q \in Pull : Holds(p, m)' /\ Holds(q, m)' => p = q
                      /\ \A p \in Pull : Holds(p, m)' =>
                            editor'[m] = 0 /\ m \notin queue' \union taken'
                      /\ editor'[m] <= 1
                      /\ editor'[m] = 1 => m \notin queue' \union taken'
    BY <1>1 DEF PlaceInv
  <2>1. \A p \in Pull : Holds(p, m)' => Holds(p, m) /\ p \notin Back(c)
    BY <1>1, <1>2 DEF Holds
  <2>2. \A p \in Back(c) : m \in keep[p] => p \in Pull /\ Holds(p, m)
    BY <1>2 DEF Holds
  <2>3. CASE \E p \in Back(c) : m \in keep[p]
    <3>1. PICK p \in Back(c) : m \in keep[p]
      BY <2>3
    <3>2. editor[m] = 0 /\ m \notin queue \union taken
      BY <2>2, <3>1 DEF PlaceInv
    <3>3. editor'[m] = 1
      BY <1>3, <2>2, <3>1, <3>2 DEF PlaceInv
    <3>4. \A q \in Pull : ~Holds(q, m)'
      BY <2>1, <2>2, <3>1 DEF PlaceInv
    <3> QED
      BY <3>2, <3>3, <3>4
  <2>4. CASE ~\E p \in Back(c) : m \in keep[p]
    <3>1. editor'[m] = editor[m]
      BY <1>3, <2>4
    <3> QED
      BY <2>1, <3>1 DEF PlaceInv
  <2> QED
    BY <2>3, <2>4
<1>6. DraftInv'
  <2> SUFFICES ASSUME SameSession', NEW m \in Message
               PROVE  editor'[m] > 0 <=> \E p \in Pull : phase'[p] = "done" /\ m \in staged'[p]
    BY DEF DraftInv
  <2>1. editor[m] > 0 <=> \E p \in Pull : phase[p] = "done" /\ m \in staged[p]
    BY DEF DraftInv, SameSession
  <2>2. editor'[m] > 0 <=> editor[m] > 0 \/ \E p \in Back(c) : m \in keep[p]
    BY <1>3
  <2>3. \A p \in Back(c) : staged'[p] = keep[p] /\ phase'[p] = "done" /\ p \in Pull
    BY <1>1, <1>2 DEF PullInv
  <2>4. \A p \in Pull : phase'[p] = "done" /\ m \in staged'[p]
                          <=> \/ phase[p] = "done" /\ m \in staged[p]
                              \/ p \in Back(c) /\ m \in keep[p]
    BY <1>1, <1>2, <2>3
  <2> QED
    BY <1>2, <2>1, <2>2, <2>4
<1> QED
  BY <1>4, <1>5, <1>6

(* The three ends of a writer section.                                     *)
LEMMA FinishFacts ==
  ASSUME TypeOK, NEW p \in Pull, phase[p] = "removing",
         NEW S \in SUBSET Message, Finish(p, S)
  PROVE  /\ editor' \in [Message -> Nat]
         /\ phase' \in [Pull -> {"idle", "removing", "deferred", "done"}]
         /\ \A q \in Pull \ {p} : /\ phase'[q] = phase[q] /\ keep'[q] = keep[q]
                                  /\ staged'[q] = staged[q]
         /\ keep' \in [Pull -> SUBSET Message] /\ staged' \in [Pull -> SUBSET Message]
         /\ pins' = {q \in Pull : phase'[q] \in {"removing", "deferred"}}
         /\ \/ disposed /\ phase'[p] = "done" /\ editor' = editor
            \/ /\ ~disposed /\ Pending /\ phase'[p] = "deferred"
               /\ keep'[p] = S /\ staged'[p] = S /\ editor' = editor
            \/ /\ ~disposed /\ phase'[p] = "done" /\ staged'[p] = S
               /\ \A m \in Message : editor'[m] = editor[m] + IF m \in S THEN 1 ELSE 0
<1> USE DEF Finish, KeepDrafts, Unpin
<1>1. CASE disposed
  BY <1>1 DEF TypeOK
<1>2. CASE ~disposed /\ Pending
  BY <1>2 DEF TypeOK
<1>3. CASE ~disposed /\ ~Pending
  <2>1. editor' \in [Message -> Nat]
    <3>1. \A m \in Message : editor[m] + (IF m \in S THEN 1 ELSE 0) \in Nat
      BY DEF TypeOK
    <3> QED
      BY <1>3, <3>1
  <2>2. /\ phase' = [phase EXCEPT ![p] = "done"] /\ staged' = [staged EXCEPT ![p] = S]
        /\ pins' = pins \ {p} /\ keep' = keep
        /\ \A m \in Message : editor'[m] = editor[m] + IF m \in S THEN 1 ELSE 0
    BY <1>3
  <2> QED
    BY <1>3, <2>1, <2>2 DEF TypeOK
<1> QED
  BY <1>1, <1>2, <1>3

(* A pull-back may keep the rows that the Host removed for it, the last    *)
(* one by this step, and those that are unsure.                            *)
LEMMA FinishKeeps ==
  ASSUME IInv, NEW p \in Pull, phase[p] = "removing",
         NEW S \in SUBSET Message, Finish(p, S),
         UNCHANGED <<tasks, session, taken, rows, subject>>,
         queue' \subseteq queue,
         \A q \in Pull \ {p} : gone'[q] = gone[q],
         unsure \subseteq unsure',
         \A m \in S \ unsure' : m \in gone[p] \union (queue \ queue')
  PROVE  WriteInv' /\ PullInv' /\ PlaceInv' /\ DraftInv'
<1> USE DEF IInv
<1> DEFINE Deferred == /\ ~disposed /\ Pending /\ phase'[p] = "deferred"
                       /\ keep'[p] = S /\ staged'[p] = S /\ editor' = editor
           Ended == \/ disposed /\ phase'[p] = "done" /\ editor' = editor
                    \/ /\ ~disposed /\ phase'[p] = "done" /\ staged'[p] = S
                       /\ \A m \in Message : editor'[m] = editor[m] + IF m \in S THEN 1 ELSE 0
<1>1. /\ \A q \in Pull \ {p} : /\ phase'[q] = phase[q] /\ keep'[q] = keep[q]
                               /\ staged'[q] = staged[q] /\ gone'[q] = gone[q]
      /\ Deferred \/ Ended
  BY FinishFacts
<1>2. /\ \A m \in Message : editor[m] \in Nat /\ editor'[m] \in Nat
      /\ phase'[p] \in {"deferred", "done"}
  <2>1. editor' \in [Message -> Nat]
    BY FinishFacts
  <2> QED
    BY <1>1, <2>1 DEF TypeOK
<1>3. WriteInv'
  <2>1. owner = 0 /\ \A t \in Task : ~(pc[t] = "leaving" /\ kind[t] = "preset")
    BY DEF WriteInv, Busy
  <2>2. Pending => line # <<>>
    <3>1. ASSUME NEW t \in Task, pc[t] \in InSection PROVE line # <<>>
      BY <3>1, StartedIsHead DEF Started, TypeOK
    <3> QED
      BY <3>1 DEF Pending, LineInv
  <2>3. RecallHasItsTransition'
    <3>1. CASE Deferred
      BY <2>2, <3>1 DEF RecallHasItsTransition, tasks
    <3>2. CASE Ended
      BY <1>1, <3>2 DEF WriteInv, RecallHasItsTransition, recalls, tasks
    <3> QED
      BY <1>1, <3>1, <3>2
  <2>4. (\A t \in Task : pc[t] = "body" => \A q \in Pull : phase[q] # "removing")'
    BY DEF WriteInv, tasks
  <2> QED
    BY <2>1, <2>3, <2>4 DEF WriteInv, tasks, session
<1>4. PullInv'
  BY <1>1, <1>2 DEF PullInv, TypeOK
<1>5. PlaceInv'
  <2> SUFFICES ASSUME NEW m \in Message \ unsure'
               PROVE  /\ \A q, r \in Pull : Holds(q, m)' /\ Holds(r, m)' => q = r
                      /\ \A q \in Pull : Holds(q, m)' =>
                            editor'[m] = 0 /\ m \notin queue' \union taken'
                      /\ editor'[m] <= 1
                      /\ editor'[m] = 1 => m \notin queue' \union taken'
    BY DEF PlaceInv
  <2>1. /\ \A q, r \in Pull : Holds(q, m) /\ Holds(r, m) => q = r
        /\ \A q \in Pull : Holds(q, m) => editor[m] = 0 /\ m \notin queue \union taken
        /\ editor[m] <= 1
        /\ editor[m] = 1 => m \notin queue \union taken
    BY DEF PlaceInv
  <2>2. \A q \in Pull \ {p} : Holds(q, m)' <=> Holds(q, m)
    BY <1>1 DEF Holds
  <2>3. Holds(p, m)' => Deferred /\ m \in S
    BY <1>1, <1>2 DEF Holds
  <2>4. m \in S => /\ editor[m] = 0 /\ m \notin queue' \union taken'
                   /\ \A q \in Pull \ {p} : ~Holds(q, m)
    <3>1. CASE m \in gone[p]
      BY <2>1, <3>1 DEF Holds
    <3>2. CASE m \in queue \ queue'
      <4>1. m \notin taken
        BY <3>2 DEF PullInv
      <4> QED
        BY <1>2, <2>1, <3>2, <4>1
    <3> QED
      BY <3>1, <3>2
  <2>5. CASE editor'[m] = editor[m]
    BY <2>1, <2>2, <2>3, <2>4, <2>5
  <2>6. CASE editor'[m] # editor[m]
    <3>1. m \in S /\ Ended /\ editor'[m] = editor[m] + 1
      BY <1>1, <1>2, <2>6
    <3>2. \A q \in Pull : ~Holds(q, m)'
      BY <1>1, <2>2, <2>3, <2>4, <3>1
    <3> QED
      BY <2>4, <3>1, <3>2
  <2> QED
    BY <2>5, <2>6
<1>6. DraftInv'
  <2> SUFFICES ASSUME SameSession, NEW m \in Message
               PROVE  editor'[m] > 0 <=> \E q \in Pull : phase'[q] = "done" /\ m \in staged'[q]
    BY DEF DraftInv, SameSession, session
  <2>1. editor[m] > 0 <=> \E q \in Pull \ {p} : phase[q] = "done" /\ m \in staged[q]
    BY DEF DraftInv
  <2>2. CASE Deferred
    BY <1>1, <2>1, <2>2
  <2>3. CASE Ended
    <3>1. editor'[m] > 0 <=> editor[m] > 0 \/ m \in S
      BY <1>2, <2>3 DEF SameSession
    <3>2. phase'[p] = "done" /\ staged'[p] = S
      BY <2>3 DEF SameSession
    <3> QED
      BY <1>1, <2>1, <3>1, <3>2
  <2> QED
    BY <1>1, <2>2, <2>3
<1> QED
  BY <1>3, <1>4, <1>5, <1>6

-----------------------------------------------------------------------------
\* The transitions.

(* Every step of a transition but the request leaves IInv, given what it   *)
(* does to the line and to the ledger.                                     *)
LEMMA RequestKeeps ==
  ASSUME IInv, NEW t \in Task, NEW k \in Kind, Request(t, k)
  PROVE  IInv'
<1> USE DEF Request, session, host, pulls
<1>1. TypeOK'
  <2>1. line' \in Seq(Task)
    BY DEF IInv, TypeOK
  <2> QED
    BY <2>1 DEF IInv, TypeOK
<1>2. LineInv'
  BY RequestLine DEF IInv
<1>3. WriteInv'
  <2>1. \A u \in Task : /\ pc'[u] = IF u = t THEN "queued" ELSE pc[u]
                        /\ kind'[u] = IF u = t THEN k ELSE kind[u]
    BY DEF IInv, TypeOK
  <2>2. line' # <<>>
    BY DEF IInv, TypeOK
  <2> QED
    BY <2>1, <2>2 DEF IInv, WriteInv, RecallHasItsTransition, Busy
<1>4. PullInv' /\ PlaceInv' /\ DraftInv'
  BY DEF IInv, PullInv, PlaceInv, DraftInv, Holds, SameSession
<1> QED
  BY <1>1, <1>2, <1>3, <1>4 DEF IInv

(* The head moves on without touching a session or a pull-back.            *)
LEMMA QuietMoveKeeps ==
  ASSUME IInv, NEW t \in Task,
         NEW s \in {"stopping", "drain", "body", "leaving"},
         line' = line, kind' = kind, pc' = [pc EXCEPT ![t] = s],
         UNCHANGED <<session, host, editor, pulls>>,
         LineInv', frozen' \in BOOLEAN,
         s = "body" => \A p \in Pull : phase[p] # "removing",
         s = "leaving" => kind[t] # "preset"
  PROVE  IInv'
<1> USE DEF session, host, pulls
<1>1. TypeOK'
  BY DEF IInv, TypeOK
<1>2. \A u \in Task : pc'[u] = IF u = t THEN s ELSE pc[u]
  BY DEF IInv, TypeOK
<1>3. WriteInv'
  BY <1>2 DEF IInv, WriteInv, RecallHasItsTransition, recalls, Busy
<1>4. PullInv' /\ PlaceInv' /\ DraftInv'
  BY DEF IInv, PullInv, PlaceInv, DraftInv, Holds, SameSession
<1> QED
  BY <1>1, <1>3, <1>4 DEF IInv

LEMMA StartKeeps ==
  ASSUME IInv, NEW t \in Task, StartTask(t)
  PROVE  IInv'
<1>1. /\ Len(line) >= 1 /\ t = line[1]
      /\ \A u \in Task : pc[u] \notin Started
  BY CalledAlone DEF StartTask, IInv
<1>2. PICK s \in {"stopping", "drain"} : /\ pc' = [pc EXCEPT ![t] = s]
                                         /\ s = "stopping" => kind[t] = "navigation"
  BY DEF StartTask
<1>3. /\ line' = line /\ kind' = kind /\ frozen' = TRUE
      /\ UNCHANGED <<session, host, editor, pulls>>
  BY DEF StartTask
<1>4. LineInv'
  BY <1>1, <1>2, <1>3, HeadMoves DEF IInv
<1> QED
  BY <1>2, <1>3, <1>4, QuietMoveKeeps

LEMMA StopKeeps ==
  ASSUME IInv, NEW t \in Task, StopAccepted(t) \/ StopFails(t)
  PROVE  IInv'
<1>1. /\ Len(line) >= 1 /\ t = line[1]
      /\ \A u \in Task \ {t} : pc[u] \notin Started
      /\ frozen /\ kind[t] = "navigation"
  <2>1. pc[t] = "stopping"
    BY DEF StopAccepted, StopFails
  <2> QED
    BY <2>1, StartedIsHead DEF Started, InSection, IInv, LineInv
<1>2. PICK s \in {"drain", "leaving"} : /\ pc' = [pc EXCEPT ![t] = s]
                                        /\ frozen' = (s # "leaving")
  BY <1>1 DEF StopAccepted, StopFails, IInv, TypeOK
<1>3. /\ line' = line /\ kind' = kind
      /\ UNCHANGED <<session, host, editor, pulls>>
  BY DEF StopAccepted, StopFails
<1>4. LineInv'
  BY <1>1, <1>2, <1>3, HeadMoves DEF IInv
<1> QED
  BY <1>1, <1>2, <1>3, <1>4, QuietMoveKeeps

LEMMA DrainKeeps ==
  ASSUME IInv, NEW t \in Task, Drain(t)
  PROVE  IInv'
<1>1. /\ Len(line) >= 1 /\ t = line[1]
      /\ \A u \in Task \ {t} : pc[u] \notin Started
      /\ frozen
  BY StartedIsHead DEF Drain, Started, InSection, IInv, LineInv
<1>2. /\ line' = line /\ kind' = kind /\ pc' = [pc EXCEPT ![t] = "body"]
      /\ frozen' = ("body" # "leaving")
      /\ \A p \in Pull : phase[p] # "removing"
      /\ UNCHANGED <<session, host, editor, pulls>>
  BY <1>1 DEF Drain, IInv, TypeOK
<1>3. LineInv'
  BY <1>1, <1>2, HeadMoves DEF IInv
<1> QED
  BY <1>2, <1>3, QuietMoveKeeps

(* A step that settles the ledger leaves nobody in it.                     *)
LEMMA SettlingKeeps ==
  ASSUME IInv, NEW t \in Task, \E c \in BOOLEAN : SettleRecalls(c),
         NEW s \in {"leaving", "done"}, pc' = [pc EXCEPT ![t] = s], kind' = kind,
         LineInv', line' \in Seq(Task), frozen' \in BOOLEAN,
         owner' \in Nat, gen' \in Nat, disposed' = disposed,
         queue' \subseteq queue, taken' = taken,
         \/ owner' = owner
         \/ owner' # 0 /\ queue' = {} /\ \A p \in Pull : phase[p] # "removing",
         (s = "leaving" /\ kind[t] = "preset") => \A p \in Pull : phase[p] # "removing"
  PROVE  IInv'
<1>0. PICK c \in BOOLEAN : SettleRecalls(c)
  OBVIOUS
<1>1. /\ \A p \in Pull : phase'[p] = IF phase[p] = "deferred" THEN "done" ELSE phase[p]
      /\ recalls' = {}
  BY <1>0, SettleTypes DEF IInv
<1>2. TypeOK'
  BY <1>0, SettleTypes DEF IInv, TypeOK
<1>3. \A u \in Task : pc'[u] = IF u = t THEN s ELSE pc[u]
  BY DEF IInv, TypeOK
<1>4. WriteInv'
  BY <1>1, <1>3 DEF IInv, WriteInv, RecallHasItsTransition, Busy
<1>5. PullInv' /\ PlaceInv' /\ DraftInv'
  BY <1>0, SettleKeeps DEF IInv, TypeOK
<1> QED
  BY <1>2, <1>4, <1>5 DEF IInv

LEMMA NoOpKeeps ==
  ASSUME IInv, NEW t \in Task, StartNoOp(t)
  PROVE  IInv'
<1>1. /\ Len(line) >= 1 /\ t = line[1] /\ ~frozen
      /\ \A u \in Task : pc[u] \notin Started
  BY CalledAlone DEF StartNoOp, IInv
<1>2. /\ line' = line /\ kind' = kind /\ pc' = [pc EXCEPT ![t] = "leaving"]
      /\ frozen' = FALSE
      /\ UNCHANGED <<session, host>>
      /\ kind[t] = "navigation"
  BY <1>1 DEF StartNoOp, IInv, TypeOK
<1>3. LineInv'
  BY <1>1, <1>2, HeadMoves DEF IInv
<1>4. /\ line' \in Seq(Task) /\ owner' \in Nat /\ gen' \in Nat
      /\ disposed' = disposed /\ owner' = owner
      /\ queue' \subseteq queue /\ taken' = taken
  BY <1>2 DEF session, host, IInv, TypeOK
<1>5. \E c \in BOOLEAN : SettleRecalls(c)
  BY Zenon DEF StartNoOp
<1> QED
  BY <1>2, <1>3, <1>4, <1>5, SettlingKeeps

LEMMA BodyIsHead ==
  ASSUME IInv, NEW t \in Task, LeaveBody(t)
  PROVE  /\ LineInv' /\ line' \in Seq(Task) /\ kind' = kind
         /\ frozen' = FALSE /\ pc' = [pc EXCEPT ![t] = "leaving"]
         /\ \A p \in Pull : phase[p] # "removing"
<1>1. /\ Len(line) >= 1 /\ t = line[1]
      /\ \A u \in Task \ {t} : pc[u] \notin Started
  BY StartedIsHead DEF LeaveBody, Started, InSection, IInv
<1>2. /\ line' = line /\ kind' = kind /\ pc' = [pc EXCEPT ![t] = "leaving"]
      /\ frozen' = ("leaving" # "leaving")
  BY DEF LeaveBody
<1>3. LineInv'
  BY <1>1, <1>2, HeadMoves DEF IInv
<1> QED
  BY <1>2, <1>3 DEF LeaveBody, IInv, TypeOK, WriteInv

(* A fork that fails leaves the ledger alone; its own reaction settles it. *)
LEMMA UnsettledKeeps ==
  ASSUME IInv, NEW t \in Task, LeaveBody(t), kind[t] = "fork",
         UNCHANGED <<owner, disposed, host, editor, pulls>>, gen' \in Nat
  PROVE  IInv'
<1> USE DEF host, pulls
<1>1. /\ LineInv' /\ line' \in Seq(Task) /\ kind' = kind /\ line' = line
      /\ frozen' = FALSE /\ pc' = [pc EXCEPT ![t] = "leaving"]
  BY BodyIsHead DEF LeaveBody
<1>2. TypeOK'
  BY <1>1 DEF IInv, TypeOK
<1>3. \A u \in Task : pc'[u] = IF u = t THEN "leaving" ELSE pc[u]
  BY <1>1 DEF IInv, TypeOK
<1>4. WriteInv'
  BY <1>1, <1>3 DEF IInv, WriteInv, RecallHasItsTransition, recalls, Busy
<1>5. PullInv' /\ PlaceInv' /\ DraftInv'
  BY DEF IInv, PullInv, PlaceInv, DraftInv, Holds, SameSession
<1> QED
  BY <1>1, <1>2, <1>4, <1>5 DEF IInv

LEMMA BodyKeeps ==
  ASSUME IInv, NEW t \in Task, BodyEnds(t) \/ CommitThrows(t) \/ Commit(t)
  PROVE  IInv'
<1>1. LeaveBody(t)
  BY DEF BodyEnds, CommitThrows, Commit, Commits
<1>2. owner \in Nat /\ gen \in Nat /\ gen + 1 \in Nat /\ owner + 1 \in Nat /\ owner + 1 # 0
  BY DEF IInv, TypeOK
<1>3. CASE Commit(t)
  <2>1. \E c \in BOOLEAN : SettleRecalls(c)
    BY <1>3, Zenon DEF Commit
  <2> QED
    BY <1>1, <1>2, <1>3, <2>1, BodyIsHead, SettlingKeeps DEF Commit
<1>4. CASE ~Commit(t)
  <2>1. /\ UNCHANGED <<owner, disposed, host>> /\ gen' \in Nat
        /\ IF kind[t] = "fork" THEN UNCHANGED <<editor, pulls>> ELSE SettleRecalls(FALSE)
    BY <1>2, <1>4 DEF BodyEnds, CommitThrows, session
  <2>2. CASE kind[t] = "fork"
    BY <1>1, <2>1, <2>2, UnsettledKeeps
  <2>3. CASE kind[t] # "fork"
    <3>1. /\ owner' \in Nat /\ disposed' = disposed /\ owner' = owner
          /\ queue' \subseteq queue /\ taken' = taken
      BY <1>2, <2>1 DEF host
    <3>2. \E c \in BOOLEAN : SettleRecalls(c)
      BY <2>1, <2>3, Zenon
    <3> QED
      BY <1>1, <2>1, <3>1, <3>2, BodyIsHead, SettlingKeeps
  <2> QED
    BY <2>2, <2>3
<1> QED
  BY <1>3, <1>4

(* The end of a preset finds the ledger as empty as its body left it.      *)
LEMMA EndTaskKeeps ==
  ASSUME IInv, NEW t \in Task, EndTask(t)
  PROVE  IInv'
<1>1. /\ LineInv' /\ line' \in Seq(Task) /\ kind' = kind /\ frozen' \in BOOLEAN
      /\ pc' = [pc EXCEPT ![t] = "done"] /\ pc[t] = "leaving"
      /\ UNCHANGED <<session, host>>
  <2>1. LineInv' /\ Len(line) >= 1
    BY EndTaskLine DEF IInv
  <2>2. line' \in Seq(Task)
    BY <2>1 DEF EndTask, IInv, TypeOK
  <2> QED
    BY <2>1, <2>2 DEF EndTask, IInv, TypeOK
<1>2. CASE kind[t] # "preset"
  <2>1. \E c \in BOOLEAN : SettleRecalls(c)
    BY <1>2, Zenon DEF EndTask
  <2>2. /\ owner' \in Nat /\ gen' \in Nat
        /\ disposed' = disposed /\ owner' = owner
        /\ queue' \subseteq queue /\ taken' = taken
    BY <1>1 DEF session, host, IInv, TypeOK
  <2> QED
    BY <1>1, <2>1, <2>2, SettlingKeeps
<1>3. CASE kind[t] = "preset"
  <2> USE DEF session, host, pulls
  <2>1. UNCHANGED <<editor, pulls>>
    BY <1>3 DEF EndTask
  <2>2. TypeOK'
    BY <1>1, <2>1 DEF IInv, TypeOK
  <2>3. \A u \in Task : pc'[u] = IF u = t THEN "done" ELSE pc[u]
    BY <1>1 DEF IInv, TypeOK
  <2>4. \A p \in Pull : ~Busy(p)
    BY <1>1, <1>3 DEF IInv, WriteInv
  <2>5. WriteInv'
    BY <1>1, <2>1, <2>3, <2>4 DEF IInv, WriteInv, RecallHasItsTransition, recalls, Busy
  <2>6. PullInv' /\ PlaceInv' /\ DraftInv'
    BY <1>1, <2>1 DEF IInv, PullInv, PlaceInv, DraftInv, Holds, SameSession
  <2> QED
    BY <1>1, <2>2, <2>5, <2>6 DEF IInv
<1> QED
  BY <1>2, <1>3

-----------------------------------------------------------------------------
\* The pull-backs, the Host and the exit.

LEMMA PullBackKeeps ==
  ASSUME IInv, NEW p \in Pull, PullBack(p)
  PROVE  IInv'
<1> USE DEF PullBack, Pressed, tasks, session, host
<1>1. TypeOK'
  BY DEF IInv, TypeOK
<1>2. /\ \A q \in Pull : phase'[q] = IF q = p THEN "removing" ELSE phase[q]
      /\ \A q \in Pull \ {p} : staged'[q] = staged[q] /\ rows'[q] = rows[q]
      /\ gone' = gone /\ keep' = keep
  BY DEF IInv, TypeOK
<1>3. LineInv'
  BY DEF IInv, LineInv
<1>4. WriteInv'
  <2>1. \A t \in Task : pc[t] # "body" /\ pc[t] # "leaving"
    BY DEF IInv, LineInv, InSection
  <2>2. owner = 0
    BY DEF IInv, WriteInv
  <2>3. recalls' = recalls
    BY <1>2 DEF recalls
  <2> QED
    BY <2>1, <2>2, <2>3 DEF IInv, WriteInv, RecallHasItsTransition
<1>5. PullInv'
  BY <1>2 DEF IInv, PullInv
<1>6. \A q \in Pull, m \in Message : Holds(q, m)' <=> Holds(q, m)
  BY <1>2 DEF IInv, PullInv, Holds
<1>7. PlaceInv'
  BY <1>6 DEF IInv, PlaceInv
<1>8. DraftInv'
  BY <1>2 DEF IInv, DraftInv, SameSession
<1> QED
  BY <1>1, <1>3, <1>4, <1>5, <1>7, <1>8 DEF IInv

LEMMA RefusedKeeps ==
  ASSUME IInv, NEW p \in Pull, PullRefused(p)
  PROVE  IInv'
<1> USE DEF PullRefused, Pressed, tasks, session, host
<1>1. TypeOK'
  BY DEF IInv, TypeOK
<1>2. \A q \in Pull : phase'[q] = IF q = p THEN "done" ELSE phase[q]
  BY DEF IInv, TypeOK
<1>3. LineInv'
  BY DEF IInv, LineInv
<1>4. WriteInv'
  BY <1>2 DEF IInv, WriteInv, RecallHasItsTransition, recalls, Busy
<1>5. PullInv'
  BY <1>2 DEF IInv, PullInv
<1>6. \A q \in Pull, m \in Message : Holds(q, m)' <=> Holds(q, m)
  BY <1>2 DEF Holds
<1>7. PlaceInv'
  BY <1>6 DEF IInv, PlaceInv
<1>8. DraftInv'
  BY <1>2 DEF IInv, DraftInv, PullInv, SameSession
<1> QED
  BY <1>1, <1>3, <1>4, <1>5, <1>7, <1>8 DEF IInv

(* The Host removed the row: this pull-back holds it from now on.          *)
LEMMA RemovedKeeps ==
  ASSUME IInv, NEW p \in Pull, Removed(p)
  PROVE  IInv'
<1>1. PICK m \in queue :
        /\ Awaited(p, m)
        /\ queue' = queue \ {m}
        /\ gone' = [gone EXCEPT ![p] = @ \union {m}]
        /\ IF gone[p] \union {m} = rows[p]
             THEN Finish(p, rows[p])
             ELSE UNCHANGED <<editor, phase, keep, staged, pins>>
  BY DEF Removed
<1>2. /\ phase[p] = "removing"
      /\ UNCHANGED <<tasks, session, taken, rows, subject, unsure>>
  BY DEF Removed
<1>3. /\ m \in rows[p] \ gone[p] /\ m \in Message
      /\ gone'[p] = gone[p] \union {m} /\ gone' \in [Pull -> SUBSET Message]
      /\ \A q \in Pull \ {p} : gone'[q] = gone[q]
      /\ rows[p] \in SUBSET Message
  BY <1>1 DEF Awaited, IsOldest, IInv, TypeOK
<1>4. LineInv'
  BY <1>2 DEF IInv, LineInv, tasks
<1>5. CASE gone[p] \union {m} = rows[p]
  <2>1. Finish(p, rows[p])
    BY <1>1, <1>5
  <2>2. WriteInv' /\ PullInv' /\ PlaceInv' /\ DraftInv'
    BY <1>1, <1>2, <1>3, <1>5, <2>1, FinishKeeps
  <2>3. TypeOK'
    BY <1>1, <1>2, <1>3, <2>1, FinishFacts DEF IInv, TypeOK, tasks, session
  <2> QED
    BY <1>4, <2>2, <2>3 DEF IInv
<1>6. CASE gone[p] \union {m} # rows[p]
  <2> USE DEF tasks, session
  <2>1. UNCHANGED <<editor, phase, keep, staged, pins>>
    BY <1>1, <1>6
  <2>2. TypeOK'
    BY <1>1, <1>2, <1>3, <2>1 DEF IInv, TypeOK
  <2>3. WriteInv'
    BY <1>1, <1>2, <2>1 DEF IInv, WriteInv, RecallHasItsTransition, recalls, Busy
  <2>4. PullInv'
    BY <1>1, <1>2, <1>3, <2>1 DEF IInv, PullInv
  <2>5. PlaceInv'
    <3>1. \A q \in Pull, n \in Message :
            Holds(q, n)' <=> Holds(q, n) \/ (q = p /\ n = m)
      BY <1>2, <1>3, <2>1 DEF Holds
    <3>2. m \notin unsure => editor[m] = 0 /\ m \notin taken /\ \A q \in Pull : ~Holds(q, m)
      BY <1>1, <1>3 DEF IInv, TypeOK, PlaceInv, PullInv
    <3> QED
      BY <1>1, <1>2, <2>1, <3>1, <3>2 DEF IInv, PlaceInv
  <2>6. DraftInv'
    BY <1>2, <2>1 DEF IInv, DraftInv, SameSession
  <2> QED
    BY <1>4, <2>2, <2>3, <2>4, <2>5, <2>6 DEF IInv
<1> QED
  BY <1>5, <1>6

LEMMA NotRemovedKeeps ==
  ASSUME IInv, NEW p \in Pull, NotRemoved(p) \/ Unknown(p)
  PROVE  IInv'
<1>1. PICK S \in SUBSET Message :
        /\ Finish(p, S)
        /\ \A m \in S \ unsure' : m \in gone[p] \union (queue \ queue')
  <2>1. gone[p] \in SUBSET Message /\ rows[p] \in SUBSET Message
    BY DEF IInv, TypeOK
  <2> QED
    BY <2>1 DEF NotRemoved, Unknown, KeptOfRefusal, KeptOfUnknown
<1>2. /\ phase[p] = "removing"
      /\ UNCHANGED <<tasks, session, taken, rows, gone, subject>>
      /\ queue' \subseteq queue
      /\ unsure \subseteq unsure' /\ unsure' \in SUBSET Message
  BY DEF NotRemoved, Unknown, host, IInv, TypeOK
<1>3. LineInv'
  BY <1>2 DEF IInv, LineInv, tasks
<1>4. WriteInv' /\ PullInv' /\ PlaceInv' /\ DraftInv'
  BY <1>1, <1>2, FinishKeeps
<1>5. TypeOK'
  BY <1>1, <1>2, FinishFacts DEF IInv, TypeOK, tasks, session
<1> QED
  BY <1>3, <1>4, <1>5 DEF IInv

LEMMA HostKeeps ==
  ASSUME IInv, HostTakes
  PROVE  IInv'
<1> USE DEF tasks, session, pulls
<1>1. PICK m \in queue : queue' = queue \ {m} /\ taken' = taken \union {m}
  BY DEF HostTakes
<1>2. UNCHANGED <<tasks, session, editor, pulls>>
  BY DEF HostTakes
<1>3. TypeOK'
  BY <1>1, <1>2 DEF IInv, TypeOK
<1>4. LineInv' /\ WriteInv' /\ PullInv'
  BY <1>1, <1>2 DEF IInv, LineInv, WriteInv, RecallHasItsTransition, recalls, Busy, PullInv
<1>5. PlaceInv' /\ DraftInv'
  BY <1>1, <1>2 DEF IInv, PlaceInv, DraftInv, Holds, SameSession
<1> QED
  BY <1>3, <1>4, <1>5 DEF IInv

LEMMA DisposeKeeps ==
  ASSUME IInv, Dispose
  PROVE  IInv'
<1> USE DEF Dispose, tasks, host, pulls
<1>1. TypeOK'
  BY DEF IInv, TypeOK
<1>2. LineInv' /\ WriteInv' /\ PullInv'
  BY DEF IInv, LineInv, WriteInv, RecallHasItsTransition, recalls, Busy, PullInv
<1>3. PlaceInv' /\ DraftInv'
  BY DEF IInv, PlaceInv, DraftInv, Holds, SameSession
<1> QED
  BY <1>1, <1>2, <1>3 DEF IInv

LEMMA NextKeeps == IInv /\ [Next]_vars => IInv'
<1> SUFFICES ASSUME IInv, [Next]_vars PROVE IInv'
  OBVIOUS
<1>1. ASSUME NEW t \in Task, Proceed(t) PROVE IInv'
  BY <1>1, NoOpKeeps, StartKeeps, StopKeeps, DrainKeeps, BodyKeeps, EndTaskKeeps
     DEF Proceed
<1>2. ASSUME NEW p \in Pull, PullBack(p) \/ PullRefused(p) \/ Settles(p) PROVE IInv'
  BY <1>2, PullBackKeeps, RefusedKeeps, RemovedKeeps, NotRemovedKeeps DEF Settles
<1>3. CASE UNCHANGED vars
  BY <1>3 DEF vars, IInv, TypeOK, LineInv, WriteInv, RecallHasItsTransition, recalls,
              Busy, PullInv, PlaceInv, DraftInv, Holds, SameSession
<1> QED
  BY <1>1, <1>2, <1>3, RequestKeeps, HostKeeps, DisposeKeeps DEF Next

(* The inductive invariant holds in every reachable state.                 *)
THEOREM Inductive == SafeSpec => []IInv
BY InitIInv, NextKeeps, PTL DEF SafeSpec

(* The type invariant, and with it that pinned are exactly the drafts of   *)
(* the pull-backs under way.                                               *)
THEOREM TypeCorrect == SafeSpec => []TypeOK
<1>1. IInv => TypeOK
  BY DEF IInv
<1> QED
  BY <1>1, Inductive, PTL

(* A text whose removal is certain is in one place at most.                *)
THEOREM NotTwice == SafeSpec => []NoTextTwice
<1>1. IInv => NoTextTwice
  BY DEF IInv, PlaceInv, NoTextTwice
<1> QED
  BY <1>1, Inductive, PTL

(* Nothing is parked in the ledger behind the last task of the gate.       *)
THEOREM RecallsAreSettled == SafeSpec => []RecallHasItsTransition
<1>1. IInv => RecallHasItsTransition
  BY DEF IInv, WriteInv
<1> QED
  BY <1>1, Inductive, PTL

(* The drafts kept alive are those the editor refers to.                   *)
THEOREM DraftsFollow == SafeSpec => []DraftsFollowTheEditor
<1>1. IInv => DraftsFollowTheEditor
  <2> SUFFICES ASSUME IInv, SameSession
               PROVE  {m \in Message : editor[m] > 0}
                        = UNION {staged[p] : p \in {q \in Pull : phase[q] = "done"}}
    BY DEF DraftsFollowTheEditor
  <2>1. \A m \in Message : editor[m] > 0
                             <=> \E p \in Pull : phase[p] = "done" /\ m \in staged[p]
    BY DEF IInv, DraftInv
  <2>2. \A p \in Pull : staged[p] \subseteq Message
    BY DEF IInv, TypeOK
  <2> QED
    BY <2>1, <2>2
<1> QED
  BY <1>1, Inductive, PTL

(* The editor only grows in the session in which Alt+Up was pressed.       *)
THEOREM StaysInItsSession == SafeSpec => NeverInAnotherSession
<1>1. ASSUME IInv, NEW c \in BOOLEAN, SettleRecalls(c), NEW m \in Message,
             editor'[m] > editor[m]
      PROVE  c = FALSE /\ owner = 0 /\ ~disposed
  <2>1. Back(c) \in SUBSET Pull /\ editor' = Restored(Back(c))
    BY <1>1 DEF SettleRecalls, Back, recalls
  <2>2. PICK p \in Back(c) : m \in keep[p]
    BY <1>1, <2>1, RestoredFacts DEF IInv
  <2>3. p \in Pull /\ phase[p] = "deferred" /\ ~c /\ ~disposed
    BY <2>2 DEF Back, recalls
  <2>4. owner = 0
    BY <1>1, <2>3 DEF IInv, WriteInv, Busy
  <2>5. c = FALSE
    BY <2>3, Zenon
  <2> QED
    BY <2>3, <2>4, <2>5
<1>2. ASSUME IInv, NEW p \in Pull, phase[p] = "removing", NEW S \in SUBSET Message,
             Finish(p, S), NEW m \in Message, editor'[m] > editor[m]
      PROVE  owner = 0 /\ ~disposed
  <2>1. editor[m] \in Nat
    BY <1>2 DEF IInv, TypeOK
  <2>2. owner = 0
    BY <1>2 DEF IInv, WriteInv, Busy
  <2>3. disposed => editor' = editor
    BY <1>2, FinishFacts DEF IInv
  <2> QED
    BY <1>2, <2>1, <2>2, <2>3
<1>3. IInv /\ [Next]_vars
        => [\A m \in Message : editor'[m] > editor[m] => owner' = 0 /\ ~disposed]_vars
  <2> SUFFICES ASSUME IInv, Next, NEW m \in Message, editor'[m] > editor[m]
               PROVE  owner' = 0 /\ ~disposed
    OBVIOUS
  <2>0. editor[m] \in Nat
    BY DEF IInv, TypeOK
  <2>1. ASSUME NEW t \in Task, Proceed(t) PROVE owner' = 0 /\ ~disposed
    <3>1. editor' # editor
      BY <2>0
    <3>2. ~(StartTask(t) \/ StopAccepted(t) \/ StopFails(t) \/ Drain(t))
      BY <3>1 DEF StartTask, StopAccepted, StopFails, Drain
    <3>3. PICK c \in BOOLEAN : SettleRecalls(c) /\ (c = FALSE => owner' = owner)
      <4>1. CASE Commit(t)
        BY <4>1, Zenon DEF Commit
      <4>2. CASE ~Commit(t)
        <5>1. SettleRecalls(FALSE) /\ owner' = owner
          BY <2>1, <3>1, <3>2, <4>2
             DEF Proceed, StartNoOp, BodyEnds, CommitThrows, EndTask, session
        <5> QED
          BY <5>1, Zenon
      <4> QED
        BY <4>1, <4>2
    <3> QED
      BY <1>1, <3>3
  <2>2. ASSUME NEW p \in Pull, Settles(p) PROVE owner' = 0 /\ ~disposed
    <3>1. editor' # editor
      BY <2>0
    <3>2. /\ phase[p] = "removing" /\ owner' = owner
          /\ \E S \in {gone[p], rows[p]} : Finish(p, S)
      BY <2>2, <3>1 DEF Settles, Removed, NotRemoved, Unknown, KeptOfRefusal,
                        KeptOfUnknown, session
    <3>3. {gone[p], rows[p]} \subseteq SUBSET Message
      BY DEF IInv, TypeOK
    <3> QED
      BY <1>2, <3>2, <3>3
  <2>3. ~\E t \in Task, k \in Kind : Request(t, k)
    BY <2>0 DEF Request
  <2>4. ~\E p \in Pull : PullBack(p) \/ PullRefused(p)
    BY <2>0 DEF PullBack, PullRefused
  <2>5. ~(HostTakes \/ Dispose)
    BY <2>0 DEF HostTakes, Dispose
  <2> QED
    BY <2>1, <2>2, <2>3, <2>4, <2>5 DEF Next
<1> QED
  BY <1>3, Inductive, PTL DEF SafeSpec, NeverInAnotherSession

-----------------------------------------------------------------------------
\* No text is lost.  Where a seam may throw behind the bump of the generation
\* this is false, as a run shows; that place is excluded here.

(* The subject of a pull-back under way is the session on the surface.     *)
KeptInv == /\ gen = owner
           /\ \A p \in Pull : Busy(p) => subject[p] = <<owner, gen>>
           /\ NoTextLost

LEMMA InitKept == Init => KeptInv
BY DEF Init, KeptInv, Busy, NoTextLost

(* Settled while the session stays, the ledger gives every text back.      *)
LEMMA AbortKept ==
  ASSUME IInv, KeptInv, SettleRecalls(FALSE),
         UNCHANGED <<owner, gen, disposed, host>>
  PROVE  KeptInv'
<1> USE DEF IInv, host
<1>0. PICK c \in BOOLEAN : SettleRecalls(c) /\ c = FALSE
  BY Zenon
<1>1. /\ \A p \in Pull : phase'[p] = IF phase[p] = "deferred" THEN "done" ELSE phase[p]
      /\ UNCHANGED <<gone, keep, subject>>
  BY <1>0, SettleTypes
<1>2. (\A p \in Pull : Busy(p) => subject[p] = <<owner, gen>>)'
  BY <1>1 DEF KeptInv, Busy
<1>3. NoTextLost'
  <2> SUFFICES ASSUME SameSession, NEW m \in Message, m \notin queue \union taken
               PROVE  editor'[m] > 0 \/ \E p \in Pull : Holds(p, m)'
    BY DEF NoTextLost, SameSession
  <2>1. Back(c) = recalls /\ recalls \in SUBSET Pull
    BY <1>0 DEF Back, SubjectIsCurrent, recalls, KeptInv, Busy, SameSession
  <2>2. editor[m] \in Nat /\ editor'[m] \in Nat /\ editor'[m] >= editor[m]
        /\ (editor'[m] > editor[m] <=> \E p \in recalls : m \in keep[p])
    <3>1. editor' = Restored(recalls)
      BY <1>0, <2>1 DEF SettleRecalls
    <3>2. editor[m] \in Nat
      BY DEF TypeOK
    <3>3. /\ Restored(recalls) \in [Message -> Nat]
          /\ Restored(recalls)[m] >= editor[m]
          /\ Restored(recalls)[m] > editor[m] <=> \E p \in recalls : m \in keep[p]
      BY <2>1, RestoredFacts
    <3> QED
      BY <3>1, <3>2, <3>3
  <2>3. CASE editor[m] > 0
    BY <2>2, <2>3
  <2>4. CASE \E p \in Pull : Holds(p, m)
    <3>1. PICK p \in Pull : Holds(p, m)
      BY <2>4
    <3>2. CASE phase[p] = "removing"
      <4>1. Holds(p, m)'
        BY <1>1, <3>1, <3>2 DEF Holds
      <4> QED
        BY <4>1
    <3>3. CASE phase[p] = "deferred"
      <4>1. p \in recalls /\ m \in keep[p]
        BY <3>1, <3>3 DEF Holds, recalls
      <4> QED
        BY <2>2, <4>1
    <3> QED
      BY <3>1, <3>2, <3>3 DEF Holds
  <2> QED
    BY <2>3, <2>4 DEF KeptInv, NoTextLost
<1> QED
  BY <1>2, <1>3 DEF KeptInv

LEMMA TaskKept ==
  ASSUME IInv, KeptInv, NEW t \in Task, Proceed(t), "afterBump" \notin Throws
  PROVE  KeptInv'
<1>1. CASE UNCHANGED <<owner, gen, disposed, host, editor, pulls>>
  BY <1>1 DEF host, pulls, KeptInv, Busy, NoTextLost, Holds, SameSession
<1>2. CASE SettleRecalls(FALSE) /\ UNCHANGED <<owner, gen, disposed, host>>
  BY <1>2, AbortKept
<1>3. CASE Commit(t)
  <2>1. owner' # 0 /\ gen' = owner'
    BY <1>3 DEF Commit, KeptInv, IInv, TypeOK
  <2>2. \A p \in Pull : phase[p] # "removing"
    BY <1>3, BodyIsHead DEF Commit, Commits
  <2>3. PICK c \in BOOLEAN : SettleRecalls(c)
    BY <1>3, Zenon DEF Commit
  <2>4. \A p \in Pull : ~Busy(p)'
    BY <2>2, <2>3, SettleTypes DEF Busy, IInv
  <2> QED
    BY <2>1, <2>4 DEF KeptInv, NoTextLost, SameSession
<1>4. CASE CommitThrows(t)
  <2>1. \A w \in Throws : w # "afterBump"
    OBVIOUS
  <2>2. gen' = gen
    BY <1>4, <2>1 DEF CommitThrows
  <2> QED
    BY <1>1, <1>2, <1>4, <2>2 DEF CommitThrows
<1>5. CASE StartTask(t) \/ StopAccepted(t) \/ StopFails(t) \/ Drain(t)
  BY <1>1, <1>5 DEF StartTask, StopAccepted, StopFails, Drain, session
<1>6. CASE StartNoOp(t) \/ BodyEnds(t) \/ EndTask(t)
  BY <1>1, <1>2, <1>6 DEF StartNoOp, BodyEnds, EndTask, session
<1> QED
  BY <1>3, <1>4, <1>5, <1>6 DEF Proceed

(* A pull-back keeps what was removed for it, and what may have been.      *)
LEMMA FinishKept ==
  ASSUME IInv, KeptInv, NEW p \in Pull, phase[p] = "removing",
         NEW S \in SUBSET Message, Finish(p, S),
         UNCHANGED <<session, taken, subject>>,
         \A q \in Pull \ {p} : gone'[q] = gone[q],
         gone[p] \union (queue \ queue') \subseteq S
  PROVE  KeptInv'
<1> USE DEF IInv, session
<1>1. /\ \A q \in Pull \ {p} : phase'[q] = phase[q] /\ keep'[q] = keep[q]
      /\ SameSession => /\ \A m \in Message : editor[m] \in Nat
                        /\ \/ /\ phase'[p] = "deferred" /\ keep'[p] = S
                              /\ editor' = editor
                           \/ \A m \in Message :
                                editor'[m] = editor[m] + IF m \in S THEN 1 ELSE 0
  BY FinishFacts DEF TypeOK, SameSession
<1>2. (\A q \in Pull : Busy(q) => subject[q] = <<owner, gen>>)'
  BY <1>1 DEF KeptInv, Busy
<1>3. NoTextLost'
  <2> SUFFICES ASSUME SameSession, NEW m \in Message, m \notin queue' \union taken'
               PROVE  editor'[m] > 0 \/ \E q \in Pull : Holds(q, m)'
    BY DEF NoTextLost, SameSession
  <2>1. \/ m \in queue \/ editor[m] > 0 \/ Holds(p, m)
        \/ \E q \in Pull \ {p} : Holds(q, m)
    BY DEF KeptInv, NoTextLost
  <2>2. m \in queue \/ Holds(p, m) => m \in S
    BY DEF Holds
  <2>3. m \in S => editor'[m] > 0 \/ Holds(p, m)'
    BY <1>1 DEF Holds
  <2>4. editor[m] > 0 => editor'[m] > 0
    BY <1>1
  <2>5. \A q \in Pull \ {p} : Holds(q, m) => Holds(q, m)'
    BY <1>1 DEF Holds
  <2> QED
    BY <2>1, <2>2, <2>3, <2>4, <2>5
<1> QED
  BY <1>2, <1>3 DEF KeptInv

LEMMA PullKept ==
  ASSUME IInv, KeptInv, NEW p \in Pull, PullBack(p) \/ PullRefused(p) \/ Settles(p)
  PROVE  KeptInv'
<1>0. /\ gone[p] \in SUBSET Message /\ rows[p] \in SUBSET Message
      /\ phase[p] = "removing" => gone[p] \subseteq rows[p]
  BY DEF IInv, TypeOK, PullInv
<1>1. CASE PullBack(p) \/ PullRefused(p)
  <2> USE DEF PullBack, PullRefused, Pressed, session, host
  <2>1. /\ \A q \in Pull \ {p} : phase'[q] = phase[q] /\ subject'[q] = subject[q]
        /\ phase[p] = "idle"
        /\ phase'[p] = "removing" => subject'[p] = <<owner, gen>>
        /\ phase'[p] \in {"removing", "done"}
        /\ UNCHANGED <<owner, gen, disposed, queue, taken, editor, gone, keep>>
    BY <1>1 DEF IInv, TypeOK
  <2>2. \A q \in Pull, m \in Message : Holds(q, m) => Holds(q, m)'
    BY <2>1 DEF Holds
  <2> QED
    BY <2>1, <2>2 DEF KeptInv, Busy, NoTextLost, SameSession
<1>2. CASE Removed(p)
  <2>1. PICK m \in queue :
          /\ Awaited(p, m)
          /\ queue' = queue \ {m}
          /\ gone' = [gone EXCEPT ![p] = @ \union {m}]
          /\ IF gone[p] \union {m} = rows[p]
               THEN Finish(p, rows[p])
               ELSE UNCHANGED <<editor, phase, keep, staged, pins>>
    BY <1>2 DEF Removed
  <2>2. /\ phase[p] = "removing"
        /\ UNCHANGED <<session, taken, subject>>
        /\ gone'[p] = gone[p] \union {m}
        /\ \A q \in Pull \ {p} : gone'[q] = gone[q]
    BY <1>2, <2>1 DEF Removed, IInv, TypeOK
  <2>3. CASE gone[p] \union {m} = rows[p]
    BY <1>0, <2>1, <2>2, <2>3, FinishKept
  <2>4. CASE gone[p] \union {m} # rows[p]
    <3>1. UNCHANGED <<editor, phase, keep>>
      BY <2>1, <2>4
    <3>2. \A q \in Pull, n \in Message : Holds(q, n) => Holds(q, n)'
      BY <2>2, <3>1 DEF Holds
    <3>3. Holds(p, m)'
      BY <2>2, <3>1 DEF Holds
    <3> QED
      BY <2>1, <2>2, <3>1, <3>2, <3>3 DEF KeptInv, Busy, NoTextLost, SameSession, session
  <2> QED
    BY <2>3, <2>4
<1>3. CASE NotRemoved(p)
  BY <1>0, <1>3, FinishKept DEF NotRemoved, KeptOfRefusal, host
<1>4. CASE Unknown(p)
  <2>1. queue \ queue' \subseteq rows[p]
    BY <1>4 DEF Unknown
  <2> QED
    BY <1>0, <1>4, <2>1, FinishKept DEF Unknown, KeptOfUnknown
<1> QED
  BY <1>1, <1>2, <1>3, <1>4 DEF Settles

LEMMA NextKept ==
  ASSUME "afterBump" \notin Throws
  PROVE  IInv /\ KeptInv /\ [Next]_vars => KeptInv'
<1> SUFFICES ASSUME IInv, KeptInv, [Next]_vars PROVE KeptInv'
  OBVIOUS
<1>1. CASE \E t \in Task, k \in Kind : Request(t, k)
  BY <1>1 DEF Request, session, host, pulls, KeptInv, Busy, NoTextLost, Holds, SameSession
<1>2. CASE HostTakes
  BY <1>2 DEF HostTakes, session, pulls, KeptInv, Busy, NoTextLost, Holds, SameSession
<1>3. CASE Dispose
  BY <1>3 DEF Dispose, pulls, KeptInv, Busy, NoTextLost, SameSession
<1>4. CASE UNCHANGED vars
  BY <1>4 DEF vars, KeptInv, Busy, NoTextLost, Holds, SameSession
<1> QED
  BY <1>1, <1>2, <1>3, <1>4, TaskKept, PullKept DEF Next

(* The text of a queued message is never nowhere while its session stays.  *)
THEOREM NotLost ==
  ASSUME "afterBump" \notin Throws
  PROVE  SafeSpec => []NoTextLost
<1>1. IInv /\ KeptInv /\ [Next]_vars => KeptInv'
  BY NextKept
<1>2. KeptInv => NoTextLost
  BY DEF KeptInv
<1> QED
  BY <1>1, <1>2, InitKept, Inductive, PTL DEF SafeSpec

-----------------------------------------------------------------------------
\* The refinement: a pull-back is one write, a transition one task.

Inside == {t \in Task : pc[t] = "body"}
Writing == {p \in Pull : phase[p] = "removing"}

LEMMA InitMaps == Init => Promise!Init
BY DEF Init, Promise!Init

LEMMA TaskMaps ==
  ASSUME IInv, NEW t \in Task, Proceed(t)
  PROVE  [Promise!Next]_Promise!vars
<1> USE DEF Inside, Writing
<1>1. Writing' = Writing
  <2>1. CASE StartTask(t) \/ StopAccepted(t) \/ StopFails(t) \/ Drain(t)
    BY <2>1 DEF StartTask, StopAccepted, StopFails, Drain, pulls
  <2>2. CASE UNCHANGED pulls
    BY <2>2 DEF pulls
  <2>3. CASE \E c \in BOOLEAN : SettleRecalls(c)
    <3>1. PICK c \in BOOLEAN : SettleRecalls(c)
      BY <2>3
    <3> QED
      BY <3>1, SettleTypes DEF IInv
  <2>4. CASE Commit(t)
    <3>1. \E c \in BOOLEAN : SettleRecalls(c)
      BY <2>4, Zenon DEF Commit
    <3> QED
      BY <2>3, <3>1
  <2>5. CASE StartNoOp(t) \/ BodyEnds(t) \/ CommitThrows(t) \/ EndTask(t)
    <3>1. UNCHANGED pulls \/ SettleRecalls(FALSE)
      BY <2>5 DEF StartNoOp, BodyEnds, CommitThrows, EndTask
    <3>2. UNCHANGED pulls \/ \E c \in BOOLEAN : SettleRecalls(c)
      BY <3>1, Zenon
    <3> QED
      BY <2>2, <2>3, <3>2
  <2> QED
    BY <2>1, <2>4, <2>5 DEF Proceed
<1>2. CASE StartNoOp(t) \/ StartTask(t) \/ StopAccepted(t) \/ StopFails(t)
  <2>1. line' = line /\ Inside' = Inside
    <3>1. PICK s \in {"leaving", "stopping", "drain"} : /\ pc' = [pc EXCEPT ![t] = s]
                                                        /\ pc[t] # "body"
      BY <1>2 DEF StartNoOp, StartTask, StopAccepted, StopFails, Called
    <3> QED
      BY <1>2, <3>1 DEF StartNoOp, StartTask, StopAccepted, StopFails, IInv, TypeOK
  <2> QED
    BY <1>1, <2>1 DEF Promise!vars
<1>3. CASE Drain(t)
  <2>1. /\ Len(line) >= 1 /\ t = line[1]
        /\ \A u \in Task \ {t} : pc[u] \notin Started
        /\ pc[t] = "drain"
    BY <1>3, StartedIsHead DEF Drain, Started, InSection, IInv
  <2>2. Inside = {} /\ Inside' = {t}
    BY <1>3, <2>1 DEF Drain, Started, InSection, IInv, TypeOK
  <2>3. line # <<>> /\ t = Head(line) /\ Writing = {} /\ line' = line
    BY <1>3, <2>1 DEF Drain, IInv, TypeOK
  <2>4. Promise!Enter(t)
    BY <1>1, <2>2, <2>3 DEF Promise!Enter
  <2> QED
    BY <2>4 DEF Promise!Next
<1>4. CASE BodyEnds(t) \/ CommitThrows(t) \/ Commit(t)
  <2>1. LeaveBody(t)
    BY <1>4 DEF BodyEnds, CommitThrows, Commit, Commits
  <2>2. t \in Inside /\ Inside' = Inside \ {t} /\ line' = line
    BY <2>1 DEF LeaveBody, IInv, TypeOK
  <2>3. Promise!Exit(t)
    BY <1>1, <2>2 DEF Promise!Exit
  <2> QED
    BY <2>3 DEF Promise!Next
<1>5. CASE EndTask(t)
  <2>1. Len(line) >= 1 /\ t = line[1]
    BY <1>5, EndTaskLine DEF IInv
  <2>2. line # <<>> /\ t = Head(line) /\ line' = Tail(line)
    BY <1>5, <2>1 DEF EndTask, IInv, TypeOK
  <2>3. Inside' = Inside /\ t \notin Inside
    BY <1>5 DEF EndTask, IInv, TypeOK
  <2>4. Promise!Settle(t)
    BY <1>1, <2>2, <2>3 DEF Promise!Settle
  <2> QED
    BY <2>4 DEF Promise!Next
<1> QED
  BY <1>2, <1>3, <1>4, <1>5 DEF Proceed

LEMMA PullMaps ==
  ASSUME IInv, NEW p \in Pull, PullBack(p) \/ PullRefused(p) \/ Settles(p)
  PROVE  [Promise!Next]_Promise!vars
<1> USE DEF Inside, Writing
<1>1. line' = line /\ Inside' = Inside
  BY DEF PullBack, PullRefused, Settles, Removed, NotRemoved, Unknown, tasks
<1>2. CASE PullBack(p)
  <2>1. Writing' = Writing \union {p} /\ p \notin Writing
    BY <1>2 DEF PullBack, Pressed, IInv, TypeOK
  <2>2. Inside = {}
    BY <1>2 DEF PullBack, IInv, LineInv, InSection
  <2>3. Promise!StartWrite(p)
    BY <1>1, <2>1, <2>2 DEF Promise!StartWrite
  <2> QED
    BY <2>3 DEF Promise!Next
<1>3. CASE PullRefused(p)
  <2>1. Writing' = Writing
    BY <1>3 DEF PullRefused, Pressed, IInv, TypeOK
  <2> QED
    BY <1>1, <2>1 DEF Promise!vars
<1>4. CASE Settles(p)
  <2>1. /\ phase[p] = "removing"
        /\ phase' = phase \/ \E S \in {gone[p], rows[p]} : Finish(p, S)
    BY <1>4 DEF Settles, Removed, NotRemoved, Unknown, KeptOfRefusal, KeptOfUnknown
  <2>2. CASE phase' = phase
    BY <1>1, <2>2 DEF Promise!vars
  <2>3. CASE phase' # phase
    <3>1. PICK S \in {gone[p], rows[p]} : Finish(p, S)
      BY <2>1, <2>3
    <3>2. S \in SUBSET Message
      BY DEF IInv, TypeOK
    <3>3. /\ phase'[p] \in {"deferred", "done"}
          /\ \A q \in Pull \ {p} : phase'[q] = phase[q]
      BY <2>1, <3>1, <3>2, FinishFacts DEF IInv
    <3>4. Writing' = Writing \ {p} /\ p \in Writing
      BY <2>1, <3>3
    <3>5. Promise!EndWrite(p)
      BY <1>1, <3>4 DEF Promise!EndWrite
    <3> QED
      BY <3>5 DEF Promise!Next
  <2> QED
    BY <2>2, <2>3
<1> QED
  BY <1>2, <1>3, <1>4

LEMMA StepMaps == IInv /\ [Next]_vars => [Promise!Next]_Promise!vars
<1> SUFFICES ASSUME IInv, [Next]_vars PROVE [Promise!Next]_Promise!vars
  OBVIOUS
<1> USE DEF Inside, Writing
<1>1. ASSUME NEW t \in Task, NEW k \in Kind, Request(t, k)
      PROVE  [Promise!Next]_Promise!vars
  <2>1. Inside' = Inside /\ Writing' = Writing
    BY <1>1 DEF Request, pulls, IInv, TypeOK
  <2>2. \A i \in DOMAIN line : line[i] # t
    BY <1>1 DEF Request, IInv, LineInv, TypeOK
  <2>3. Promise!Join(t)
    BY <1>1, <2>1, <2>2 DEF Request, Promise!Join
  <2> QED
    BY <2>3 DEF Promise!Next
<1>2. CASE HostTakes \/ Dispose \/ UNCHANGED vars
  BY <1>2 DEF HostTakes, Dispose, vars, tasks, pulls, Promise!vars
<1> QED
  BY <1>1, <1>2, TaskMaps, PullMaps DEF Next

(* The pull-backs and transitions keep the promise of the admission layer. *)
THEOREM Implements == SafeSpec => ImplementsExclusiveTransition
<1>1. SafeSpec => Promise!Init
  BY InitMaps DEF SafeSpec
<1>2. SafeSpec => [][Promise!Next]_Promise!vars
  BY Inductive, StepMaps, PTL DEF SafeSpec
<1> QED
  BY <1>1, <1>2 DEF ImplementsExclusiveTransition, Promise!Spec

=============================================================================
