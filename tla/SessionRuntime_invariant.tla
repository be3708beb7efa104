---------------------- MODULE SessionRuntime_invariant ----------------------
(***************************************************************************)
(* The inductive invariant of SessionRuntime, and the lemmas about it that *)
(* the proofs of its steps share.                                          *)
(***************************************************************************)
EXTENDS SessionRuntime, FiniteSetTheorems, TLAPS

-----------------------------------------------------------------------------
(* Where an intent can be.                                                 *)

Started == {"drain", "body", "resolved", "quiesce", "flushOld", "create",
            "awaitPin", "resuming", "creating", "commit", "releasing",
            "flushNew", "retireOld", "childIdle", "init", "leave",
            "retireCurrent", "retireParked"}
InGate == {"queued"} \union Started
Inside == Started \ {"drain"}

Early == {"queued", "drain", "body"}
Before == {"quiesce", "flushOld", "create", "awaitPin", "resuming", "creating", "commit"}
Published == {"flushNew", "retireOld", "childIdle", "init"}
Late == {"releasing", "leave", "done"} \union Published
Forking == {"forking", "attaching", "queued", "drain", "body"}
Ordinary == {"switch", "pick", "new"}

(* The line holds each transition under way once; only its head has        *)
(* started, and the barrier is frozen exactly while it has.                *)
LineInv == /\ \A i, j \in 1..Len(line) : line[i] = line[j] => i = j
           /\ \A t \in Task : pc[t] \in InGate <=> \E i \in 1..Len(line) : line[i] = t
           /\ \A i \in 2..Len(line) : pc[line[i]] = "queued"
           /\ frozen <=> \E t \in Task : pc[t] \in Started

(* The steps an intent of each kind goes through.                          *)
PathInv ==
  /\ \A p \in Op :
       /\ kind[p] = "none" => pc[p] = "idle"
       /\ kind[p] \in {"switch", "pick"} =>
            pc[p] \in ({"chosen"} \union Early \union Before \union Late) \ {"creating"}
       /\ kind[p] = "pick" => pc[p] # "chosen"
       /\ kind[p] = "new" =>
            pc[p] \in ({"chosen", "resolved"} \union Early \union Before \union Late)
                        \ {"awaitPin", "resuming"}
       /\ kind[p] = "first" =>
            pc[p] \in {"resolved", "creating", "commit", "childIdle", "init", "leave", "done"}
                        \union Early
       /\ kind[p] = "fork" =>
            pc[p] \in ({"chosen", "forking", "attaching"} \union Early \union Late) \ {"flushNew"}
       /\ kind[p] = "plain" => pc[p] \in {"done"} \union Early
       /\ kind[p] \in Kinds \union {"none"}
  /\ pc[Exit] \in {"running", "cleanup", "prepared", "forks", "settlements", "sources",
                   "retireCurrent", "retireParked", "done"} \union Early

(* Owners are born in order, at most one for each intent, and so are the   *)
(* sessions: there is always one left for an intent that has none.         *)
Users == {p \in Op : next[p] # None}
Born == {o \in Owner : life[o] # "unborn"}

CountInv == /\ Born = 1..Cardinality(Born)
            /\ Cardinality(Born) <= 1 + Cardinality(Users)
            /\ sessions <= Stored + Cardinality(Users)

(* What an intent holds where it is.                                       *)
LocalInv ==
  \A p \in Op :
    /\ pc[p] \in {"commit", "releasing"} \union Published => next[p] # None
    /\ kind[p] = "fork" /\ pc[p] \in {"attaching"} \union Early => next[p] # None
    /\ kind[p] = "fork" /\ pc[p] \in {"chosen", "forking"} => next[p] = None
    /\ kind[p] # "fork" /\ pc[p] \in {"idle", "chosen", "resolved"} \union Early
                                      \union (Before \ {"commit"}) => next[p] = None
    /\ kind[p] \in Ordinary /\ pc[p] \in Before => old[p] = cur
    /\ pc[p] \in {"quiesce", "flushOld", "retireOld"} => old[p] # None
    /\ kind[p] = "first" /\ pc[p] \in {"creating", "commit"} => cur = None
    /\ pc[p] \in Published => next[p] = cur
    /\ kind[p] = "fork" => cur # None
    /\ target[p] <= sessions

-----------------------------------------------------------------------------
(* Who answers for a live owner.                                           *)

(* An intent carries an owner that it has acquired and not yet published;  *)
(* it leaves one that it has replaced and not yet begun to retire.         *)
Carriers == {p \in Op : next[p] # None /\ pc[p] \in {"attaching", "commit"} \union Early}
Leavers == {p \in Op : old[p] # None /\ (pc[p] = "flushNew" \/ p \in deferred)}
Retiring(o) == ret[o] \notin {"no", "done"}

(* An owner ends when its retirement does, nobody retires it twice, and no *)
(* two live owners are of the same session.                                *)
OwnerInv ==
  /\ \A o \in Owner : /\ ret[o] # "twice"
                      /\ ret[o] = "done" <=> life[o] = "gone"
                      /\ life[o] = "unborn" => ret[o] = "no"
                      /\ life[o] # "unborn" => sess[o] \in 1..sessions
  /\ \A o, x \in Owner : life[o] = "held" /\ life[x] = "held" /\ sess[o] = sess[x] => o = x
  /\ cur # None => life[cur] # "unborn"

Spare(o) == life[o] = "held" /\ ret[o] = "no" /\ o # cur

(* Who answers for a live owner that is not being retired: the surface,    *)
(* the pool, a carrier or a leaver, and never two of them.                 *)
KeeperInv ==
  /\ \A o \in parked : Spare(o)
  /\ \A p \in Carriers : Spare(next[p]) /\ next[p] \notin parked
  /\ \A p, q \in Carriers : next[p] = next[q] => p = q
  /\ \A p \in Leavers : Spare(old[p]) /\ old[p] \notin parked
  /\ \A p, q \in Leavers : old[p] = old[q] => p = q
  /\ \A p \in Carriers, q \in Leavers : next[p] # old[q]
  /\ \A o \in Owner : life[o] = "held" /\ ret[o] = "no" =>
       \/ o = cur \/ o \in parked
       \/ \E p \in Carriers : next[p] = o
       \/ \E p \in Leavers : old[p] = o

(* Whoever began a retirement that goes on has not lost sight of it.       *)
RetireInv ==
  \A o \in Owner : Retiring(o) =>
     \/ \E p \in Op : pc[p] = "retireOld" /\ old[p] = o
     \/ \E p \in Op : pc[p] = "releasing" /\ next[p] = o
     \/ \E p \in handed : old[p] = o
     \/ pc[Exit] \in {"retireCurrent", "retireParked"}

(* A fork keeps its pin until the source it replaced is retired, whether   *)
(* the retirement waits for the window of a command or is under way.       *)
ForkInv ==
  /\ \A p \in pins : kind[p] = "fork"
  /\ \A p \in Op : kind[p] = "fork" /\ pc[p] \in Forking => p \in pins
  /\ \A p \in deferred \union handed :
       /\ kind[p] = "fork" /\ pc[p] \in {"retireOld", "childIdle", "init", "leave", "done"}
       /\ p \in pins /\ old[p] # None /\ seen[p].session = sess[old[p]]
  /\ \A p \in handed : Retiring(old[p]) /\ p \notin deferred
  /\ \A p \in window : kind[p] \in {"switch", "new", "fork"}
  /\ \A p \in window : kind[p] = "fork" => pc[p] # "chosen"
  /\ \A p, q \in window : p = q
  /\ deferred # {} => window # {}

-----------------------------------------------------------------------------
(* How far the exit has got: no fork is out, then no window is open, and at *)
(* the end nothing is under way and no owner is live.                      *)
ExitInv ==
  /\ exiting <=> pc[Exit] # "running"
  /\ pc[Exit] \in {"settlements", "sources", "retireCurrent", "retireParked", "done"}
                    \union Early
       => PendingForks = {}
  /\ pc[Exit] \in {"sources", "retireCurrent", "retireParked", "done"} \union Early
       => window = {}
  /\ pc[Exit] = "done" =>
       /\ \A p \in Op : pc[p] \in {"idle", "chosen", "leave", "done"} \union Early
       /\ \A o \in Owner : life[o] # "held"
  /\ cur # None /\ ret[cur] # "no" => pc[Exit] \in {"retireCurrent", "retireParked", "done"}
  /\ pc[Exit] = "retireCurrent" => cur # None
  /\ cur # None /\ pc[Exit] = "retireParked" => ret[cur] = "done"

(* An Agent that the exit has cancelled is not there to be published or    *)
(* claimed, so nothing cancels it a second time.                           *)
CancelInv ==
  /\ ~exiting => cancelled = {} /\ \A o \in Owner : late[o] = 0
  /\ \A o \in cancelled : /\ life[o] # "unborn" /\ o \notin parked
                          /\ \A p \in Carriers : next[p] # o
  /\ \A o \in Owner : late[o] <= 1 /\ (late[o] = 1 => o \in cancelled \/ ret[o] # "no")

(* The barrier has drained before a transition touches the owner.          *)
WriteInv == /\ \A t \in Task : pc[t] \in Inside => \A w \in Writer : writing[w] = None
            /\ WritesKeepTheirOwner

(* A capture is of the past of the surface; nobody has seen the owner that *)
(* the pool or a carrier has, nor the session of the child of a fork.      *)
SeenInv ==
  /\ \A p \in Op : /\ seen[p].epoch <= epoch
                   /\ seen[p].session = SessionOf(seen[p].own)
                   /\ seen[p].own # None => life[seen[p].own] # "unborn"
                   /\ seen[p].own \notin parked
  /\ \A p \in Op, q \in Carriers : seen[p].own # next[q]
  /\ \A p \in Op, q \in Carriers : kind[q] = "fork" => seen[p].session # sess[next[q]]

(* A navigation in the gate still has the surface it was asked on.         *)
ScopeInv ==
  \A p \in Op :
    /\ kind[p] \in {"switch", "pick"} /\ pc[p] \in Before \union {"drain", "body"}
         => IsScopeCurrent(seen[p])
    /\ kind[p] \in {"switch", "pick"} /\ pc[p] \in (Before \ {"commit"}) \union {"drain", "body"}
         => target[p] # SessionOf(cur)
    /\ kind[p] \in {"switch", "pick"} /\ pc[p] \in (Before \ {"commit"}) \union Early
         => target[p] # None
    /\ kind[p] = "new" /\ pc[p] \in Before \union {"resolved"} => IsScopeCurrent(seen[p])
    /\ kind[p] = "new" /\ pc[p] \in {"drain", "body"} /\ ~exiting => IsScopeCurrent(seen[p])

Navigating == \E p \in Op : kind[p] \in Ordinary /\ pc[p] \in Before
ForksOut == {p \in Op : kind[p] = "fork" /\ pc[p] \in Forking}
Watching == {p \in Op : kind[p] = "fork" /\ pc[p] \in Forking \union {"chosen"}}

(* A fork's capture stands for its owner: with the epoch and the session   *)
(* the owner is the same.  No two forks have the same epoch.               *)
EpochInv ==
  /\ \A q \in Watching :
       seen[q].epoch = epoch /\ (Navigating \/ seen[q].session = SessionOf(cur))
         => seen[q].own = cur
  /\ \A p, q \in ForksOut : seen[p].epoch = seen[q].epoch => p = q

(* A navigation that has looked in the pool finds no owner of its session  *)
(* there later, but the late child of a fork.                              *)
PinInv ==
  \A p \in Op :
    /\ pc[p] \in {"awaitPin", "resuming"} =>
         \A o \in parked : sess[o] = target[p] => \E q \in Op : kind[q] = "fork" /\ next[q] = o
    /\ pc[p] = "resuming" => ~Pinned(target[p])

(* Where no session is picked without the surface being looked at again,   *)
(* behind a switch comes no fork of another surface, and a command that    *)
(* holds back a retirement is not behind a switch either.                  *)
GateInv == "pick" \notin Kinds =>
  /\ \A i, j \in 1..Len(line) :
       i < j /\ line[i] \in Op /\ line[j] \in Op /\ kind[line[i]] = "switch"
         /\ kind[line[j]] = "fork" /\ seen[line[i]].own = cur
       => seen[line[j]].session = SessionOf(cur)
  /\ deferred # {} => \A r \in window :
       /\ kind[r] \in {"switch", "new"} => seen[r].own # cur
       /\ r \in ForksOut => seen[r].epoch # epoch
       /\ \A i, j \in 1..Len(line) :
            i < j /\ line[i] \in Op /\ line[j] = r /\ kind[line[i]] = "switch"
              => seen[line[i]].own # cur

(* The inductive invariant.                                                *)
IInv == /\ TypeOK /\ LineInv /\ PathInv /\ CountInv /\ LocalInv
        /\ OwnerInv /\ KeeperInv /\ RetireInv /\ ForkInv
        /\ ExitInv /\ CancelInv /\ WriteInv
        /\ SeenInv /\ ScopeInv /\ EpochInv /\ PinInv /\ GateInv

-----------------------------------------------------------------------------
(* No owner is called None, and the exit is a task that is no intent.      *)
LEMMA OwnerFacts ==
  None \notin Owner /\ Exit \in Task /\ \A p \in Op : p \in Task /\ p # Exit
BY ExitAssumption DEF Owner, None, Task

(* What a move of one task does to the program counters.                   *)
LEMMA GotoFacts ==
  ASSUME TypeOK, NEW t \in Task, NEW s, Goto(t, s)
  PROVE  pc'[t] = s /\ \A u \in Task \ {t} : pc'[u] = pc[u]
BY DEF TypeOK, Goto

(* A transition that has started is the head of the line, hence alone.     *)
LEMMA StartedIsHead ==
  ASSUME TypeOK, LineInv, NEW t \in Task, pc[t] \in Started
  PROVE  /\ Len(line) >= 1
         /\ t = line[1]
         /\ \A u \in Task \ {t} : pc[u] \notin Started
<1>1. ASSUME NEW u \in Task, pc[u] \in Started
      PROVE  Len(line) >= 1 /\ u = line[1]
  <2>1. pc[u] \in InGate /\ pc[u] # "queued"
    BY <1>1 DEF Started, InGate
  <2>2. PICK i \in 1..Len(line) : line[i] = u
    BY <2>1 DEF LineInv
  <2>3. i = 1
    BY <2>1, <2>2 DEF TypeOK, LineInv
  <2> QED
    BY <2>2, <2>3 DEF TypeOK
<1> QED
  BY <1>1

(* Nobody has started when a task is called.                               *)
LEMMA CalledAlone ==
  ASSUME TypeOK, LineInv, NEW t \in Task, IsHead(t)
  PROVE  /\ Len(line) >= 1
         /\ t = line[1]
         /\ pc[t] = "queued"
         /\ \A u \in Task : pc[u] \notin Started
<1>1. Len(line) >= 1 /\ t = line[1] /\ pc[t] = "queued"
  BY DEF IsHead, At, TypeOK
<1> QED
  BY <1>1, StartedIsHead DEF Started

-----------------------------------------------------------------------------
\* The line.

(* A step that moves nobody leaves the line as it is.                      *)
LEMMA LineFrame == ASSUME LineInv, UNCHANGED <<line, frozen, pc>> PROVE LineInv'
BY DEF LineInv

(* A task that has started goes on.                                        *)
LEMMA LineWalks ==
  ASSUME TypeOK, LineInv, NEW t \in Task, NEW s \in Started,
         pc[t] \in Started, Goto(t, s), line' = line, frozen' = frozen
  PROVE  LineInv'
<1>1. \A u \in Task : pc'[u] = IF u = t THEN s ELSE pc[u]
  BY GotoFacts
<1>2. \A u \in Task : /\ pc'[u] \in InGate <=> pc[u] \in InGate
                      /\ pc'[u] \in Started <=> pc[u] \in Started
                      /\ pc[u] = "queued" => pc'[u] = "queued"
  BY <1>1 DEF InGate, Started
<1>3. \A i \in 1..Len(line) : line[i] \in Task
  BY DEF TypeOK
<1> HIDE DEF Started, InGate
<1> QED
  BY <1>2, <1>3 DEF LineInv

(* The head of the line starts.                                            *)
LEMMA LineStarts ==
  ASSUME TypeOK, LineInv, NEW t \in Task, IsHead(t), Goto(t, "drain"),
         line' = line, frozen' = TRUE
  PROVE  LineInv'
<1>1. Len(line) >= 1 /\ t = line[1] /\ pc[t] = "queued"
  BY CalledAlone
<1>2. \A u \in Task : pc'[u] = IF u = t THEN "drain" ELSE pc[u]
  BY GotoFacts
<1>3. \A u \in Task : pc'[u] \in InGate <=> pc[u] \in InGate
  BY <1>1, <1>2 DEF InGate, Started
<1>4. \A i \in 2..Len(line) : line[i] \in Task /\ line[i] # t
  BY <1>1 DEF TypeOK, LineInv
<1>5. \A i \in 2..Len(line') : pc'[line'[i]] = "queued"
  BY <1>2, <1>4 DEF LineInv
<1>6. \E u \in Task : pc'[u] \in Started
  BY <1>2 DEF Started
<1> QED
  BY <1>3, <1>5, <1>6 DEF LineInv

(* The head of the line leaves it.                                         *)
LEMMA LineEnds ==
  ASSUME TypeOK, LineInv, NEW t \in Task, IsHead(t) \/ pc[t] \in Started,
         Goto(t, "done"), line' = Tail(line), frozen' = FALSE
  PROVE  LineInv'
<1>1. /\ Len(line) >= 1
      /\ t = line[1]
      /\ \A u \in Task \ {t} : pc[u] \notin Started
  BY StartedIsHead, CalledAlone
<1>2. /\ Len(line') = Len(line) - 1
      /\ \A i \in 1..Len(line') : line'[i] = line[i + 1]
  BY <1>1 DEF TypeOK
<1>3. \A u \in Task : pc'[u] = IF u = t THEN "done" ELSE pc[u]
  BY GotoFacts
<1>4. (\A i, j \in 1..Len(line) : line[i] = line[j] => i = j)'
  BY <1>2 DEF LineInv, TypeOK
<1>5. ASSUME NEW u \in Task
      PROVE  pc'[u] \in InGate <=> \E i \in 1..Len(line') : line'[i] = u
  <2>1. CASE u = t
    <3>1. \A i \in 1..Len(line') : line'[i] # t
      BY <1>1, <1>2 DEF LineInv, TypeOK
    <3> QED
      BY <1>3, <2>1, <3>1 DEF InGate, Started
  <2>2. CASE u # t
    <3>1. ASSUME NEW i \in 1..Len(line), line[i] = u
          PROVE  \E j \in 1..Len(line') : line'[j] = u
      <4>1. i - 1 \in 1..Len(line') /\ line'[i - 1] = u
        BY <1>1, <1>2, <2>2, <3>1 DEF TypeOK
      <4> QED
        BY <4>1
    <3>2. ASSUME NEW j \in 1..Len(line'), line'[j] = u
          PROVE  \E i \in 1..Len(line) : line[i] = u
      <4>1. j + 1 \in 1..Len(line) /\ line[j + 1] = u
        BY <1>2, <3>2 DEF TypeOK
      <4> QED
        BY <4>1
    <3>3. pc'[u] = pc[u]
      BY <1>3, <2>2
    <3> QED
      BY <3>1, <3>2, <3>3 DEF LineInv
  <2> QED
    BY <2>1, <2>2
<1>6. ASSUME NEW i \in 2..Len(line')
      PROVE  pc'[line'[i]] = "queued"
  <2>1. /\ i + 1 \in 2..Len(line)
        /\ line'[i] = line[i + 1]
        /\ line[i + 1] # t /\ line[i + 1] \in Task
    BY <1>1, <1>2 DEF LineInv, TypeOK
  <2> QED
    BY <1>3, <2>1 DEF LineInv, TypeOK
<1>7. ~frozen' /\ \A u \in Task : pc'[u] \notin Started
  BY <1>1, <1>3 DEF Started
<1> HIDE DEF Started, InGate
<1> QED
  BY <1>4, <1>5, <1>6, <1>7 DEF LineInv

(* A task joins the line.                                                  *)
LEMMA LineEnters ==
  ASSUME TypeOK, LineInv, NEW t \in Task, pc[t] \notin InGate,
         Enqueue(t), frozen' = frozen
  PROVE  LineInv'
<1>1. /\ Len(line) \in Nat
      /\ Len(line') = Len(line) + 1
      /\ \A i \in 1..Len(line) : line'[i] = line[i]
      /\ line'[Len(line')] = t
  BY DEF TypeOK, Enqueue
<1>2. \A i \in 1..Len(line) : line[i] # t /\ line[i] \in Task
  BY DEF LineInv, TypeOK
<1>3. \A u \in Task : pc'[u] = IF u = t THEN "queued" ELSE pc[u]
  <2>1. Goto(t, "queued")
    BY DEF Enqueue
  <2> QED
    BY <2>1, GotoFacts
<1>4. ASSUME NEW i \in 1..Len(line'), NEW j \in 1..Len(line'), line'[i] = line'[j]
      PROVE  i = j
  <2>1. \A k \in 1..Len(line') : k = Len(line') \/ k \in 1..Len(line)
    BY <1>1
  <2> QED
    BY <1>1, <1>2, <1>4, <2>1 DEF LineInv
<1>5. ASSUME NEW u \in Task
      PROVE  pc'[u] \in InGate <=> \E i \in 1..Len(line') : line'[i] = u
  <2>1. CASE u = t
    <3>1. Len(line') \in 1..Len(line')
      BY <1>1 DEF TypeOK
    <3> QED
      BY <1>1, <1>3, <2>1, <3>1 DEF InGate
  <2>2. CASE u # t
    <3>1. (\E i \in 1..Len(line') : line'[i] = u) <=> \E i \in 1..Len(line) : line[i] = u
      BY <1>1, <2>2
    <3>2. pc'[u] = pc[u]
      BY <1>3, <2>2
    <3> QED
      BY <3>1, <3>2 DEF LineInv
  <2> QED
    BY <2>1, <2>2
<1>6. ASSUME NEW i \in 2..Len(line')
      PROVE  pc'[line'[i]] = "queued"
  <2>1. CASE i = Len(line')
    BY <1>1, <1>3, <2>1 DEF TypeOK
  <2>2. CASE i # Len(line')
    <3>1. i \in 2..Len(line) /\ line'[i] = line[i] /\ line[i] \in Task
      BY <1>1, <2>2 DEF TypeOK
    <3> QED
      BY <1>3, <3>1 DEF LineInv
  <2> QED
    BY <2>1, <2>2
<1>7. \A u \in Task : pc'[u] \in Started <=> pc[u] \in Started
  BY <1>3 DEF InGate, Started
<1> HIDE DEF Started, InGate
<1> QED
  BY <1>4, <1>5, <1>6, <1>7 DEF LineInv

(* A task that is not in the line does something else.                     *)
LEMMA LineRoams ==
  ASSUME TypeOK, LineInv, NEW t \in Task, NEW s, pc[t] \notin InGate, s \notin InGate,
         Goto(t, s), line' = line, frozen' = frozen
  PROVE  LineInv'
<1>1. \A u \in Task : pc'[u] = IF u = t THEN s ELSE pc[u]
  BY GotoFacts
<1>2. \A u \in Task : /\ pc'[u] \in InGate <=> pc[u] \in InGate
                      /\ pc'[u] \in Started <=> pc[u] \in Started
                      /\ pc[u] = "queued" => pc'[u] = "queued"
  BY <1>1 DEF InGate
<1>3. \A i \in 1..Len(line) : line[i] \in Task
  BY DEF TypeOK
<1> QED
  BY <1>2, <1>3 DEF LineInv

-----------------------------------------------------------------------------
\* What a step that leaves a part of the state alone preserves.

(* The Agents of S are asked to stop; after the exit began only those that *)
(* were not asked before.                                                  *)
Asked(S) ==
  /\ cancelled' = IF exiting THEN cancelled \union S ELSE cancelled
  /\ \A o \in Owner : late'[o] = IF exiting /\ o \in S \ cancelled
                                   THEN late[o] + 1 ELSE late[o]

(* Nobody gets an owner, and leases only end.                              *)
NoAcquisition ==
  /\ \A p \in Carriers' : p \in Carriers /\ next'[p] = next[p]
  /\ \A o \in parked' : o \in parked \/ \E p \in Carriers : next[p] = o
  /\ \A o \in Owner : life'[o] = life[o] \/ (life[o] = "held" /\ life'[o] = "gone")
  /\ UNCHANGED <<sess, sessions>>

(* Asking nobody leaves the Agents alone.                                  *)
LEMMA AskNobody == ASSUME UNCHANGED agents PROVE Asked({})
BY DEF agents, Asked

(* An Agent is asked to stop by the interrupt of the user.                 *)
LEMMA AskByCancel ==
  ASSUME TypeOK, NEW o \in Owner, ~exiting, Cancel(o)
  PROVE  Asked({o})
BY DEF TypeOK, Cancel, Asked

(* An Agent is asked to stop by the exit, unless it has been asked before. *)
LEMMA AskByShutdown ==
  ASSUME TypeOK, NEW o \in Owner, exiting, CancelShutdown(o)
  PROVE  Asked({o})
<1>1. CASE o \in cancelled
  BY <1>1 DEF CancelShutdown, Asked, agents
<1>2. CASE o \notin cancelled
  BY <1>2 DEF TypeOK, CancelShutdown, Asked
<1> QED
  BY <1>1, <1>2

(* A retirement asks its Agent to stop.                                    *)
LEMMA AskByRetirement ==
  ASSUME TypeOK, NEW o \in Owner, CancelRetired(o)
  PROVE  Asked({o})
BY AskByCancel, AskByShutdown DEF CancelRetired

(* A wait under the abort listener asks the Agents it waits for to stop.   *)
LEMMA AskByWait ==
  ASSUME TypeOK, NEW o \in Owner, WaitIdle(o)
  PROVE  Asked({o})
<1>1. CASE exiting
  BY <1>1, AskByShutdown DEF WaitIdle
<1>2. CASE ~exiting
  BY <1>2 DEF WaitIdle, Asked, agents
<1> QED
  BY <1>1, <1>2

(* No owner is born and no intent gets or loses one.                       *)
LEMMA CountFrame ==
  ASSUME CountInv, UNCHANGED <<next, life, sessions>> PROVE CountInv'
BY DEF CountInv, Born, Users

(* No owner is born, retired or released.                                  *)
LEMMA OwnerFrame ==
  ASSUME OwnerInv, UNCHANGED <<ret, life, sess, sessions, cur>> PROVE OwnerInv'
BY DEF OwnerInv

(* Nobody takes or gives up an owner.                                      *)
LEMMA KeeperFrame ==
  ASSUME KeeperInv, UNCHANGED <<cur, ret, life, parked, Carriers, Leavers>>,
         \A p \in Carriers : next'[p] = next[p],
         \A p \in Leavers : old'[p] = old[p]
  PROVE  KeeperInv'
BY DEF KeeperInv, Spare

(* A cancel is shielded from a second one as long as its owner is neither  *)
(* parked nor carried.                                                     *)
LEMMA CancelFrame ==
  ASSUME TypeOK, CancelInv, NoAcquisition, NEW S \in SUBSET Owner, Asked(S),
         exiting' = exiting,
         \A o \in S : exiting => /\ ret[o] = "no" /\ life[o] # "unborn"
                                 /\ o \notin parked'
                                 /\ \A p \in Carriers' : next[p] # o,
         \A o \in Owner : ret[o] # "no" => ret'[o] # "no"
  PROVE  CancelInv'
<1>1. (~exiting => cancelled = {} /\ \A o \in Owner : late[o] = 0)'
  BY DEF CancelInv, Asked
<1>2. ASSUME NEW o \in cancelled'
      PROVE  (life[o] # "unborn" /\ o \notin parked /\ \A p \in Carriers : next[p] # o)'
  <2>1. o \in Owner /\ (o \in cancelled \/ (exiting /\ o \in S))
    BY <1>2 DEF Asked, TypeOK
  <2> QED
    BY <2>1 DEF CancelInv, NoAcquisition
<1>3. ASSUME NEW o \in Owner
      PROVE  (late[o] <= 1 /\ (late[o] = 1 => o \in cancelled \/ ret[o] # "no"))'
  <2>1. late[o] \in Nat /\ late[o] <= 1 /\ (late[o] = 1 => o \in cancelled \/ ret[o] # "no")
    BY DEF CancelInv, TypeOK
  <2>2. CASE exiting /\ o \in S \ cancelled
    BY <2>1, <2>2 DEF Asked
  <2>3. CASE ~(exiting /\ o \in S \ cancelled)
    BY <2>1, <2>3 DEF Asked
  <2> QED
    BY <2>2, <2>3
<1> QED
  BY <1>1, <1>2, <1>3 DEF CancelInv

(* A capture keeps meaning what it meant: its owner was born before, and a *)
(* parked or carried owner was never on the surface.                       *)
LEMMA SeenFrame ==
  ASSUME TypeOK, SeenInv, KeeperInv, NoAcquisition, UNCHANGED <<seen, kind>>,
         epoch' \in {epoch, epoch + 1}
  PROVE  SeenInv'
<1>1. \A p \in Op : seen[p].own \in Owner \union {None} /\ seen[p].epoch \in Nat
  BY DEF TypeOK
<1>2. (\A p \in Op : seen[p].epoch <= epoch)'
  <2>1. epoch \in Nat
    BY DEF TypeOK
  <2> QED
    BY <1>1, <2>1 DEF SeenInv
<1>3. (\A p \in Op : /\ seen[p].session = SessionOf(seen[p].own)
                     /\ seen[p].own # None => life[seen[p].own] # "unborn"
                     /\ seen[p].own \notin parked)'
  BY <1>1 DEF SeenInv, SessionOf, NoAcquisition
<1>4. (/\ \A p \in Op, q \in Carriers : seen[p].own # next[q]
       /\ \A p \in Op, q \in Carriers : kind[q] = "fork" => seen[p].session # sess[next[q]])'
  BY DEF SeenInv, NoAcquisition
<1> QED
  BY <1>2, <1>3, <1>4 DEF SeenInv

(* The epoch stays, or moves to one that no capture has seen.              *)
EpochIsFresh == epoch' = epoch \/ \A p \in Op : seen'[p].epoch # epoch'

(* An epoch claimed now is newer than every capture.                       *)
LEMMA FreshEpoch ==
  ASSUME TypeOK, SeenInv, epoch' = epoch + 1
  PROVE  \A p \in Op : seen[p].epoch # epoch'
<1>1. epoch \in Nat /\ \A p \in Op : seen[p].epoch \in Nat
  BY DEF TypeOK
<1> QED
  BY <1>1 DEF SeenInv

(* Neither the surface nor a fork moves.                                   *)
LEMMA EpochFrame ==
  ASSUME EpochInv, UNCHANGED <<seen, cur, SessionOf(cur)>>, EpochIsFresh,
         Watching' \subseteq Watching, ForksOut' \subseteq ForksOut,
         Navigating' => Navigating
  PROVE  EpochInv'
BY DEF EpochInv, EpochIsFresh, Watching, ForksOut

(* Neither the line nor the command window moves.                          *)
LEMMA GateFrame ==
  ASSUME GateInv, UNCHANGED <<line, cur, SessionOf(cur), deferred, window>>,
         kind' = kind, "pick" \notin Kinds => seen' = seen, EpochIsFresh,
         ForksOut' \subseteq ForksOut
  PROVE  GateInv'
BY DEF GateInv, EpochIsFresh, ForksOut

(* The head of the line is not looked at any more.                         *)
LEMMA GateFrameTail ==
  ASSUME TypeOK, GateInv, Len(line) >= 1, line' = Tail(line),
         UNCHANGED <<cur, SessionOf(cur), deferred, window>>,
         kind' = kind, "pick" \notin Kinds => seen' = seen, EpochIsFresh,
         ForksOut' \subseteq ForksOut
  PROVE  GateInv'
<1>1. /\ Len(line) \in Nat
      /\ Len(line') = Len(line) - 1
      /\ \A i \in 1..Len(line') : i + 1 \in 1..Len(line) /\ line'[i] = line[i + 1]
  BY DEF TypeOK
<1>2. ASSUME "pick" \notin Kinds,
             NEW i \in 1..Len(line'), NEW j \in 1..Len(line'), i < j,
             line'[i] \in Op, line'[j] \in Op, kind[line'[i]] = "switch",
             kind[line'[j]] = "fork", seen[line'[i]].own = cur
      PROVE  seen[line'[j]].session = SessionOf(cur)
  <2>1. i + 1 < j + 1 /\ i + 1 \in 1..Len(line) /\ j + 1 \in 1..Len(line)
    BY <1>1, <1>2
  <2> QED
    BY <1>1, <1>2, <2>1 DEF GateInv
<1>3. ASSUME "pick" \notin Kinds, deferred # {}, NEW r \in window
      PROVE  /\ kind[r] \in {"switch", "new"} => seen[r].own # cur
             /\ r \in ForksOut' => seen'[r].epoch # epoch'
  BY <1>3 DEF GateInv, EpochIsFresh, ForksOut
<1>4. ASSUME "pick" \notin Kinds, deferred # {}, NEW r \in window,
             NEW i \in 1..Len(line'), NEW j \in 1..Len(line'), i < j,
             line'[i] \in Op, line'[j] = r, kind[line'[i]] = "switch"
      PROVE  seen[line'[i]].own # cur
  <2>1. i + 1 < j + 1 /\ i + 1 \in 1..Len(line) /\ j + 1 \in 1..Len(line)
    BY <1>1, <1>4
  <2> QED
    BY <1>1, <1>4, <2>1 DEF GateInv
<1> QED
  BY <1>2, <1>3, <1>4 DEF GateInv

(* Nobody is asked to stop.                                                *)
LEMMA CancelQuiet ==
  ASSUME TypeOK, CancelInv, NoAcquisition, Asked({}), exiting' = exiting,
         \A o \in Owner : ret[o] # "no" => ret'[o] # "no"
  PROVE  CancelInv'
BY CancelFrame

Ending == {"retireOld", "childIdle", "init", "leave", "done"}

(* Forks keep their pins, and retirements the forks that own them.         *)
LEMMA ForkFrame ==
  ASSUME TypeOK, ForkInv, UNCHANGED <<kind, old, sess, window, deferred, handed>>,
         pins' \subseteq pins,
         \A q \in Op : kind[q] = "fork" /\ pc'[q] \in Forking
                         => pc[q] \in Forking /\ (q \in pins => q \in pins'),
         \A q \in deferred \union handed :
           /\ seen'[q] = seen[q]
           /\ q \in pins'
           /\ pc[q] \in Ending => pc'[q] \in Ending,
         \A q \in window : pc'[q] = "chosen" => pc[q] = "chosen",
         \A q \in handed : ret'[old[q]] = ret[old[q]]
  PROVE  ForkInv'
<1>1. deferred \subseteq Op /\ handed \subseteq Op /\ window \subseteq Op
  BY DEF TypeOK
<1>2. \A q \in deferred \union handed :
        /\ kind[q] = "fork" /\ pc'[q] \in Ending
        /\ q \in pins' /\ old[q] # None /\ seen'[q].session = sess[old[q]]
  BY <1>1 DEF ForkInv, Ending
<1>3. \A q \in handed : ret'[old[q]] \notin {"no", "done"} /\ q \notin deferred
  BY DEF ForkInv, Retiring
<1>4. \A q \in window : kind[q] = "fork" => pc'[q] # "chosen"
  BY DEF ForkInv
<1> QED
  BY <1>1, <1>2, <1>3, <1>4 DEF ForkInv, Retiring, Ending

(* A slot that is idle has asked for nothing yet.                          *)
LEMMA IdleIsFresh ==
  ASSUME IInv, NEW p \in Op, pc[p] = "idle"
  PROVE  /\ kind[p] = "none"
         /\ next[p] = None
         /\ p \notin pins \union window \union deferred \union handed
<1>1. kind[p] \in {"switch", "pick", "new", "first", "fork", "plain", "none"}
  BY DEF IInv, TypeOK, AllKinds
<1>2. kind[p] = "none"
  BY <1>1 DEF IInv, PathInv, Early, Before, Late, Published
<1> QED
  BY <1>2 DEF IInv, ForkInv, LocalInv
=============================================================================
