----------------------- MODULE RemoteLiveView_proofs ------------------------
(***************************************************************************)
(* The safety of RemoteLiveView for every number of events and of          *)
(* incidents: an inductive invariant, and from it the invariants and the   *)
(* property of the transcript that TLC checks on small numbers.            *)
(***************************************************************************)
EXTENDS RemoteLiveView, FiniteSetTheorems, SequenceTheorems, TLAPS

(* Reads and handles.                                                      *)
Read == [ok : BOOLEAN, conn : Nat, bind : Nat, own : Nat, rev : Nat, hi : Nat]
Handle == [st : {"read", "hydrated", "failed", "gone", "pending", "attached"},
           of : Read, bind : Nat, fenced : Nat, mode : {"incremental", "recovering"},
           last : Nat, base : Nat \union {NoBaseline},
           told : [conn : Nat \union {-1}, rev : Nat, open : BOOLEAN], queued : BOOLEAN]

(* The parts of the inductive invariant.  Types: what each variable is.    *)
Types ==
  /\ conn \in 0..conns /\ conns \in Nat \ {0} /\ bind \in Nat \ {0} /\ open \in BOOLEAN
  /\ win \in [rev : Nat, hi : Nat, conn : Nat, kind : {"none", "append", "prepend", "replace"}]
  /\ log \in 0..MaxEvents /\ incidents \in 0..MaxIncidents
  /\ own \in Nat \ {0} /\ due \in {"no", "commit", "init"}
  /\ fold \in Seq(1..MaxEvents) /\ foldOf \in Nat \X Nat
  /\ tries \in Seq(Handle) /\ slot \in 0..Len(tries) /\ rolled \in BOOLEAN
  /\ retried \in Nat \X Nat /\ armed \in 0..own
  /\ pump \in [st : {"idle", "read", "acknowledge"}, at : Nat, of : Read, proof : BOOLEAN]
  /\ pending \in BOOLEAN

(* There are two owners at most, and the transcript is of one of them and  *)
(* of a binding there was.                                                 *)
Owners == /\ own <= 2
          /\ due = "commit" => own = 1
          /\ foldOf[1] <= own /\ foldOf[2] <= bind

(* A generation costs an incident, and the window of the generation that   *)
(* is up shows the whole log.                                              *)
Generations == /\ conn # 0 => conns <= 1 + incidents
               /\ conn = 0 => conns <= incidents
               /\ win.conn <= conns /\ win.hi <= log
               /\ conn # 0 /\ win.conn = conn => win.hi = log

(* A read is not newer than the window of its binding, and is that window  *)
(* if nothing was published since.                                         *)
Dated(s) == /\ s.bind <= bind /\ s.conn <= conns /\ s.own <= own /\ s.hi <= log
            /\ s.bind = bind => s.rev <= win.rev /\ s.hi <= win.hi
            /\ s.bind = bind /\ s.rev = win.rev => s.hi = win.hi

Reads == Dated(pump.of) /\ \A i \in DOMAIN tries : Dated(tries[i].of)

(* An attempt of the owner that stands is under way.                       *)
Trying(i) == tries[i].st \in {"read", "hydrated", "failed"} /\ tries[i].of.own = own

(* It is the newest, while the surface has no handle, no init is due and   *)
(* no retry armed; only the newest attempt has its handle installed.       *)
Attempts ==
  /\ \A i \in DOMAIN tries : Trying(i) =>
       i = Len(tries) /\ slot = 0 /\ due # "init" /\ armed = 0
  /\ \A i \in DOMAIN tries : /\ tries[i].st \in {"pending", "attached"} => i = slot
                             /\ tries[i].bind <= bind
  /\ slot # 0 => /\ slot = Len(tries) /\ armed = 0
                 /\ tries[slot].st \in {"pending", "attached", "gone"}
  /\ armed = own => due # "init"

(* A round whose handle was replaced does not find it installed; the       *)
(* window it committed, if it still stands, is the transcript; and it read *)
(* no later than an attempt that reads beside it.                          *)
Pump ==
  /\ pump.st # "idle" => /\ pump.at \in 1..Len(tries)
                         /\ pump.at = Len(tries) => slot = pump.at
  /\ pump.st = "acknowledge" /\ pump.proof /\ slot = pump.at
       /\ pump.of.bind = bind /\ pump.of.rev = win.rev => Len(fold) = win.hi
  /\ \A i \in DOMAIN tries :
       pump.st = "read" /\ Trying(i) /\ tries[i].of.bind = bind /\ pump.of.bind = bind
         => pump.of.rev <= tries[i].of.rev

(* The transcript of the owner and the binding is not ahead of the window, *)
(* is the window for whoever trusts deltas and for an attempt that folded  *)
(* it, and not ahead of what an attempt is about to fold.                  *)
Folds ==
  /\ FoldHasNoHole
  /\ TrustedFoldIsTheWindow
  /\ foldOf = <<own, bind>> => Len(fold) <= win.hi
  /\ \A i \in DOMAIN tries : Trying(i) /\ tries[i].of.bind = bind =>
       /\ tries[i].st = "hydrated" /\ tries[i].of.rev = win.rev => Len(fold) = win.hi
       /\ tries[i].st = "read" /\ foldOf = <<own, bind>> => Len(fold) <= tries[i].of.hi

(* Each owner has one init, each generation but the first two attempts at  *)
(* most, and each owner but the first one more: that of a generation that  *)
(* was up before.  The counts of what is still due.                        *)
Init01 == IF due = "init" THEN 1 ELSE 0
Retried01 == IF due # "init" /\ \/ conn = 0 \/ retried = <<own, conn>>
                                \/ \A i \in DOMAIN tries : ~Trying(i)
             THEN 1 ELSE 0
Count == Len(tries) <= (own - Init01) + 2 * (conns - 1) + (own - 1) + Retried01

IInv == /\ Types /\ Owners /\ Generations /\ Reads /\ Attempts /\ Pump /\ Folds /\ Count

-----------------------------------------------------------------------------
\* Handles.

Windows == [rev : Nat, hi : Nat, conn : Nat, kind : {"none", "append", "prepend", "replace"}]

(* A handle that does not exist is one, and a read is a read.              *)
LEMMA BlankIs ==
  /\ NoRead \in Read
  /\ \A st \in {"read", "hydrated", "failed", "gone", "pending", "attached"}, of \in Read :
       Blank(st, of) \in Handle /\ Blank(st, of).st = st /\ Blank(st, of).of = of
BY DEF Blank, NoRead, NotTold, NoBaseline, Read, Handle

(* A read says what the window was, or that there is none.                 *)
LEMMA ReadIs ==
  ASSUME Types, NEW c \in Nat
  PROVE  /\ ReadUnder(c) \in Read /\ ReadUnder(c).own = own
         /\ c = 0 => ReadUnder(c).bind = 0 /\ ReadUnder(c).conn = 0 /\ ~ReadUnder(c).ok
                     /\ ReadUnder(c).hi = 0
         /\ c # 0 => ReadUnder(c).bind = bind /\ ReadUnder(c).conn = c /\ ReadUnder(c).ok
                     /\ ReadUnder(c).rev = win.rev /\ ReadUnder(c).hi = win.hi
BY DEF Types, ReadUnder, NoRead, Read

(* Asking for a re-fold suspends the deltas and nothing else.              *)
LEMMA RequireIs ==
  ASSUME NEW h \in Handle, NEW w \in Windows, NEW o \in BOOLEAN
  PROVE  LET r == Require(h, w, o)
         IN /\ r \in Handle /\ r.mode = "recovering"
            /\ r.st = h.st /\ r.of = h.of /\ r.bind = h.bind
BY DEF Require, Handle, Windows

(* A handle that is disposed is gone and belongs to no binding.            *)
LEMMA DisposedIs ==
  ASSUME NEW h \in Handle
  PROVE  /\ Disposed(h) \in Handle /\ Disposed(h).st = "gone"
         /\ Disposed(h).of = NoRead /\ Disposed(h).bind = 0
BY DEF Disposed, Blank, NoRead, NotTold, NoBaseline, Handle, Read

(* A publication retires no handle of its binding; one that goes on        *)
(* trusting deltas has just folded the next of them, or has it already.    *)
LEMMA PublishedIs ==
  ASSUME NEW h \in Handle, NEW w \in Windows, NEW b \in Nat, NEW o \in BOOLEAN
  PROVE  LET r == Published(h, w, b, o)
         IN /\ r \in Handle
            /\ r.st = h.st /\ r.of = h.of /\ r.bind = h.bind
            /\ r.st = "attached" /\ r.bind = b /\ r.mode = "incremental" =>
                 /\ h.st = "attached" /\ h.bind = b /\ h.mode = "incremental"
                 /\ r.last = w.rev
                 /\ h.last = w.rev \/ Delivers(h, w, b)
<1>1. CASE h.st # "attached" \/ h.bind # b
  BY <1>1 DEF Published
<1>2. CASE h.st = "attached" /\ h.bind = b
  <2>1. CASE h.mode = "recovering"
    BY <1>2, <2>1, RequireIs DEF Published
  <2>2. CASE h.mode # "recovering" /\ w.rev = h.last
    BY <1>2, <2>2 DEF Published
  <2>3. CASE h.mode # "recovering" /\ w.rev # h.last /\ Delivers(h, w, b)
    BY <1>2, <2>3 DEF Published, Handle, Windows
  <2>4. CASE h.mode # "recovering" /\ w.rev # h.last /\ ~Delivers(h, w, b)
    BY <1>2, <2>4, RequireIs DEF Published
  <2> QED
    BY <2>1, <2>2, <2>3, <2>4
<1> QED
  BY <1>1, <1>2

(* A change of the open state makes no handle trust deltas.                *)
LEMMA SnapshotIs ==
  ASSUME NEW h \in Handle, NEW w \in Windows, NEW b \in Nat, NEW o \in BOOLEAN
  PROVE  LET r == SnapshotChanged(h, w, b, o)
         IN /\ r \in Handle
            /\ r.st = h.st /\ r.of = h.of /\ r.bind = h.bind
            /\ r.mode = "incremental" /\ r.st = "attached" => r = h
BY RequireIs DEF SnapshotChanged

(* What was hydrated is a baseline only if it is the window of the moment. *)
LEMMA AttachedIs ==
  ASSUME NEW h \in Handle, NEW w \in Windows, NEW c \in Nat, NEW b \in Nat, NEW o \in BOOLEAN
  PROVE  LET r == Attached(h, w, c, b, o)
         IN /\ r \in Handle /\ r.st = "attached" /\ r.of = NoRead /\ r.bind = b
            /\ r.mode = "incremental" =>
                 h.of.conn = c /\ h.of.bind = b /\ h.of.rev = w.rev /\ r.last = w.rev
<1> DEFINE new == [h EXCEPT !.st = "attached", !.bind = b, !.fenced = c,
                            !.last = w.rev, !.of = NoRead]
<1>1. /\ new \in Handle /\ new.st = "attached" /\ new.of = NoRead /\ new.bind = b
      /\ new.last = w.rev /\ new.mode = h.mode
  BY BlankIs DEF Handle, Windows
<1> DEFINE based == [new EXCEPT !.base = w.rev]
<1>2. based \in Handle /\ based.st = "attached" /\ based.of = NoRead /\ based.bind = b
  BY <1>1 DEF Handle, Windows
<1>3. Attached(h, w, c, b, o) = IF <<h.of.conn, h.of.bind>> # <<c, b>> THEN Require(based, w, o)
                                ELSE IF ~IsBaseline(h.of, w) THEN Require(new, w, o)
                                ELSE new
  BY DEF Attached
<1> HIDE DEF new, based
<1>4. CASE <<h.of.conn, h.of.bind>> # <<c, b>>
  BY <1>2, <1>3, <1>4, RequireIs
<1>5. CASE <<h.of.conn, h.of.bind>> = <<c, b>> /\ ~IsBaseline(h.of, w)
  BY <1>1, <1>3, <1>5, RequireIs
<1>6. CASE <<h.of.conn, h.of.bind>> = <<c, b>> /\ IsBaseline(h.of, w)
  BY <1>1, <1>3, <1>6 DEF IsBaseline
<1> QED
  BY <1>4, <1>5, <1>6

(* After a rollover a handle trusts deltas only if it did before.          *)
LEMMA RolledOverIs ==
  ASSUME NEW h \in Handle, NEW w \in Windows, NEW c \in Nat, NEW b \in Nat, NEW o \in BOOLEAN
  PROVE  LET r == RolledOver(h, w, c, b, o)
         IN /\ r \in Handle
            /\ \/ r.st = h.st /\ r.of = h.of /\ r.bind = h.bind
               \/ h.st = "pending" /\ c # 0 /\ r.st = "attached" /\ r.of = NoRead /\ r.bind = b
            /\ r.mode = "incremental" /\ r.st = "attached" =>
                 r = h \/ (h.st = "pending" /\ c # 0 /\ h.of.conn = c)
<1>1. CASE h.st = "pending" /\ c # 0
  BY <1>1, AttachedIs DEF RolledOver
<1>2. CASE h.st = "attached" /\ h.fenced # c
  <2>1. [h EXCEPT !.fenced = c, !.base = w.rev] \in Handle
        /\ [h EXCEPT !.fenced = c, !.base = w.rev].st = h.st
        /\ [h EXCEPT !.fenced = c, !.base = w.rev].of = h.of
        /\ [h EXCEPT !.fenced = c, !.base = w.rev].bind = h.bind
    BY DEF Handle, Windows
  <2> QED
    BY <1>2, <2>1, RequireIs DEF RolledOver
<1>3. CASE ~(h.st = "pending" /\ c # 0) /\ ~(h.st = "attached" /\ h.fenced # c)
  BY <1>3 DEF RolledOver
<1> QED
  BY <1>1, <1>2, <1>3

(* A subscription waits for a generation or attaches.                      *)
LEMMA SubscribedIs ==
  ASSUME Types, NEW h \in Handle
  PROVE  LET r == Subscribed(h)
         IN /\ r \in Handle
            /\ \/ conn = 0 /\ r.st = "pending" /\ r.of = h.of /\ r.bind = h.bind
               \/ conn # 0 /\ r.st = "attached" /\ r.of = NoRead /\ r.bind = bind
            /\ r.mode = "incremental" /\ conn # 0 =>
                 h.of.conn = conn /\ h.of.bind = bind /\ h.of.rev = win.rev /\ r.last = win.rev
<1> DEFINE new == IF conn = 0 THEN [h EXCEPT !.st = "pending"]
                              ELSE Attached(h, win, conn, bind, open)
<1>1. win \in Windows /\ conn \in Nat /\ bind \in Nat /\ open \in BOOLEAN
  BY DEF Types, Windows
<1>2. /\ new \in Handle
      /\ \/ conn = 0 /\ new.st = "pending" /\ new.of = h.of /\ new.bind = h.bind
         \/ conn # 0 /\ new.st = "attached" /\ new.of = NoRead /\ new.bind = bind
      /\ new.mode = "incremental" /\ conn # 0 =>
           h.of.conn = conn /\ h.of.bind = bind /\ h.of.rev = win.rev /\ new.last = win.rev
  BY <1>1, AttachedIs DEF Handle
<1>3. Subscribed(h) = IF rolled /\ new.st = "attached"
                        THEN [new EXCEPT !.mode = "recovering",
                                !.told = [conn |-> conn, rev |-> win.rev, open |-> open]]
                        ELSE new
  BY DEF Subscribed
<1> HIDE DEF new
<1>4. CASE rolled /\ new.st = "attached"
  <2> DEFINE now == [conn |-> conn, rev |-> win.rev, open |-> open]
  <2>1. now \in [conn : Nat \union {-1}, rev : Nat, open : BOOLEAN]
    BY <1>1 DEF Windows
  <2>2. Subscribed(h) = [new EXCEPT !.mode = "recovering", !.told = now]
    BY <1>3, <1>4
  <2> HIDE DEF now
  <2> DEFINE r == [new EXCEPT !.mode = "recovering", !.told = now]
  <2>3. /\ r \in Handle /\ r.mode = "recovering"
        /\ r.st = new.st /\ r.of = new.of /\ r.bind = new.bind
    BY <1>2, <2>1 DEF Handle
  <2> QED
    BY <1>2, <2>2, <2>3
<1>5. CASE ~(rolled /\ new.st = "attached")
  BY <1>2, <1>3, <1>5
<1> QED
  BY <1>4, <1>5

-----------------------------------------------------------------------------
\* Steps that start no attempt and leave the transcript alone.

(* The attempts and handles stay what they are, end, or attach.            *)
Calm == /\ tries' \in Seq(Handle) /\ Len(tries') = Len(tries)
        /\ \A i \in DOMAIN tries :
             \/ /\ tries'[i].st = tries[i].st /\ tries'[i].of = tries[i].of
                /\ tries'[i].bind = tries[i].bind
             \/ tries'[i].st = "gone" /\ tries'[i].of = NoRead /\ tries'[i].bind = 0
             \/ /\ tries[i].st = "pending"
                /\ tries'[i].st = "attached" /\ tries'[i].of = NoRead /\ tries'[i].bind = bind

Trusts(h) == h.st = "attached" /\ h.bind = bind /\ h.mode = "incremental"

(* A handle that trusts deltas afterwards did so before.                   *)
Wary == slot # 0 /\ Trusts(tries'[slot]) =>
          Trusts(tries[slot]) /\ tries'[slot].last = tries[slot].last

(* The pump goes on as it was, or starts a round if there is a handle.     *)
Pumps == \/ pump' = pump
         \/ pump' = Idle
         \/ slot # 0 /\ pump' = [st |-> "read", at |-> slot, of |-> ReadUnder(conn),
                                 proof |-> FALSE]

(* What was read, by the pump or by an attempt, is a read.                 *)
LEMMA ReadTypes ==
  ASSUME Types
  PROVE  pump.of \in Read /\ \A i \in DOMAIN tries : tries[i] \in Handle /\ tries[i].of \in Read
<1>1. pump.of \in Read
  BY DEF Types
<1>2. \A i \in DOMAIN tries : tries[i] \in Handle
  BY DEF Types
<1> QED
  BY <1>1, <1>2 DEF Handle

(* A calm step starts no attempt.                                          *)
LEMMA CalmTrying ==
  ASSUME Types, Calm, own' = own
  PROVE  /\ DOMAIN tries' = DOMAIN tries
         /\ \A i \in DOMAIN tries : Trying(i)' =>
              Trying(i) /\ tries'[i].st = tries[i].st /\ tries'[i].of = tries[i].of
<1>1. DOMAIN tries' = DOMAIN tries
  BY DEF Types, Calm
<1>2. ASSUME NEW i \in DOMAIN tries, Trying(i)'
      PROVE  Trying(i) /\ tries'[i].st = tries[i].st /\ tries'[i].of = tries[i].of
  <2>1. tries'[i].st = tries[i].st /\ tries'[i].of = tries[i].of
    BY <1>2 DEF Calm, Trying
  <2> QED
    BY <1>2, <2>1 DEF Trying
<1> QED
  BY <1>1, <1>2

(* After a calm step there is still at most one attempt of the owner, and  *)
(* nothing on the surface beside it.                                       *)
LEMMA CalmAttempts ==
  ASSUME Types, Types', Attempts, Calm, UNCHANGED <<own, slot, bind>>,
         due' = "init" => due = "init",
         \/ armed' = armed
         \/ armed' = 0
         \/ armed' = own /\ slot = 0 /\ due # "init" /\ \A i \in DOMAIN tries : ~Trying(i)'
  PROVE  Attempts'
<1>1. DOMAIN tries' = DOMAIN tries /\ DOMAIN tries = 1..Len(tries)
  BY CalmTrying DEF Types
<1>2. \A i \in DOMAIN tries : Trying(i)' => Trying(i)
  BY CalmTrying
<1>3. (\A i \in DOMAIN tries : Trying(i) =>
         i = Len(tries) /\ slot = 0 /\ due # "init" /\ armed = 0)'
  BY <1>1, <1>2 DEF Attempts, Calm
<1>6. (armed = own => due # "init")'
  BY DEF Attempts, Types
<1>4. (\A i \in DOMAIN tries : /\ tries[i].st \in {"pending", "attached"} => i = slot
                               /\ tries[i].bind <= bind)'
  <2>1. ASSUME NEW i \in DOMAIN tries
        PROVE  /\ tries'[i].st \in {"pending", "attached"} => i = slot
               /\ tries'[i].bind <= bind
    <3>1. /\ tries[i].st \in {"pending", "attached"} => i = slot
          /\ tries[i].bind <= bind /\ bind \in Nat
      BY DEF Attempts, Types
    <3> QED
      BY <3>1 DEF Calm
  <2> QED
    BY <1>1, <2>1
<1>5. (slot # 0 => /\ slot = Len(tries) /\ armed = 0
                   /\ tries[slot].st \in {"pending", "attached", "gone"})'
  <2>1. ASSUME slot # 0
        PROVE  slot = Len(tries') /\ armed' = 0
               /\ tries'[slot].st \in {"pending", "attached", "gone"}
    <3>1. slot = Len(tries) /\ armed = 0 /\ slot \in DOMAIN tries
          /\ tries[slot].st \in {"pending", "attached", "gone"}
      BY <1>1, <2>1 DEF Attempts, Types
    <3> QED
      BY <3>1 DEF Calm
  <2> QED
    BY <2>1
<1> QED
  BY <1>3, <1>4, <1>5, <1>6 DEF Attempts

(* After a calm step what was read is no newer than the window.            *)
LEMMA CalmReads ==
  ASSUME Types, Reads, Calm, UNCHANGED <<own, bind, win>>, log' = log,
         conns' \in {conns, conns + 1}
  PROVE  \A i \in DOMAIN tries' : Dated(tries[i].of)'
<1>1. DOMAIN tries' = DOMAIN tries
  BY DEF Types, Calm
<1>2. Dated(NoRead)
  BY DEF Dated, NoRead, Types
<1>3. \A i \in DOMAIN tries : Dated(tries[i].of) /\ tries'[i].of \in {tries[i].of, NoRead}
  BY DEF Reads, Calm
<1>4. \A s \in Read : Dated(s) =>
        /\ s.bind <= bind' /\ s.conn <= conns' /\ s.own <= own' /\ s.hi <= log'
        /\ s.bind = bind' => s.rev <= win'.rev /\ s.hi <= win'.hi
        /\ s.bind = bind' /\ s.rev = win'.rev => s.hi = win'.hi
  <2>1. conns \in Nat
    BY DEF Types
  <2>2. \A s \in Read : s.conn \in Nat /\ (Dated(s) => s.conn <= conns)
    BY DEF Read, Dated
  <2>3. \A s \in Read : Dated(s) => s.conn <= conns + 1
    BY <2>1, <2>2
  <2> QED
    BY <2>2, <2>3 DEF Dated
<1>5. NoRead \in Read /\ \A i \in DOMAIN tries : tries[i].of \in Read
  BY BlankIs, ReadTypes
<1> QED
  BY <1>1, <1>2, <1>3, <1>4, <1>5 DEF Dated

(* The count of the attempts while none is started.                        *)
LEMMA CountStays ==
  ASSUME Types, Count, Len(tries') = Len(tries), DOMAIN tries' = DOMAIN tries,
         \A i \in DOMAIN tries : Trying(i)' => Trying(i),
         UNCHANGED <<own, due, conn, conns, retried>>
  PROVE  Count'
<1>1. Init01' = Init01 /\ Init01 \in {0, 1}
  BY DEF Init01
<1>2. Retried01 \in {0, 1} /\ Retried01' \in {Retried01, 1}
  BY DEF Retried01
<1>3. own \in Nat /\ conns \in Nat /\ Len(tries) \in Nat
  BY DEF Types
<1>4. Len(tries) <= (own - Init01) + 2 * (conns - 1) + (own - 1) + 1
  BY <1>1, <1>2, <1>3 DEF Count
<1>5. CASE Retried01' = Retried01
  BY <1>1, <1>5 DEF Count
<1>6. CASE Retried01' = 1
  BY <1>1, <1>4, <1>6 DEF Count
<1> QED
  BY <1>2, <1>5, <1>6

(* A calm step adds no attempt to the count.                               *)
LEMMA CalmCount ==
  ASSUME Types, Count, Calm, UNCHANGED <<own, due, conn, conns, retried>>
  PROVE  Count'
BY CalmTrying, CountStays DEF Calm

(* The pump while it goes on as it was.                                    *)
LEMMA PumpStays ==
  ASSUME Types, Pump, Calm, UNCHANGED <<pump, own, slot, bind, win, fold>>
  PROVE  Pump'
<1>1. DOMAIN tries' = DOMAIN tries
  BY CalmTrying
<1>2. \A i \in DOMAIN tries : Trying(i)' => Trying(i) /\ tries'[i].of = tries[i].of
  BY CalmTrying
<1> QED
  BY <1>1, <1>2 DEF Pump, Calm

(* A round that starts finds no attempt under way, so it cannot read an    *)
(* older window than one.                                                  *)
LEMMA PumpsOn ==
  ASSUME Types, Types', Generations, Reads, Attempts, Pump, Calm, Pumps,
         UNCHANGED <<conn, conns, own, slot, bind, win, fold, log>>
  PROVE  Pump' /\ Dated(pump.of)'
<1>1. DOMAIN tries' = DOMAIN tries /\ DOMAIN tries = 1..Len(tries)
  BY CalmTrying DEF Types
<1>2. \A i \in DOMAIN tries : Trying(i)' => Trying(i) /\ tries'[i].of = tries[i].of
  BY CalmTrying
<1>3. CASE pump' = pump
  <2>1. Pump'
    BY <1>3, PumpStays
  <2> QED
    BY <1>3, <2>1 DEF Reads, Dated
<1>4. CASE pump' = Idle
  <2>1. Dated(NoRead)'
    BY DEF Dated, NoRead, Types
  <2>2. pump'.st = "idle" /\ pump'.of = NoRead
    BY <1>4 DEF Idle
  <2> QED
    BY <2>1, <2>2 DEF Pump
<1>5. CASE slot # 0 /\ pump' = [st |-> "read", at |-> slot, of |-> ReadUnder(conn),
                                proof |-> FALSE]
  <2>1. pump'.st = "read" /\ pump'.at = slot /\ pump'.of = ReadUnder(conn)
    BY <1>5
  <2>2. slot \in 1..Len(tries') /\ \A i \in DOMAIN tries' : ~Trying(i)'
    BY <1>1, <1>2, <1>5 DEF Attempts, Calm, Types
  <2>3. Pump'
    BY <2>1, <2>2 DEF Pump
  <2>4. conn \in Nat /\ win.hi \in Nat /\ win.rev \in Nat /\ bind \in Nat /\ own \in Nat
        /\ log \in Nat /\ conns \in Nat /\ win.hi <= log /\ bind # 0 /\ conn <= conns
    BY DEF Types, Generations
  <2>5. Dated(ReadUnder(conn))
    BY <2>4, ReadIs DEF Dated
  <2> QED
    BY <2>1, <2>3, <2>5 DEF Dated
<1> QED
  BY <1>3, <1>4, <1>5 DEF Pumps

(* A calm step after which no more deltas are trusted leaves the           *)
(* transcript what it was to everyone.                                     *)
LEMMA WaryFolds ==
  ASSUME Types, Types', Folds, Calm, Wary,
         UNCHANGED <<own, slot, bind, win, fold, foldOf>>
  PROVE  Folds'
<1>1. DOMAIN tries' = DOMAIN tries
  BY CalmTrying
<1>2. \A i \in DOMAIN tries : Trying(i)' =>
        Trying(i) /\ tries'[i].st = tries[i].st /\ tries'[i].of = tries[i].of
  BY CalmTrying
<1>3. FoldHasNoHole'
  BY DEF Folds, FoldHasNoHole, UpTo
<1>4. TrustedFoldIsTheWindow'
  BY DEF Folds, TrustedFoldIsTheWindow, Trusted, Wary, Trusts
<1>5. (foldOf = <<own, bind>> => Len(fold) <= win.hi)'
  BY DEF Folds
<1>6. (\A i \in DOMAIN tries : Trying(i) /\ tries[i].of.bind = bind =>
         /\ tries[i].st = "hydrated" /\ tries[i].of.rev = win.rev => Len(fold) = win.hi
         /\ tries[i].st = "read" /\ foldOf = <<own, bind>> => Len(fold) <= tries[i].of.hi)'
  BY <1>1, <1>2 DEF Folds
<1> QED
  BY <1>3, <1>4, <1>5, <1>6 DEF Folds

(* A calm step after which no more deltas are trusted keeps the invariant. *)
LEMMA QuietKeeps ==
  ASSUME IInv, Types', Calm, Wary, Pumps,
         UNCHANGED <<conn, conns, bind, win, log, incidents, own, due, fold, foldOf,
                     slot, armed, retried>>
  PROVE  IInv'
<1>1. Owners' /\ Generations'
  BY DEF IInv, Owners, Generations
<1>2. Pump' /\ Reads'
  BY PumpsOn, CalmReads DEF IInv, Reads
<1>3. Attempts' /\ Folds' /\ Count'
  BY CalmAttempts, WaryFolds, CalmCount DEF IInv
<1> QED
  BY <1>1, <1>2, <1>3 DEF IInv

(* The types of the state but for the handles and the pump.                *)
LEMMA QuietTypes ==
  ASSUME Types, Calm, Pumps,
         UNCHANGED <<conn, conns, bind, win, log, incidents, own, due, fold, foldOf,
                     slot, rolled, armed, retried>>,
         open' \in BOOLEAN, pending' \in BOOLEAN
  PROVE  Types'
<1>1. conn \in Nat /\ slot \in Nat
  BY DEF Types
<1>2. pump' \in [st : {"idle", "read", "acknowledge"}, at : Nat, of : Read, proof : BOOLEAN]
  <2>1. Idle \in [st : {"idle", "read", "acknowledge"}, at : Nat, of : Read, proof : BOOLEAN]
    BY BlankIs DEF Idle
  <2>2. ReadUnder(conn) \in Read
    BY <1>1, ReadIs
  <2>3. CASE slot # 0 /\ pump' = [st |-> "read", at |-> slot, of |-> ReadUnder(conn),
                                  proof |-> FALSE]
    BY <1>1, <2>2, <2>3
  <2>4. CASE pump' = pump
    BY <2>4 DEF Types
  <2> QED
    BY <2>1, <2>3, <2>4 DEF Pumps
<1> QED
  BY <1>1, <1>2 DEF Types, Calm

(* Wariness, for every handle, is wariness for the installed one.          *)
LEMMA WaryIs ==
  ASSUME Types,
         \A i \in DOMAIN tries : Trusts(tries'[i]) =>
           Trusts(tries[i]) /\ tries'[i].last = tries[i].last
  PROVE  Wary
<1>1. slot # 0 => slot \in DOMAIN tries
  BY DEF Types
<1> QED
  BY <1>1 DEF Wary

(* The handles after each has been told the same.                          *)
LEMMA Told ==
  ASSUME Types, NEW F, F \in [DOMAIN tries -> Handle], tries' = F
  PROVE  tries' \in Seq(Handle) /\ Len(tries') = Len(tries) /\ DOMAIN tries' = DOMAIN tries
<1>1. DOMAIN tries = 1..Len(tries) /\ Len(tries) \in Nat
  BY DEF Types
<1> QED
  BY <1>1

(* One handle is told.                                                     *)
LEMMA ToldOne ==
  ASSUME Types, NEW i \in DOMAIN tries, NEW h \in Handle, tries' = [tries EXCEPT ![i] = h]
  PROVE  /\ tries' \in Seq(Handle) /\ Len(tries') = Len(tries) /\ DOMAIN tries' = DOMAIN tries
         /\ tries'[i] = h /\ \A j \in DOMAIN tries \ {i} : tries'[j] = tries[j]
<1>1. tries \in [1..Len(tries) -> Handle] /\ Len(tries) \in Nat /\ DOMAIN tries = 1..Len(tries)
  BY LenProperties DEF Types
<1>2. tries' \in [1..Len(tries) -> Handle]
  BY <1>1
<1> QED
  BY <1>1, <1>2

(* The Session is open.                                                    *)
LEMMA OpenedKeeps ==
  ASSUME IInv, Opened
  PROVE  IInv'
<1>1. Types
  BY DEF IInv
<1> DEFINE H(i) == SnapshotChanged(tries[i], win, bind, TRUE)
<1>2. win \in Windows /\ bind \in Nat /\ \A i \in DOMAIN tries : tries[i] \in Handle
  BY <1>1 DEF Types, Windows
<1>3. \A i \in DOMAIN tries :
        /\ H(i) \in Handle
        /\ H(i).st = tries[i].st /\ H(i).of = tries[i].of /\ H(i).bind = tries[i].bind
        /\ H(i).mode = "incremental" /\ H(i).st = "attached" => H(i) = tries[i]
  BY <1>2, SnapshotIs
<1>4. tries' = [i \in DOMAIN tries |-> H(i)]
  BY DEF Opened
<1> HIDE DEF H
<1>5. tries' \in Seq(Handle) /\ Len(tries') = Len(tries)
  BY <1>1, <1>3, <1>4, Told
<1>6. Calm
  BY <1>3, <1>4, <1>5 DEF Calm
<1>7. Wary
  <2>1. \A i \in DOMAIN tries : Trusts(tries'[i]) => tries'[i] = tries[i]
    BY <1>3, <1>4 DEF Trusts
  <2> QED
    BY <1>1, <2>1, WaryIs
<1>8. Types'
  BY <1>1, <1>6, QuietTypes DEF Opened, owner, transcript, refold, Pumps, Types
<1> QED
  BY <1>6, <1>7, <1>8, QuietKeeps DEF Opened, owner, transcript, refold, Pumps


(* A publication of a replaced binding disposes the handle.                *)
LEMMA LatePublicationKeeps ==
  ASSUME IInv, NEW i \in DOMAIN tries, LatePublication(i)
  PROVE  IInv'
<1>1. Types
  BY DEF IInv
<1> DEFINE h == Disposed(tries[i])
<1>2. win \in Windows /\ bind \in Nat /\ open \in BOOLEAN /\ tries[i] \in Handle
  BY <1>1 DEF Types, Windows
<1>3. /\ h \in Handle
      /\ h.st = "gone" /\ h.of = NoRead /\ h.bind = 0
      /\ ~Trusts(h)
  BY <1>2, DisposedIs DEF Trusts
<1>4. tries' = [tries EXCEPT ![i] = h]
  BY DEF LatePublication
<1> HIDE DEF h
<1>5. /\ tries' \in Seq(Handle) /\ Len(tries') = Len(tries)
      /\ tries'[i] = h /\ \A j \in DOMAIN tries \ {i} : tries'[j] = tries[j]
  BY <1>1, <1>3, <1>4, ToldOne
<1>6. Calm
  BY <1>3, <1>5 DEF Calm
<1>7. Wary
  BY <1>1, <1>3, <1>5, WaryIs
<1>8. Types'
  BY <1>1, <1>6, QuietTypes DEF LatePublication, upstream, owner, transcript, refold, Pumps, Types
<1> QED
  BY <1>6, <1>7, <1>8, QuietKeeps
     DEF LatePublication, upstream, owner, transcript, refold, Pumps

(* An attempt that was superseded installs nothing.                        *)
LEMMA InitSupersededKeeps ==
  ASSUME IInv, NEW i \in DOMAIN tries, InitSuperseded(i)
  PROVE  IInv'
<1>1. Types
  BY DEF IInv
<1> DEFINE h == Blank("gone", NoRead)
<1>2. h \in Handle /\ h.st = "gone" /\ h.of = NoRead /\ h.bind = 0
  BY BlankIs DEF Blank
<1>3. tries' = [tries EXCEPT ![i] = h]
  BY DEF InitSuperseded, Dropped
<1> HIDE DEF h
<1>4. /\ tries' \in Seq(Handle) /\ Len(tries') = Len(tries)
      /\ tries'[i] = h /\ \A j \in DOMAIN tries \ {i} : tries'[j] = tries[j]
  BY <1>1, <1>2, <1>3, ToldOne
<1>5. Calm
  BY <1>2, <1>4 DEF Calm
<1>6. Wary
  BY <1>1, <1>2, <1>4, WaryIs DEF Trusts
<1>7. Types'
  BY <1>1, <1>5, QuietTypes DEF InitSuperseded, upstream, owner, transcript, refold, Pumps, Types
<1> QED
  BY <1>5, <1>6, <1>7, QuietKeeps
     DEF InitSuperseded, upstream, owner, transcript, refold, Pumps

(* The microtask of a handle starts a round, or asks for another one.      *)
LEMMA WakeKeeps ==
  ASSUME IInv, NEW i \in DOMAIN tries, Wake(i)
  PROVE  IInv'
<1>1. Types
  BY DEF IInv
<1> DEFINE h == [tries[i] EXCEPT !.queued = FALSE]
<1>2. /\ h \in Handle /\ h.st = tries[i].st /\ h.of = tries[i].of /\ h.bind = tries[i].bind
      /\ h.mode = tries[i].mode /\ h.last = tries[i].last
  <2>1. tries[i] \in Handle
    BY <1>1 DEF Types
  <2> QED
    BY <2>1 DEF Handle
<1>3. tries' = [tries EXCEPT ![i] = h]
  BY DEF Wake
<1> HIDE DEF h
<1>4. /\ tries' \in Seq(Handle) /\ Len(tries') = Len(tries)
      /\ tries'[i] = h /\ \A j \in DOMAIN tries \ {i} : tries'[j] = tries[j]
  BY <1>1, <1>2, <1>3, ToldOne
<1>5. Calm
  BY <1>2, <1>4 DEF Calm
<1>6. Wary
  BY <1>1, <1>2, <1>4, WaryIs DEF Trusts
<1>7. Pumps /\ pending' \in BOOLEAN
  <2>1. (pending' = TRUE \/ pending' = FALSE \/ pending' = pending) /\ Pumps
    BY DEF Wake, Round, refold, Pumps
  <2> QED
    BY <1>1, <2>1 DEF Types
<1>8. Types'
  BY <1>1, <1>5, <1>7, QuietTypes DEF Wake, upstream, owner, transcript, Types
<1> QED
  BY <1>5, <1>6, <1>7, <1>8, QuietKeeps DEF Wake, upstream, owner, transcript

(* An event that no window shows.                                          *)
LEMMA ProduceKeeps ==
  ASSUME IInv, Produce
  PROVE  IInv'
<1>1. /\ log' = log + 1 /\ log < MaxEvents /\ (win.conn # conn \/ conn = 0)
      /\ UNCHANGED <<conn, conns, bind, win, open, incidents, own, due, fold, foldOf,
                     tries, slot, rolled, retried, armed, pump, pending>>
  BY DEF Produce, owner, transcript, inits, refold
<1>2. log \in Nat /\ MaxEvents \in Nat
  BY BoundsAssumption DEF IInv, Types
<1>3. Types' /\ Owners'
  BY <1>1, <1>2 DEF IInv, Types, Owners
<1>4. Generations'
  BY <1>1, <1>2 DEF IInv, Types, Windows, Generations
<1>5. Reads'
  <2>1. ASSUME NEW s \in Read, Dated(s)
        PROVE  s.hi <= log + 1
    <3>1. s.hi \in Nat /\ s.hi <= log
      BY <2>1 DEF Dated, Read
    <3> QED
      BY <1>2, <3>1
  <2>2. pump.of \in Read /\ \A i \in DOMAIN tries : tries[i].of \in Read
    BY ReadTypes DEF IInv
  <2> QED
    BY <1>1, <2>1, <2>2 DEF IInv, Reads, Dated
<1>6. Attempts'
  BY <1>1 DEF IInv, Attempts, Trying
<1>7. Pump'
  BY <1>1 DEF IInv, Pump, Trying
<1>8. Folds'
  BY <1>1 DEF IInv, Folds, FoldHasNoHole, TrustedFoldIsTheWindow, Trusted, UpTo, Trying
<1>9. Count'
  BY <1>1 DEF IInv, Count, Init01, Retried01, Trying
<1> QED
  BY <1>3, <1>4, <1>5, <1>6, <1>7, <1>8, <1>9 DEF IInv

-----------------------------------------------------------------------------
\* Publications.

(* The window moves on: what is appended are changes of their own.         *)
Grows(w) == /\ w.rev > win.rev /\ w.hi >= win.hi /\ w.hi <= log' /\ w.conn <= conns
            /\ log' >= log /\ log' \in 0..MaxEvents /\ w.hi <= MaxEvents
            /\ incidents' \in {incidents, incidents + 1} /\ incidents' \in 0..MaxIncidents
            /\ conn # 0 /\ w.conn = conn => w.hi = log'
            /\ w.kind = "append" => w.hi = win.hi + (w.rev - win.rev)

Heard(w) == {i \in DOMAIN tries : Delivers(tries[i], w, bind)}

(* At most the handle that is installed folds a delta, and it continues    *)
(* the transcript.                                                         *)
LEMMA HeardOnce ==
  ASSUME IInv, NEW w \in Windows, Grows(w)
  PROVE  \/ Heard(w) = {}
         \/ /\ Heard(w) = {slot} /\ slot # 0 /\ Trusts(tries[slot])
            /\ w.hi = Len(fold) + 1 /\ Len(fold) = win.hi
<1> SUFFICES ASSUME NEW i \in Heard(w)
             PROVE  /\ Heard(w) = {slot} /\ slot # 0 /\ Trusts(tries[slot])
                    /\ w.hi = Len(fold) + 1 /\ Len(fold) = win.hi
  OBVIOUS
<1>1. \A j \in Heard(w) : j = slot
  BY DEF Heard, Delivers, IInv, Attempts
<1>2. i = slot /\ slot \in DOMAIN tries /\ Delivers(tries[slot], w, bind) /\ Heard(w) = {slot}
  BY <1>1 DEF Heard
<1>3. slot # 0 /\ Trusts(tries[slot]) /\ Trusted
  BY <1>2 DEF Delivers, Trusts, Trusted, IInv, Types
<1>4. tries[slot].last = win.rev /\ Len(fold) = win.hi
  BY <1>3 DEF IInv, Folds, TrustedFoldIsTheWindow
<1>5. w.rev = win.rev + 1 /\ w.kind = "append"
  BY <1>2, <1>4 DEF Delivers, IsNext
<1>6. w.hi \in Nat /\ win.hi \in Nat /\ win.rev \in Nat
  BY DEF IInv, Types, Windows
<1> QED
  BY <1>2, <1>3, <1>4, <1>5, <1>6 DEF Grows

(* The events up to one, one more of them, and no more of them.            *)
LEMMA UpToIs ==
  ASSUME NEW n \in Nat
  PROVE  /\ UpTo(n) \in Seq(1..n) /\ Len(UpTo(n)) = n
         /\ \A i \in 1..n : UpTo(n)[i] = i
<1>1. UpTo(n) \in [1..n -> 1..n]
  BY DEF UpTo
<1> QED
  BY <1>1, SeqDef DEF UpTo

(* An element more at the end.                                             *)
LEMMA OneAtTheEnd ==
  ASSUME NEW S, NEW s \in Seq(S), NEW t \in Seq(S), Len(t) = 1
  PROVE  /\ s \o t \in Seq(S) /\ Len(s \o t) = Len(s) + 1
         /\ \A i \in 1..Len(s) : (s \o t)[i] = s[i]
         /\ (s \o t)[Len(s) + 1] = t[1]
<1>1. Len(s) \in Nat
  OBVIOUS
<1>2. /\ s \o t \in Seq(S) /\ Len(s \o t) = Len(s) + 1
      /\ \A i \in 1..Len(s) + 1 : (s \o t)[i] = IF i <= Len(s) THEN s[i] ELSE t[i - Len(s)]
  <2>1. /\ s \o t \in Seq(S) /\ Len(s \o t) = Len(s) + Len(t)
        /\ \A i \in 1..Len(s) + Len(t) :
             (s \o t)[i] = IF i <= Len(s) THEN s[i] ELSE t[i - Len(s)]
    BY ConcatProperties, Zenon
  <2>2. Len(s) + Len(t) = Len(s) + 1
    OBVIOUS
  <2> QED
    BY <2>1, <2>2, Zenon
<1>3. /\ Len(s) + 1 \in 1..Len(s) + 1 /\ ~(Len(s) + 1 <= Len(s))
      /\ Len(s) + 1 - Len(s) = 1 /\ \A i \in 1..Len(s) : i \in 1..Len(s) + 1 /\ i <= Len(s)
  BY <1>1
<1>4. (s \o t)[Len(s) + 1] = t[1]
  BY <1>2, <1>3
<1> QED
  BY <1>2, <1>3, <1>4

(* The next event continues the events so far.                             *)
LEMMA OneMore ==
  ASSUME NEW n \in Nat
  PROVE  UpTo(n) \o [i \in 1..1 |-> n + 1] = UpTo(n + 1)
<1> DEFINE g == [i \in 1..1 |-> n + 1]
<1>1. g \in Seq(1..n + 1) /\ Len(g) = 1 /\ g[1] = n + 1
  <2>1. g \in [1..1 -> 1..n + 1]
    OBVIOUS
  <2> QED
    BY <2>1, SeqDef
<1>2. UpTo(n) \in Seq(1..n + 1) /\ Len(UpTo(n)) = n /\ \A i \in 1..n : UpTo(n)[i] = i
  BY UpToIs, SeqMonotonic
<1> HIDE DEF g
<1>3. /\ UpTo(n) \o g \in Seq(1..n + 1) /\ Len(UpTo(n) \o g) = n + 1
      /\ \A i \in 1..n : (UpTo(n) \o g)[i] = i
      /\ (UpTo(n) \o g)[n + 1] = n + 1
  BY <1>1, <1>2, OneAtTheEnd
<1>4. \A i \in 1..n + 1 : (UpTo(n) \o g)[i] = UpTo(n + 1)[i]
  <2>1. \A i \in 1..n + 1 : UpTo(n + 1)[i] = i
    BY UpToIs
  <2>2. \A i \in 1..n + 1 : i \in 1..n \/ i = n + 1
    OBVIOUS
  <2> QED
    BY <1>3, <2>1, <2>2
<1>5. UpTo(n + 1) \in Seq(1..n + 1) /\ Len(UpTo(n + 1)) = n + 1
  BY UpToIs
<1>6. UpTo(n) \o g = UpTo(n + 1)
  BY <1>3, <1>4, <1>5, SeqEqual
<1> QED
  BY <1>6 DEF g

(* Nothing is folded when nobody trusts the delta.                         *)
LEMMA NoMore ==
  ASSUME NEW n \in Nat, NEW x \in Nat
  PROVE  UpTo(n) \o [i \in 1..0 |-> x] = UpTo(n)
<1> DEFINE g == [i \in 1..0 |-> x]
<1>1. g = <<>>
  <2>1. g \in [1..0 -> Nat]
    OBVIOUS
  <2>2. g \in Seq(Nat) /\ Len(g) = 0
    BY <2>1, SeqDef
  <2> HIDE DEF g
  <2> QED
    BY <2>2, EmptySeq
<1> HIDE DEF g
<1>2. UpTo(n) \o g = UpTo(n)
  BY <1>1, UpToIs, ConcatEmptySeq
<1> QED
  BY <1>2 DEF g

(* The bounds are numbers.                                                 *)
LEMMA BoundsAre == MaxEvents \in Nat /\ MaxIncidents \in Nat
BY BoundsAssumption

(* A transcript of the events up to one has no hole.                       *)
LEMMA NoHole ==
  ASSUME NEW m \in 0..MaxEvents, fold' = UpTo(m)
  PROVE  fold' \in Seq(1..MaxEvents) /\ FoldHasNoHole' /\ Len(fold') = m
<1>1. UpTo(m) \in Seq(1..MaxEvents) /\ Len(UpTo(m)) = m
  <2>1. m \in Nat /\ 1..m \subseteq 1..MaxEvents
    BY BoundsAre
  <2> QED
    BY <2>1, UpToIs, SeqMonotonic
<1>2. Len(fold') = m
  BY <1>1
<1>3. fold' = UpTo(Len(fold'))
  BY <1>2
<1>4. FoldHasNoHole'
  BY <1>3 DEF FoldHasNoHole, UpTo
<1> QED
  BY <1>1, <1>2, <1>4

(* The transcript is a prefix of the log of the Host.                      *)
LEMMA FoldIs ==
  ASSUME IInv
  PROVE  fold = UpTo(Len(fold)) /\ Len(fold) \in 0..MaxEvents
<1>1. fold \in Seq(1..MaxEvents) /\ fold = UpTo(Len(fold)) /\ Len(fold) \in Nat
  BY DEF IInv, Types, Folds, FoldHasNoHole
<1>2. ASSUME Len(fold) > 0
      PROVE  Len(fold) <= MaxEvents
  <2>3. Len(fold) \in 1..Len(fold)
    BY <1>1, <1>2
  <2>1. fold[Len(fold)] \in 1..MaxEvents
    <3>1. fold \in Seq(1..MaxEvents)
      BY <1>1
    <3> QED
      BY <3>1, <2>3, ElementOfSeq
  <2>2. UpTo(Len(fold))[Len(fold)] = Len(fold)
    BY <1>1, <1>2, UpToIs
  <2> QED
    BY <1>1, <2>1, <2>2, BoundsAre
<1> QED
  BY <1>1, <1>2, BoundsAre

(* The transcript after a publication.                                     *)
LEMMA HeardFolds ==
  ASSUME IInv, NEW w \in Windows, Grows(w),
         fold' = fold \o [i \in 1..Cardinality(Heard(w)) |-> w.hi]
  PROVE  /\ fold' \in Seq(1..MaxEvents) /\ FoldHasNoHole' /\ Len(fold') >= Len(fold)
         /\ Heard(w) = {} => fold' = fold
         /\ Heard(w) # {} => Len(fold') = w.hi
<1>1. fold = UpTo(Len(fold)) /\ Len(fold) \in 0..MaxEvents /\ w.hi \in Nat
  BY FoldIs DEF Windows
<1>2. CASE Heard(w) = {}
  <2>1. Cardinality(Heard(w)) = 0
    BY <1>2, FS_EmptySet
  <2>2. fold' = UpTo(Len(fold))
    BY <1>1, <2>1, NoMore
  <2>3. fold' \in Seq(1..MaxEvents) /\ FoldHasNoHole' /\ fold' = fold
    BY <1>1, <2>2, NoHole
  <2>4. Len(fold) >= Len(fold)
    BY <1>1
  <2>5. Len(fold') >= Len(fold)
    BY <2>3, <2>4
  <2> QED
    BY <1>2, <2>3, <2>5
<1>3. CASE Heard(w) # {}
  <2>1. Heard(w) = {slot} /\ w.hi = Len(fold) + 1
    BY <1>3, HeardOnce
  <2>2. Cardinality(Heard(w)) = 1
    BY <2>1, FS_Singleton
  <2>6. fold' = UpTo(Len(fold)) \o [i \in 1..1 |-> Len(fold) + 1]
    BY <1>1, <2>1, <2>2
  <2>7. Len(fold) \in Nat
    BY <1>1
  <2>3. fold' = UpTo(Len(fold) + 1)
    BY <2>6, <2>7, OneMore
  <2>4. w.hi \in 0..MaxEvents
    BY <1>1, BoundsAre DEF Grows
  <2>5. fold' \in Seq(1..MaxEvents) /\ FoldHasNoHole' /\ Len(fold') = w.hi
    BY <2>1, <2>3, <2>4, NoHole
  <2>8. w.hi >= Len(fold)
    BY <2>1, <2>7
  <2>9. Len(fold') >= Len(fold)
    BY <2>5, <2>8
  <2> QED
    BY <1>3, <2>5, <2>9
<1> QED
  BY <1>2, <1>3

(* A publication of a window that grows: a handle that goes on trusting    *)
(* deltas has folded exactly the one that is new, and every read of the    *)
(* binding is older than the window now.                                   *)
LEMMA PublishKeeps ==
  ASSUME IInv, NEW w \in Windows, Grows(w), Publish(w)
  PROVE  IInv'
<1>1. Types
  BY DEF IInv
<1> DEFINE H(i) == Published(tries[i], w, bind, open)
<1>2. bind \in Nat /\ open \in BOOLEAN /\ \A i \in DOMAIN tries : tries[i] \in Handle
  BY <1>1 DEF Types
<1>3. \A i \in DOMAIN tries :
        /\ H(i) \in Handle
        /\ H(i).st = tries[i].st /\ H(i).of = tries[i].of /\ H(i).bind = tries[i].bind
        /\ Trusts(H(i)) =>
             /\ Trusts(tries[i]) /\ H(i).last = w.rev
             /\ tries[i].last = w.rev \/ Delivers(tries[i], w, bind)
  BY <1>2, PublishedIs DEF Trusts
<1>4. /\ tries' = [i \in DOMAIN tries |-> H(i)] /\ win' = w
      /\ fold' = fold \o [i \in 1..Cardinality(Heard(w)) |-> w.hi]
      /\ UNCHANGED <<conn, conns, bind, open, own, due, foldOf, slot, rolled, retried, armed,
                     pump, pending>>
  BY DEF Publish, Heard, owner, refold
<1> HIDE DEF H
<1>5. tries' \in Seq(Handle) /\ Len(tries') = Len(tries) /\ DOMAIN tries' = DOMAIN tries
  BY <1>1, <1>3, <1>4, Told
<1>6. Calm
  BY <1>3, <1>4, <1>5 DEF Calm
<1>7. /\ fold' \in Seq(1..MaxEvents) /\ FoldHasNoHole' /\ Len(fold') >= Len(fold)
      /\ Heard(w) = {} => fold' = fold
      /\ Heard(w) # {} => Len(fold') = w.hi
  BY <1>4, HeardFolds
<1>8. Types'
  BY <1>1, <1>4, <1>5, <1>7 DEF Types, Grows, Windows
<1>9. Owners' /\ Generations'
  <2>1. Owners'
    BY <1>4 DEF IInv, Owners
  <2>2. incidents \in Nat /\ incidents' \in Nat /\ conns \in Nat
    BY <1>1, <1>8, BoundsAre DEF Types
  <2>3. Generations'
    <3>1. PICK n \in Nat : /\ n = incidents'
                           /\ conn # 0 => conns <= 1 + n
                           /\ conn = 0 => conns <= n
      <4>1. /\ conn # 0 => conns <= 1 + incidents
            /\ conn = 0 => conns <= incidents
            /\ incidents' \in {incidents, incidents + 1}
        BY DEF IInv, Generations, Grows
      <4>2. CASE incidents' = incidents
        BY <2>2, <4>1, <4>2
      <4>3. CASE incidents' = incidents + 1
        <5>1. PICK n \in Nat : n = incidents + 1
          BY <2>2
        <5> QED
          BY <2>2, <4>1, <4>3, <5>1
      <4> QED
        BY <4>1, <4>2, <4>3
    <3>2. /\ w.conn <= conns /\ w.hi <= log'
          /\ conn # 0 /\ w.conn = conn => w.hi = log'
      BY DEF Grows
    <3>3. conn' = conn /\ conns' = conns /\ win' = w
      BY <1>4
    <3> QED
      BY <2>2, <3>1, <3>2, <3>3 DEF Generations
  <2> QED
    BY <2>1, <2>3
<1>10. /\ win.rev \in Nat /\ win.hi \in Nat /\ log \in Nat /\ log' \in Nat
       /\ w.rev \in Nat /\ w.hi \in Nat
  BY <1>1, <1>8 DEF Types, Windows
<1>11. \A s \in Read : Dated(s) =>
         Dated(s)' /\ (s.bind = bind => s.rev # w.rev)
  <2>1. ASSUME NEW s \in Read, Dated(s)
        PROVE  Dated(s)' /\ (s.bind = bind => s.rev # w.rev)
    <3>1. s.rev \in Nat /\ s.hi \in Nat
      BY DEF Read
    <3> QED
      BY <1>4, <1>10, <2>1, <3>1 DEF Dated, Grows
  <2> QED
    BY <2>1
<1>12. Reads'
  <2>1. NoRead \in Read /\ Dated(NoRead)
    BY <1>1, BlankIs DEF Dated, NoRead, Types
  <2>2. \A i \in DOMAIN tries : tries'[i].of \in {tries[i].of, NoRead}
    BY <1>6 DEF Calm
  <2>3. Dated(pump.of) /\ \A i \in DOMAIN tries : Dated(tries[i].of)
    BY DEF IInv, Reads
  <2>4. \A s \in Read : Dated(s) => Dated(s)'
    BY <1>11
  <2>5. \A i \in DOMAIN tries' : tries'[i].of \in Read /\ Dated(tries'[i].of)
    BY <1>1, <1>5, <2>1, <2>2, <2>3, ReadTypes
  <2>6. \A s \in Read : Dated(s) =>
          /\ s.bind <= bind' /\ s.conn <= conns' /\ s.own <= own' /\ s.hi <= log'
          /\ s.bind = bind' => s.rev <= win'.rev /\ s.hi <= win'.hi
          /\ s.bind = bind' /\ s.rev = win'.rev => s.hi = win'.hi
    BY <2>4 DEF Dated
  <2>7. Dated(pump.of)'
    BY <1>1, <1>4, <2>3, <2>6, ReadTypes DEF Dated
  <2>8. \A i \in DOMAIN tries' : Dated(tries[i].of)'
    BY <2>5, <2>6 DEF Dated
  <2> QED
    BY <2>7, <2>8 DEF Reads
<1>13. Attempts'
  BY <1>1, <1>4, <1>6, <1>8, CalmAttempts DEF IInv
<1>14. \A i \in DOMAIN tries : Trying(i)' =>
         Trying(i) /\ tries'[i].st = tries[i].st /\ tries'[i].of = tries[i].of
  BY <1>1, <1>4, <1>6, CalmTrying
<1>15. Pump'
  <2>1. pump.of.bind = bind => pump.of.rev # w.rev
    BY <1>1, <1>11, ReadTypes DEF IInv, Reads
  <2> QED
    BY <1>4, <1>5, <1>14, <2>1 DEF IInv, Pump
<1>16. TrustedFoldIsTheWindow'
  <2>1. ASSUME Trusted'
        PROVE  tries'[slot].last = w.rev /\ Len(fold') = w.hi
    <3>1. slot # 0 /\ slot \in DOMAIN tries /\ Trusts(tries'[slot])
      BY <1>1, <1>4, <2>1 DEF Trusted, Trusts, Types
    <3>2. Trusts(tries[slot]) /\ tries'[slot].last = w.rev
          /\ (tries[slot].last = w.rev \/ Delivers(tries[slot], w, bind))
      BY <1>3, <1>4, <3>1
    <3>3. tries[slot].last = win.rev
      BY <3>1, <3>2 DEF Trusts, Trusted, TrustedFoldIsTheWindow, IInv, Folds
    <3>4. Heard(w) # {}
      BY <1>10, <3>1, <3>2, <3>3 DEF Heard, Grows
    <3> QED
      BY <1>7, <3>2, <3>4
  <2> QED
    BY <1>4, <2>1 DEF TrustedFoldIsTheWindow
<1>17. Folds'
  <2>1. (foldOf = <<own, bind>> => Len(fold) <= win.hi)'
    <3>1. foldOf = <<own, bind>> => Len(fold) <= win.hi
      BY DEF IInv, Folds
    <3>2. Len(fold) \in Nat /\ w.hi >= win.hi
      BY <1>1 DEF Types, Grows
    <3>3. foldOf = <<own, bind>> => Len(fold') <= w.hi
      BY <1>7, <1>10, <3>1, <3>2
    <3> QED
      BY <1>4, <3>3
  <2>2. ASSUME NEW i \in DOMAIN tries', Trying(i)', tries'[i].of.bind = bind'
        PROVE  /\ tries'[i].of.rev # win'.rev
               /\ tries'[i].st = "read" /\ foldOf' = <<own, bind>>' => Len(fold') <= tries'[i].of.hi
    <3>1. i \in DOMAIN tries /\ Trying(i) /\ tries'[i].st = tries[i].st
          /\ tries'[i].of = tries[i].of
      BY <1>5, <1>14, <2>2
    <3>2. tries[i].of \in Read /\ Dated(tries[i].of)
      BY <1>1, <3>1, ReadTypes DEF IInv, Reads
    <3>3. slot = 0
      BY <3>1 DEF IInv, Attempts
    <3>4. fold' = fold
      BY <1>7, <3>3, HeardOnce
    <3> QED
      BY <1>4, <1>11, <2>2, <3>1, <3>2, <3>4 DEF IInv, Folds
  <2> QED
    BY <1>7, <1>16, <2>1, <2>2 DEF Folds
<1>18. Count'
  BY <1>1, <1>4, <1>6, <1>8, CalmCount DEF IInv
<1> QED
  BY <1>8, <1>9, <1>12, <1>13, <1>15, <1>17, <1>18 DEF IInv

(* Deltas of the generation that is up.                                    *)
LEMMA DeliverKeeps ==
  ASSUME IInv, NEW n \in {1, 2}, Deliver(n)
  PROVE  IInv' /\ Len(fold') >= Len(fold)
<1> DEFINE w == [rev |-> win.rev + n, hi |-> log', conn |-> conn, kind |-> "append"]
<1>1. log \in Nat /\ log' = log + n /\ log' <= MaxEvents /\ win.hi = log /\ win.rev \in Nat
      /\ conn \in Nat /\ conn <= conns /\ MaxEvents \in Nat /\ incidents' = incidents
      /\ incidents \in 0..MaxIncidents
  BY BoundsAre DEF Deliver, IInv, Types, Generations
<1>2. w \in Windows /\ Publish(w)
  BY <1>1 DEF Deliver, Windows
<1>3. Grows(w)
  BY <1>1 DEF Grows
<1> HIDE DEF w
<1> QED
  BY <1>2, <1>3, PublishKeeps, HeardFolds DEF Publish, Heard

(* The opening page of a generation.                                       *)
LEMMA OpeningPageKeeps ==
  ASSUME IInv, OpeningPage
  PROVE  IInv' /\ Len(fold') >= Len(fold)
<1> DEFINE w == [rev |-> win.rev + 1, hi |-> log, conn |-> conn, kind |-> "replace"]
<1>1. log \in 0..MaxEvents /\ log' = log /\ win.hi <= log /\ win.rev \in Nat
      /\ conn \in Nat /\ conn <= conns /\ MaxEvents \in Nat /\ incidents' = incidents
      /\ incidents \in 0..MaxIncidents /\ win.hi \in Nat
  BY BoundsAre DEF OpeningPage, IInv, Types, Generations
<1>2. w \in Windows /\ Publish(w)
  BY <1>1 DEF OpeningPage, Windows
<1>3. Grows(w)
  BY <1>1 DEF Grows
<1> HIDE DEF w
<1> QED
  BY <1>2, <1>3, PublishKeeps, HeardFolds DEF Publish, Heard

(* A page of older history.                                                *)
LEMMA PrependKeeps ==
  ASSUME IInv, Prepend
  PROVE  IInv' /\ Len(fold') >= Len(fold)
<1> DEFINE w == [win EXCEPT !.rev = @ + 1, !.kind = "prepend"]
<1>1. log \in 0..MaxEvents /\ log' = log /\ win.hi <= log /\ win \in Windows
      /\ incidents \in 0..MaxIncidents /\ MaxIncidents \in Nat /\ MaxEvents \in Nat
      /\ incidents < MaxIncidents /\ incidents' = incidents + 1
      /\ win.conn <= conns /\ (conn # 0 /\ win.conn = conn => win.hi = log)
  BY BoundsAre DEF Prepend, Incident, IInv, Types, Generations, Windows
<1>2. /\ w \in Windows /\ w.rev = win.rev + 1 /\ w.hi = win.hi /\ w.conn = win.conn
      /\ w.kind = "prepend"
  <2>1. win.rev \in Nat /\ win.rev + 1 \in Nat
    BY <1>1 DEF Windows
  <2>2. PICK r \in Nat : r = win.rev + 1
    BY <2>1
  <2>3. w = [win EXCEPT !.rev = r, !.kind = "prepend"]
    BY <2>2
  <2> QED
    BY <1>1, <2>2, <2>3 DEF Windows
<1>3. Publish(w)
  BY DEF Prepend
<1>4. Grows(w)
  BY <1>1, <1>2 DEF Grows, Windows
<1> HIDE DEF w
<1> QED
  BY <1>2, <1>3, <1>4, PublishKeeps, HeardFolds DEF Publish, Heard


-----------------------------------------------------------------------------
\* The owner of the surface.

(* The binding is replaced: nothing that was read or attached is of it.    *)
LEMMA RebindKeeps ==
  ASSUME IInv, Rebind
  PROVE  IInv'
<1>1. /\ due = "no" /\ own = 1 /\ incidents < MaxIncidents /\ incidents' = incidents + 1
      /\ bind' = bind + 1 /\ due' = "commit" /\ open' = FALSE
      /\ win' = [rev |-> 0, hi |-> 0, conn |-> 0, kind |-> "none"]
      /\ UNCHANGED <<conn, conns, log, own, fold, foldOf, tries, slot, rolled, retried, armed,
                     pump, pending>>
  BY DEF Rebind, OwnerChanges, Incident, transcript, inits, refold
<1>2. /\ bind \in Nat \ {0} /\ incidents \in Nat /\ log \in Nat /\ conns \in Nat
      /\ conn \in Nat /\ own \in Nat
  BY BoundsAre DEF IInv, Types
<1>3. Types'
  <2>1. bind + 1 \in Nat \ {0} /\ incidents + 1 \in 0..MaxIncidents
    BY <1>1, <1>2, BoundsAre
  <2>2. bind' \in Nat \ {0} /\ incidents' \in 0..MaxIncidents
    BY <1>1, <2>1
  <2>3. win' \in Windows /\ due' \in {"no", "commit", "init"} /\ open' \in BOOLEAN
    BY <1>1 DEF Windows
  <2> QED
    BY <1>1, <2>2, <2>3 DEF IInv, Types, Windows
<1>4. Owners'
  BY <1>1, <1>2 DEF IInv, Owners, Types
<1>5. Generations'
  BY <1>1, <1>2 DEF IInv, Generations
<1>6. ASSUME NEW s \in Read, Dated(s)
      PROVE  s.bind <= bind + 1 /\ s.bind # bind + 1
  BY <1>2, <1>6 DEF Dated, Read
<1>7. pump.of \in Read /\ \A i \in DOMAIN tries : tries[i].of \in Read
  BY ReadTypes DEF IInv
<1>8. Dated(pump.of) /\ \A i \in DOMAIN tries : Dated(tries[i].of)
  BY DEF IInv, Reads
<1>9. Reads'
  BY <1>1, <1>6, <1>7, <1>8 DEF Reads, Dated
<1>10. ASSUME NEW i \in DOMAIN tries
       PROVE  tries[i].bind <= bind + 1 /\ tries[i].bind # bind + 1
  <2>1. tries[i] \in Handle
    BY DEF IInv, Types
  <2>2. tries[i].bind \in Nat /\ tries[i].bind <= bind
    BY <2>1 DEF IInv, Attempts, Handle
  <2> QED
    BY <1>2, <2>2
<1>11. Attempts'
  BY <1>1, <1>10 DEF IInv, Attempts, Trying
<1>12. pump.of.bind # bind' /\ \A i \in DOMAIN tries : tries[i].of.bind # bind'
  BY <1>1, <1>6, <1>7, <1>8
<1>13. Pump'
  BY <1>1, <1>12 DEF IInv, Pump, Trying
<1>14. foldOf # <<own, bind>>' /\ ~Trusted'
  <2>1. foldOf[2] \in Nat /\ foldOf[2] <= bind
    BY DEF IInv, Types, Owners
  <2>2. foldOf[2] # bind + 1
    BY <1>2, <2>1
  <2>3. slot # 0 => slot \in DOMAIN tries
    BY DEF IInv, Types
  <2> QED
    BY <1>1, <1>10, <2>2, <2>3 DEF Trusted
<1>15. Folds'
  BY <1>1, <1>12, <1>14 DEF IInv, Folds, FoldHasNoHole, TrustedFoldIsTheWindow, UpTo
<1>16. Count'
  BY <1>1, CountStays DEF IInv, Count, Init01, Retried01, Trying
<1> QED
  BY <1>3, <1>4, <1>5, <1>9, <1>11, <1>13, <1>15, <1>16 DEF IInv

(* The owner is replaced: no attempt is of the new one, whose init is due. *)
LEMMA CommitKeeps ==
  ASSUME IInv, Commit
  PROVE  IInv'
<1>1. /\ own = 1 /\ own' = 2 /\ due # "init" /\ due' = "init"
      /\ incidents' \in {incidents, incidents + 1} /\ incidents' \in 0..MaxIncidents
      /\ UNCHANGED <<conn, conns, bind, win, open, log, fold, foldOf, tries, slot, rolled,
                     retried, armed, pump, pending>>
  <2>1. own = 1 /\ due # "init"
    BY DEF Commit, OwnerChanges, IInv, Owners
  <2>2. incidents' = incidents \/ (incidents < MaxIncidents /\ incidents' = incidents + 1)
    BY DEF Commit, OwnerChanges, Incident
  <2>3. incidents' \in 0..MaxIncidents
    BY <2>2, BoundsAre DEF IInv, Types
  <2> QED
    BY <2>1, <2>2, <2>3 DEF Commit, transcript, inits, refold
<1>2. Types'
  BY <1>1 DEF IInv, Types
<1>3. Owners'
  <2>1. foldOf[1] <= 2
    BY <1>1 DEF IInv, Types, Owners
  <2> QED
    BY <1>1, <2>1 DEF IInv, Owners
<1>4. Generations'
  <2>1. incidents \in Nat /\ conns \in Nat
    BY BoundsAre DEF IInv, Types
  <2>2. PICK n \in Nat : n = incidents' /\ (conn # 0 => conns <= 1 + n) /\ (conn = 0 => conns <= n)
    <3>1. (conn # 0 => conns <= 1 + incidents) /\ (conn = 0 => conns <= incidents)
      BY DEF IInv, Generations
    <3>2. CASE incidents' = incidents
      BY <2>1, <3>1, <3>2
    <3>3. CASE incidents' = incidents + 1
      <4>1. PICK n \in Nat : n = incidents + 1
        BY <2>1
      <4> QED
        BY <2>1, <3>1, <3>3, <4>1
    <3> QED
      BY <1>1, <3>2, <3>3
  <2> QED
    BY <1>1, <2>2 DEF IInv, Generations
<1>5. ASSUME NEW s \in Read, Dated(s)
      PROVE  s.own <= 2 /\ s.own # 2
  BY <1>1, <1>5 DEF Dated, Read
<1>6. pump.of \in Read /\ \A i \in DOMAIN tries : tries[i].of \in Read
  BY ReadTypes DEF IInv
<1>7. Reads'
  BY <1>1, <1>5, <1>6 DEF IInv, Reads, Dated
<1>8. \A i \in DOMAIN tries : ~Trying(i)'
  BY <1>1, <1>5, <1>6 DEF IInv, Reads, Trying
<1>9. Attempts'
  <2>1. armed # 2
    BY <1>1 DEF IInv, Types
  <2> QED
    BY <1>1, <1>8, <2>1 DEF IInv, Attempts
<1>10. Pump'
  BY <1>1, <1>8 DEF IInv, Pump
<1>11. Folds'
  <2>1. foldOf # <<own, bind>>'
    BY <1>1 DEF IInv, Types, Owners
  <2> QED
    BY <1>1, <1>8, <2>1 DEF IInv, Folds, FoldHasNoHole, TrustedFoldIsTheWindow, Trusted, UpTo
<1>12. Count'
  <2>1. Init01 = 0 /\ Init01' = 1 /\ Retried01 \in {0, 1} /\ Retried01' = 0
    BY <1>1 DEF Init01, Retried01
  <2>2. conns \in Nat /\ Len(tries) \in Nat
    BY DEF IInv, Types
  <2>3. Len(tries) <= (2 - 1) + 2 * (conns - 1) + (2 - 1) + 0
    BY <1>1, <2>1, <2>2 DEF IInv, Count
  <2> QED
    BY <1>1, <2>1, <2>3 DEF Count
<1> QED
  BY <1>2, <1>3, <1>4, <1>7, <1>9, <1>10, <1>11, <1>12 DEF IInv

-----------------------------------------------------------------------------
\* The init attempts.

(* A step that starts an attempt disposes what stood on the surface.       *)
Starts ==
  /\ tries' \in Seq(Handle) /\ Len(tries') = Len(tries) + 1
  /\ \A i \in DOMAIN tries :
       \/ i # slot /\ ~Trying(i) /\ tries'[i] = tries[i]
       \/ tries'[i].st = "gone" /\ tries'[i].of = NoRead /\ tries'[i].bind = 0
  /\ tries'[Len(tries) + 1] = Blank("read", ReadUnder(conn'))
  /\ slot' = 0 /\ armed' = 0 /\ due' # "init" /\ due' \in {due, "no"}

(* The attempts after another has been started.                            *)
LEMMA AnotherIs ==
  ASSUME NEW ts \in Seq(Handle), NEW h \in Handle
  PROVE  /\ Append(ts, h) \in Seq(Handle) /\ Len(Append(ts, h)) = Len(ts) + 1
         /\ \A i \in DOMAIN ts : Append(ts, h)[i] = ts[i]
         /\ Append(ts, h)[Len(ts) + 1] = h
<1>1. Len(ts) \in Nat /\ DOMAIN ts = 1..Len(ts)
  OBVIOUS
<1> QED
  BY <1>1, AppendProperties

(* The attempts once one more has been started.                            *)
LEMMA StartsTypes ==
  ASSUME Types, Starts, conn' \in Nat
  PROVE  /\ Len(tries) \in Nat /\ Len(tries') \in Nat
         /\ DOMAIN tries = 1..Len(tries) /\ DOMAIN tries' = 1..Len(tries')
         /\ DOMAIN tries' = DOMAIN tries \union {Len(tries')}
         /\ Len(tries') \notin DOMAIN tries
         /\ tries'[Len(tries')].of = ReadUnder(conn') /\ tries'[Len(tries')].st = "read"
         /\ tries'[Len(tries')].bind = 0
<1>1. Len(tries) \in Nat /\ DOMAIN tries = 1..Len(tries)
  BY DEF Types
<1>2. Len(tries') = Len(tries) + 1 /\ DOMAIN tries' = 1..Len(tries')
  BY DEF Starts
<1>3. 1..Len(tries) + 1 = 1..Len(tries) \union {Len(tries) + 1}
      /\ Len(tries) + 1 \notin 1..Len(tries) /\ Len(tries) + 1 \in Nat
  BY <1>1
<1>4. tries'[Len(tries')] = Blank("read", ReadUnder(conn'))
  BY <1>2 DEF Starts
<1> QED
  BY <1>1, <1>2, <1>3, <1>4 DEF Blank

(* An attempt that starts has read the window of the moment, and finds no  *)
(* handle on the surface.                                                  *)
LEMMA StartKeeps ==
  ASSUME IInv, Types', Starts, Generations', Count', conns' \in {conns, conns + 1},
         UNCHANGED <<own, bind, win, log, fold, foldOf, pump>>
  PROVE  IInv'
<1>1. /\ Types /\ conn' \in Nat /\ conn' <= conns' /\ bind # 0 /\ own # 0
      /\ bind \in Nat /\ own \in Nat /\ win.rev \in Nat /\ win.hi \in Nat /\ log \in Nat
      /\ win.hi <= log /\ conns \in Nat
  BY DEF IInv, Types, Generations
<1> DEFINE n == Len(tries')
<1> DEFINE new == ReadUnder(conn')
<1>2. /\ DOMAIN tries' = DOMAIN tries \union {n} /\ n \notin DOMAIN tries
      /\ n \in Nat /\ tries'[n].of = new /\ tries'[n].st = "read" /\ tries'[n].bind = 0
      /\ DOMAIN tries = 1..Len(tries) /\ DOMAIN tries' = 1..n /\ Len(tries) \in Nat
      /\ n = Len(tries) + 1
  BY <1>1, StartsTypes DEF Starts
<1>3. /\ new \in Read /\ new.own = own
      /\ new.bind = bind \/ (new.bind = 0 /\ new.conn = 0 /\ new.hi = 0)
      /\ new.bind = bind => new.rev = win.rev /\ new.hi = win.hi /\ new.conn = conn'
  BY <1>1, ReadIs
<1>4. \A i \in DOMAIN tries : ~Trying(i)'
  BY DEF Starts, Trying
<1>5. /\ new.bind <= bind' /\ new.conn <= conns' /\ new.own <= own' /\ new.hi <= log'
      /\ new.bind = bind' => new.rev <= win'.rev /\ new.hi <= win'.hi
      /\ new.bind = bind' /\ new.rev = win'.rev => new.hi = win'.hi
  <2>1. new.conn <= conns' /\ new.bind <= bind /\ new.own <= own /\ new.hi <= log
    BY <1>1, <1>3
  <2>2. new.bind = bind => new.rev = win.rev /\ new.hi = win.hi
    BY <1>3
  <2>3. win.rev <= win.rev /\ win.hi <= win.hi
    BY <1>1
  <2> QED
    BY <2>1, <2>2, <2>3
<1> HIDE DEF n, new
<1>6. Owners'
  BY DEF IInv, Owners, Starts
<1>7. Reads'
  <2>1. NoRead \in Read /\ Dated(NoRead)
    BY <1>1, BlankIs DEF Dated, NoRead
  <2>2. \A s \in Read : Dated(s) =>
          /\ s.bind <= bind' /\ s.conn <= conns' /\ s.own <= own' /\ s.hi <= log'
          /\ s.bind = bind' => s.rev <= win'.rev /\ s.hi <= win'.hi
          /\ s.bind = bind' /\ s.rev = win'.rev => s.hi = win'.hi
    <3>1. \A s \in Read : s.conn \in Nat /\ (Dated(s) => s.conn <= conns)
      BY DEF Read, Dated
    <3>2. \A s \in Read : Dated(s) => s.conn <= conns + 1
      BY <1>1, <3>1
    <3> QED
      BY <3>1, <3>2 DEF Dated
  <2>3. \A i \in DOMAIN tries : tries[i].of \in Read /\ Dated(tries[i].of)
    BY <1>1, ReadTypes DEF IInv, Reads
  <2>4. pump.of \in Read /\ Dated(pump.of)
    BY <1>1, ReadTypes DEF IInv, Reads
  <2>5. \A i \in DOMAIN tries : tries'[i].of \in {tries[i].of, NoRead}
    BY DEF Starts
  <2>6. ASSUME NEW i \in DOMAIN tries'
        PROVE  Dated(tries[i].of)'
    <3>1. CASE i = n
      BY <1>2, <1>5, <3>1 DEF Dated
    <3>2. CASE i \in DOMAIN tries
      BY <2>1, <2>2, <2>3, <2>5, <3>2 DEF Dated
    <3> QED
      BY <1>2, <2>6, <3>1, <3>2
  <2>7. Dated(pump.of)'
    BY <2>2, <2>4 DEF Dated
  <2> QED
    BY <2>6, <2>7 DEF Reads
<1>8. Attempts'
  <2>1. (\A i \in DOMAIN tries : Trying(i) =>
           i = Len(tries) /\ slot = 0 /\ due # "init" /\ armed = 0)'
    BY <1>2, <1>4 DEF Starts, n
  <2>2. ASSUME NEW i \in DOMAIN tries'
        PROVE  /\ tries'[i].st \notin {"pending", "attached"}
               /\ tries'[i].bind <= bind
    <3>1. CASE i = n
      BY <1>1, <1>2, <3>1
    <3>2. CASE i \in DOMAIN tries
      BY <1>1, <3>2 DEF IInv, Attempts, Starts
    <3> QED
      BY <1>2, <2>2, <3>1, <3>2
  <2>3. slot' = 0 /\ armed' = 0 /\ due' # "init"
    BY DEF Starts
  <2> QED
    BY <1>1, <2>1, <2>2, <2>3 DEF Attempts
<1>9. Pump'
  <2>1. pump.st # "idle" => pump.at \in 1..n /\ pump.at # n
    BY <1>2 DEF IInv, Pump
  <2>2. ~(pump.st = "acknowledge" /\ slot' = pump.at)
    BY <2>1 DEF Starts
  <2>3. ASSUME NEW i \in DOMAIN tries', pump.st = "read", Trying(i)', tries'[i].of.bind = bind,
               pump.of.bind = bind
        PROVE  pump.of.rev <= tries'[i].of.rev
    <3>1. i = n
      BY <1>2, <1>4, <2>3
    <3>2. tries'[i].of.rev = win.rev
      BY <1>2, <1>3, <2>3, <3>1
    <3>3. pump.of.rev <= win.rev
      BY <2>3 DEF IInv, Reads, Dated
    <3> QED
      BY <3>2, <3>3
  <2> QED
    BY <2>1, <2>2, <2>3 DEF Pump, n
<1>10. Folds'
  <2>1. FoldHasNoHole' /\ TrustedFoldIsTheWindow'
    BY DEF IInv, Folds, FoldHasNoHole, UpTo, Starts, TrustedFoldIsTheWindow, Trusted
  <2>2. foldOf = <<own, bind>> => Len(fold) <= win.hi
    BY DEF IInv, Folds
  <2>3. ASSUME NEW i \in DOMAIN tries', Trying(i)', tries'[i].of.bind = bind
        PROVE  tries'[i].st = "read" /\ tries'[i].of.hi = win.hi
    <3>1. i = n
      BY <1>2, <1>4, <2>3
    <3> QED
      BY <1>2, <1>3, <2>3, <3>1
  <2> QED
    BY <2>1, <2>2, <2>3 DEF Folds
<1> QED
  BY <1>6, <1>7, <1>8, <1>9, <1>10 DEF IInv

(* The init that a commit owes.                                            *)
LEMMA InitSurfaceKeeps ==
  ASSUME IInv, InitSurface
  PROVE  IInv'
<1>1. /\ due = "init" /\ due' = "no" /\ StartInit(tries)
      /\ UNCHANGED <<conn, conns, bind, win, open, log, incidents, own, fold, foldOf,
                     rolled, retried, pump, pending>>
  BY DEF InitSurface, upstream, transcript, refold
<1>2. Types /\ conn \in Nat /\ Len(tries) \in Nat /\ conns \in Nat /\ own \in Nat
  BY DEF IInv, Types
<1>3. \A i \in DOMAIN tries : ~Trying(i) /\ tries[i] \in Handle
  BY <1>1 DEF IInv, Attempts, Types
<1> DEFINE kept == [i \in DOMAIN tries |-> IF i = slot THEN Blank("gone", NoRead) ELSE tries[i]]
<1> DEFINE new == Blank("read", ReadUnder(conn))
<1>4. /\ kept \in Seq(Handle) /\ Len(kept) = Len(tries) /\ DOMAIN kept = DOMAIN tries
      /\ \A i \in DOMAIN tries : \/ i # slot /\ kept[i] = tries[i]
                                 \/ kept[i] = Blank("gone", NoRead)
  <2>1. DOMAIN tries = 1..Len(tries)
    BY <1>2 DEF Types
  <2> QED
    BY <1>2, <1>3, <2>1, BlankIs
<1>5. new \in Handle
  BY <1>2, ReadIs, BlankIs
<1>6. tries' = Append(kept, new) /\ slot' = 0 /\ armed' = 0
  BY <1>1 DEF StartInit
<1> HIDE DEF kept, new
<1>7. /\ tries' \in Seq(Handle) /\ Len(tries') = Len(tries) + 1
      /\ \A i \in DOMAIN tries : tries'[i] = kept[i]
      /\ tries'[Len(tries) + 1] = new
  BY <1>4, <1>5, <1>6, AnotherIs
<1>8. Starts
  <2>1. Blank("gone", NoRead).st = "gone" /\ Blank("gone", NoRead).of = NoRead
        /\ Blank("gone", NoRead).bind = 0
    BY DEF Blank
  <2>2. new = Blank("read", ReadUnder(conn'))
    BY <1>1 DEF new, ReadUnder
  <2> QED
    BY <1>1, <1>3, <1>4, <1>6, <1>7, <2>1, <2>2 DEF Starts
<1>9. Types'
  <2>1. slot' \in 0..Len(tries') /\ armed' \in 0..own'
    BY <1>1, <1>2, <1>6, <1>7
  <2> QED
    BY <1>1, <1>7, <2>1 DEF IInv, Types
<1>10. Generations'
  BY <1>1 DEF IInv, Generations
<1>11. Count'
  <2>1. Init01 = 1 /\ Retried01 = 0 /\ Init01' = 0 /\ Retried01' \in {0, 1}
    BY <1>1 DEF Init01, Retried01
  <2>2. Len(tries) + 1 <= (own - 0) + 2 * (conns - 1) + (own - 1) + 0
    BY <1>2, <2>1 DEF IInv, Count
  <2>3. CASE Retried01' = 0
    BY <1>1, <1>7, <2>1, <2>2, <2>3 DEF Count
  <2>4. CASE Retried01' = 1
    <3>1. Len(tries) + 1 <= (own - 0) + 2 * (conns - 1) + (own - 1) + 1
      BY <1>2, <2>2
    <3> QED
      BY <1>1, <1>7, <2>1, <2>4, <3>1 DEF Count
  <2> QED
    BY <2>1, <2>3, <2>4
<1> QED
  BY <1>1, <1>8, <1>9, <1>10, <1>11, StartKeeps

(* What an attempt of the owner that stands implies.                       *)
LEMMA AnAttempt ==
  ASSUME IInv, NEW i \in DOMAIN tries, Trying(i)
  PROVE  /\ i = Len(tries) /\ slot = 0 /\ due # "init" /\ armed = 0
         /\ \A j \in DOMAIN tries \ {i} : ~Trying(j)
BY DEF IInv, Attempts

(* A failed attempt is retried once under a generation, or armed for the   *)
(* next one.                                                               *)
LEMMA InitFailedKeeps ==
  ASSUME IInv, NEW i \in DOMAIN tries, InitFailed(i)
  PROVE  IInv'
<1>1. /\ tries[i].st = "failed" /\ tries[i].of.own = own /\ Trying(i)
      /\ UNCHANGED <<conn, conns, bind, win, open, log, incidents, own, due, fold, foldOf,
                     rolled, pump, pending>>
  BY DEF InitFailed, Superseded, Trying, upstream, owner, transcript, refold
<1>2. Types /\ conn \in Nat /\ Len(tries) \in Nat /\ conns \in Nat /\ own \in Nat /\ own # 0
      /\ DOMAIN tries = 1..Len(tries) /\ \A j \in DOMAIN tries : tries[j] \in Handle
  BY DEF IInv, Types
<1>3. /\ slot = 0 /\ due # "init" /\ armed = 0 /\ i = Len(tries)
      /\ \A j \in DOMAIN tries \ {i} : ~Trying(j)
  BY <1>1, AnAttempt
<1> DEFINE gone == Blank("gone", NoRead)
<1>4. gone \in Handle /\ gone.st = "gone" /\ gone.of = NoRead /\ gone.bind = 0
  BY BlankIs DEF Blank
<1> HIDE DEF gone
<1>5. CASE conn # 0 /\ retried # <<own, conn>>
  <2>1. retried' = <<own, conn>> /\ StartInit([tries EXCEPT ![i] = gone])
    BY <1>5 DEF InitFailed, Dropped, gone
  <2> DEFINE ts == [tries EXCEPT ![i] = gone]
  <2> DEFINE kept == [j \in DOMAIN ts |-> IF j = slot THEN gone ELSE ts[j]]
  <2> DEFINE new == Blank("read", ReadUnder(conn))
  <2>2. /\ kept \in Seq(Handle) /\ Len(kept) = Len(tries) /\ DOMAIN kept = DOMAIN tries
        /\ kept[i] = gone /\ \A j \in DOMAIN tries \ {i} : kept[j] = tries[j] /\ j # slot
    BY <1>2, <1>3, <1>4
  <2>3. new \in Handle
    BY <1>2, ReadIs, BlankIs
  <2>4. tries' = Append(kept, new) /\ slot' = 0 /\ armed' = 0
    BY <2>1 DEF StartInit, gone
  <2> HIDE DEF kept, new
  <2>5. /\ tries' \in Seq(Handle) /\ Len(tries') = Len(tries) + 1
        /\ \A j \in DOMAIN tries : tries'[j] = kept[j]
        /\ tries'[Len(tries) + 1] = new
    BY <2>2, <2>3, <2>4, AnotherIs
  <2>6. Starts
    <3>1. new = Blank("read", ReadUnder(conn'))
      BY <1>1 DEF new, ReadUnder
    <3> QED
      BY <1>1, <1>3, <1>4, <2>2, <2>4, <2>5, <3>1 DEF Starts
  <2>7. Types'
    <3>1. slot' \in 0..Len(tries') /\ armed' \in 0..own' /\ retried' \in Nat \X Nat
      BY <1>1, <1>2, <2>1, <2>4, <2>5
    <3> QED
      BY <1>1, <2>5, <3>1 DEF IInv, Types
  <2>8. Generations'
    BY <1>1 DEF IInv, Generations
  <2>9. Count'
    <3>1. Init01 = 0 /\ Retried01 = 0 /\ Init01' = 0 /\ Retried01' = 1
      BY <1>1, <1>3, <1>5, <2>1 DEF Init01, Retried01
    <3>2. Len(tries) + 1 <= (own - 0) + 2 * (conns - 1) + (own - 1) + 1
      BY <1>2, <3>1 DEF IInv, Count
    <3> QED
      BY <1>1, <2>5, <3>1, <3>2 DEF Count
  <2> QED
    BY <1>1, <2>6, <2>7, <2>8, <2>9, StartKeeps
<1>6. CASE ~(conn # 0 /\ retried # <<own, conn>>)
  <2>1. armed' = own /\ tries' = [tries EXCEPT ![i] = gone] /\ UNCHANGED <<slot, retried>>
    BY <1>6 DEF InitFailed, Dropped, gone
  <2>2. /\ tries' \in Seq(Handle) /\ Len(tries') = Len(tries)
        /\ tries'[i] = gone /\ \A j \in DOMAIN tries \ {i} : tries'[j] = tries[j]
    BY <1>2, <1>4, <2>1, ToldOne
  <2>3. Calm
    BY <1>4, <2>2 DEF Calm
  <2>4. Wary
    BY <1>3 DEF Wary
  <2>5. Types'
    <3>1. slot' \in 0..Len(tries') /\ armed' \in 0..own'
      BY <1>1, <1>2, <1>3, <2>1, <2>2
    <3> QED
      BY <1>1, <2>1, <2>2, <3>1 DEF IInv, Types
  <2>6. Owners' /\ Generations'
    BY <1>1 DEF IInv, Owners, Generations
  <2>7. Reads'
    <3>1. Dated(pump.of)'
      BY <1>1 DEF IInv, Reads, Dated
    <3> QED
      BY <1>1, <1>2, <2>3, <3>1, CalmReads DEF IInv, Reads
  <2>8. \A j \in DOMAIN tries : ~Trying(j)'
    BY <1>1, <1>3, <1>4, <2>2 DEF Trying
  <2>9. Attempts'
    BY <1>1, <1>2, <1>3, <2>1, <2>3, <2>5, <2>8, CalmAttempts DEF IInv
  <2>10. Pump' /\ Folds' /\ Count'
    BY <1>1, <1>2, <2>1, <2>3, <2>4, <2>5, PumpStays, WaryFolds, CalmCount DEF IInv
  <2> QED
    BY <2>5, <2>6, <2>7, <2>9, <2>10 DEF IInv
<1> QED
  BY <1>5, <1>6

(* The read of the window has been committed, or was superseded.           *)
LEMMA HydrateKeeps ==
  ASSUME IInv, NEW i \in DOMAIN tries, Hydrate(i)
  PROVE  IInv' /\ (foldOf' = foldOf => Len(fold') >= Len(fold))
<1>1. /\ tries[i].st = "read"
      /\ UNCHANGED <<conn, conns, bind, win, open, log, incidents, own, due, slot,
                     rolled, retried, armed, pump, pending>>
  BY DEF Hydrate, upstream, owner, refold
<1>2. Types /\ DOMAIN tries = 1..Len(tries) /\ Len(tries) \in Nat /\ tries[i] \in Handle
      /\ tries[i].of \in Read /\ bind # 0 /\ log \in 0..MaxEvents /\ win.hi \in Nat
      /\ MaxEvents \in Nat
  BY ReadTypes, BoundsAre DEF IInv, Types
<1>3. Dated(tries[i].of)
  BY DEF IInv, Reads
<1> DEFINE s == tries[i].of
<1>4. CASE IsCurrent(s)
  <2> DEFINE h == [tries[i] EXCEPT !.st = "hydrated"]
  <2>1. h \in Handle /\ h.st = "hydrated" /\ h.of = s /\ h.bind = tries[i].bind
    BY <1>2 DEF Handle
  <2>2. tries' = [tries EXCEPT ![i] = h] /\ fold' = UpTo(s.hi) /\ foldOf' = <<own, bind>>
    BY <1>4 DEF Hydrate
  <2> HIDE DEF h
  <2>3. /\ tries' \in Seq(Handle) /\ Len(tries') = Len(tries) /\ DOMAIN tries' = DOMAIN tries
        /\ tries'[i] = h /\ \A j \in DOMAIN tries \ {i} : tries'[j] = tries[j]
    BY <1>2, <2>1, <2>2, ToldOne
  <2>4. /\ s.own = own /\ s.bind = bind /\ s.hi <= win.hi /\ s.hi \in 0..MaxEvents
        /\ s.rev = win.rev => s.hi = win.hi
    BY <1>2, <1>3, <1>4 DEF IsCurrent, Dated, Read
  <2>5. Trying(i)
    BY <1>1, <2>4 DEF Trying
  <2>6. /\ slot = 0 /\ due # "init" /\ armed = 0 /\ i = Len(tries)
        /\ \A j \in DOMAIN tries \ {i} : ~Trying(j)
    BY <2>5, AnAttempt
  <2>7. fold' \in Seq(1..MaxEvents) /\ FoldHasNoHole' /\ Len(fold') = s.hi
    BY <2>2, <2>4, NoHole
  <2>8. Types'
    BY <1>1, <1>2, <2>2, <2>3, <2>7 DEF Types
  <2>9. Owners' /\ Generations'
    <3>1. own <= own /\ bind <= bind
      BY <1>2 DEF Types
    <3> QED
      BY <1>1, <2>2, <3>1 DEF IInv, Owners, Generations
  <2>10. Reads'
    BY <1>1, <2>1, <2>3 DEF IInv, Reads, Dated
  <2>11. \A j \in DOMAIN tries \ {i} : ~Trying(j)'
    BY <1>1, <2>3, <2>6 DEF Trying
  <2>12. Attempts'
    BY <1>1, <2>1, <2>3, <2>6, <2>11 DEF IInv, Attempts
  <2>13. Pump'
    <3>1. pump.st # "idle" => pump.at # 0
      BY DEF IInv, Pump
    <3>2. \A j \in DOMAIN tries : Trying(j)' => Trying(j) /\ tries'[j].of = tries[j].of
      BY <2>1, <2>3, <2>5, <2>11
    <3> QED
      BY <1>1, <2>3, <2>6, <3>1, <3>2 DEF IInv, Pump
  <2>14. Folds'
    <3>1. ~Trusted'
      BY <1>1, <2>6 DEF Trusted
    <3>2. Len(fold') <= win.hi
      BY <2>4, <2>7
    <3>3. \A j \in DOMAIN tries' : Trying(j)' => j = i
      BY <2>3, <2>11
    <3> QED
      BY <1>1, <2>1, <2>3, <2>4, <2>7, <3>1, <3>2, <3>3 DEF Folds, TrustedFoldIsTheWindow
  <2>15. Count'
    <3>1. \A j \in DOMAIN tries : Trying(j)' => Trying(j)
      BY <2>5, <2>11
    <3> QED
      BY <1>1, <1>2, <2>3, <3>1, CountStays DEF IInv
  <2>16. foldOf' = foldOf => Len(fold') >= Len(fold)
    <3>1. ASSUME foldOf' = foldOf
          PROVE  Len(fold) <= s.hi
      BY <1>1, <2>2, <2>4, <2>5, <3>1 DEF IInv, Folds
    <3>2. Len(fold) \in Nat
      BY <1>2 DEF Types
    <3>3. foldOf' = foldOf => s.hi >= Len(fold)
      BY <2>4, <3>1, <3>2
    <3> QED
      BY <2>7, <3>3
  <2> QED
    BY <2>8, <2>9, <2>10, <2>12, <2>13, <2>14, <2>15, <2>16 DEF IInv
<1>5. CASE ~IsCurrent(s)
  <2> DEFINE none == [NoRead EXCEPT !.own = s.own]
  <2> DEFINE h == Blank("failed", none)
  <2>1. none \in Read /\ none.own = s.own /\ none.bind = 0 /\ Dated(none)
    <3>1. s.own \in Nat /\ s.own <= own
      BY <1>2, <1>3 DEF Dated, Read
    <3>2. /\ none \in Read /\ none.own = s.own /\ none.bind = 0 /\ none.conn = 0
          /\ none.hi = 0 /\ none.rev = 0
      BY <3>1 DEF NoRead, Read
    <3>3. 0 <= bind /\ 0 <= conns /\ 0 <= log /\ bind # 0
      BY <1>2 DEF Types
    <3> HIDE DEF none
    <3> QED
      BY <3>1, <3>2, <3>3 DEF Dated
  <2>2. tries' = [tries EXCEPT ![i] = h] /\ UNCHANGED <<fold, foldOf>>
    BY <1>5 DEF Hydrate, transcript
  <2> HIDE DEF none
  <2>3. h \in Handle /\ h.st = "failed" /\ h.of = none /\ h.bind = 0
    BY <2>1, BlankIs DEF Blank
  <2> HIDE DEF h
  <2>4. /\ tries' \in Seq(Handle) /\ Len(tries') = Len(tries) /\ DOMAIN tries' = DOMAIN tries
        /\ tries'[i] = h /\ \A j \in DOMAIN tries \ {i} : tries'[j] = tries[j]
    BY <1>2, <2>2, <2>3, ToldOne
  <2>5. Types'
    BY <1>1, <2>2, <2>4 DEF IInv, Types
  <2>6. Owners' /\ Generations'
    BY <1>1, <2>2 DEF IInv, Owners, Generations
  <2>7. Reads'
    BY <1>1, <2>1, <2>3, <2>4 DEF IInv, Reads, Dated
  <2>8. \A j \in DOMAIN tries : Trying(j)' => Trying(j)
    BY <1>1, <2>1, <2>3, <2>4 DEF Trying
  <2>9. Attempts'
    <3>1. (\A j \in DOMAIN tries : Trying(j) =>
             j = Len(tries) /\ slot = 0 /\ due # "init" /\ armed = 0)'
      BY <1>1, <2>4, <2>8 DEF IInv, Attempts
    <3>2. 0 <= bind
      BY <1>2 DEF Types
    <3>3. i # slot \/ slot = 0
      BY <1>1 DEF IInv, Attempts
    <3> QED
      BY <1>1, <2>3, <2>4, <3>1, <3>2, <3>3 DEF IInv, Attempts
  <2>10. \A j \in DOMAIN tries : Trying(j)' /\ tries'[j].of.bind = bind => tries'[j] = tries[j]
    BY <1>2, <2>1, <2>3, <2>4
  <2>11. Pump'
    BY <1>1, <2>2, <2>4, <2>8, <2>10 DEF IInv, Pump
  <2>12. Folds'
    <3>1. FoldHasNoHole' /\ (foldOf = <<own, bind>> => Len(fold) <= win.hi)'
      BY <1>1, <2>2 DEF IInv, Folds, FoldHasNoHole, UpTo
    <3>2. i # slot
      BY <1>1, <1>2 DEF IInv, Attempts
    <3>3. TrustedFoldIsTheWindow'
      <4>1. slot # 0 => slot \in DOMAIN tries
        BY <1>2 DEF Types
      <4> QED
        BY <1>1, <2>2, <2>4, <3>2, <4>1 DEF IInv, Folds, TrustedFoldIsTheWindow, Trusted
    <3> QED
      BY <1>1, <2>2, <2>4, <2>8, <2>10, <3>1, <3>3 DEF IInv, Folds
  <2>13. Count'
    BY <1>1, <1>2, <2>4, <2>8, CountStays DEF IInv
  <2>14. Len(fold') >= Len(fold)
    <3>1. Len(fold) >= Len(fold)
      BY <1>2 DEF Types
    <3> QED
      BY <2>2, <3>1
  <2> QED
    BY <2>5, <2>6, <2>7, <2>9, <2>11, <2>12, <2>13, <2>14 DEF IInv
<1> QED
  BY <1>4, <1>5

(* An attempt installs its handle: it trusts deltas only if the window is  *)
(* still the one that was folded.                                          *)
LEMMA SubscribeKeeps ==
  ASSUME IInv, NEW i \in DOMAIN tries, Subscribe(i)
  PROVE  IInv'
<1>1. /\ tries[i].st = "hydrated" /\ tries[i].of.own = own /\ Trying(i)
      /\ slot' = i /\ retried' = <<0, 0>>
      /\ UNCHANGED <<conn, conns, bind, win, open, log, incidents, own, due, fold, foldOf,
                     rolled, armed, pump, pending>>
  BY DEF Subscribe, Superseded, Trying, upstream, owner, transcript, refold
<1>2. Types /\ DOMAIN tries = 1..Len(tries) /\ Len(tries) \in Nat /\ tries[i] \in Handle
      /\ i # 0 /\ bind \in Nat /\ bind <= bind
  BY DEF IInv, Types
<1>3. /\ slot = 0 /\ due # "init" /\ armed = 0 /\ i = Len(tries)
      /\ \A j \in DOMAIN tries \ {i} : ~Trying(j)
  BY <1>1, AnAttempt
<1> DEFINE h == Subscribed(tries[i])
<1>4. /\ h \in Handle
      /\ \/ conn = 0 /\ h.st = "pending" /\ h.of = tries[i].of /\ h.bind = tries[i].bind
         \/ conn # 0 /\ h.st = "attached" /\ h.of = NoRead /\ h.bind = bind
      /\ Trusts(h) => /\ tries[i].of.bind = bind /\ tries[i].of.rev = win.rev
                      /\ h.last = win.rev
  BY <1>2, SubscribedIs DEF Trusts
<1>5. tries' = [tries EXCEPT ![i] = h]
  BY DEF Subscribe
<1> HIDE DEF h
<1>6. /\ tries' \in Seq(Handle) /\ Len(tries') = Len(tries) /\ DOMAIN tries' = DOMAIN tries
      /\ tries'[i] = h /\ \A j \in DOMAIN tries \ {i} : tries'[j] = tries[j]
  BY <1>2, <1>4, <1>5, ToldOne
<1>7. Types'
  <2>1. slot' \in 0..Len(tries') /\ retried' \in Nat \X Nat
    BY <1>1, <1>2, <1>6
  <2> QED
    BY <1>1, <1>6, <2>1 DEF IInv, Types
<1>8. Owners' /\ Generations'
  BY <1>1 DEF IInv, Owners, Generations
<1>9. Reads'
  <2>1. Dated(NoRead)
    BY <1>2 DEF Dated, NoRead, Types
  <2> QED
    BY <1>1, <1>4, <1>6, <2>1 DEF IInv, Reads, Dated
<1>10. \A j \in DOMAIN tries : ~Trying(j)'
  BY <1>1, <1>3, <1>4, <1>6 DEF Trying
<1>11. Attempts'
  <2>1. \A j \in DOMAIN tries \ {i} : tries[j].st \notin {"pending", "attached"}
    BY <1>2, <1>3 DEF IInv, Attempts
  <2>2. h.bind <= bind
    BY <1>2, <1>4 DEF IInv, Attempts
  <2>3. \A j \in DOMAIN tries : tries[j].bind <= bind
    BY DEF IInv, Attempts
  <2>4. own # 0
    BY <1>2 DEF Types
  <2> QED
    BY <1>1, <1>3, <1>4, <1>6, <1>10, <2>1, <2>2, <2>3, <2>4 DEF Attempts
<1>12. Pump'
  <2>1. pump.st # "idle" => pump.at # Len(tries) /\ pump.at \in 1..Len(tries)
    BY <1>3 DEF IInv, Pump
  <2> QED
    BY <1>1, <1>3, <1>6, <1>10, <2>1 DEF Pump
<1>13. Folds'
  <2>1. FoldHasNoHole' /\ (foldOf = <<own, bind>> => Len(fold) <= win.hi)'
    BY <1>1 DEF IInv, Folds, FoldHasNoHole, UpTo
  <2>2. TrustedFoldIsTheWindow'
    BY <1>1, <1>4, <1>6 DEF IInv, Folds, TrustedFoldIsTheWindow, Trusted, Trusts
  <2> QED
    BY <1>6, <1>10, <2>1, <2>2 DEF Folds
<1>14. Count'
  <2>1. Init01' = Init01 /\ Retried01 \in {0, 1} /\ Retried01' = 1 /\ Init01 = 0
    BY <1>1, <1>3, <1>6, <1>10 DEF Init01, Retried01
  <2>2. conns \in Nat /\ own \in Nat
    BY <1>2 DEF Types
  <2>3. Len(tries) <= (own - 0) + 2 * (conns - 1) + (own - 1) + 1
    BY <1>2, <2>1, <2>2 DEF IInv, Count
  <2> QED
    BY <1>1, <1>6, <2>1, <2>3 DEF Count
<1> QED
  BY <1>7, <1>8, <1>9, <1>11, <1>12, <1>13, <1>14 DEF IInv

-----------------------------------------------------------------------------
\* The generation of the Connection.

(* The handles have been told of a generation; none trusts deltas that did *)
(* not before, for what a pending one was hydrated from is older.          *)
LEMMA ConnectionKeeps ==
  ASSUME IInv, NEW c \in Nat, Connection(c), conns' \in {conns, conns + 1},
         c = 0 => conn # 0 /\ conns' = conns,
         c # 0 => c = conns' /\ conns' = conns + 1,
         Generations', incidents' \in 0..MaxIncidents
  PROVE  IInv'
<1> DEFINE H(i) == RolledOver(tries[i], win, c, bind, open')
<1> DEFINE told == [i \in DOMAIN tries |-> H(i)]
<1> DEFINE again == c # 0 /\ armed = own
<1>1. /\ conn' = c /\ open' \in BOOLEAN /\ rolled' \in BOOLEAN
      /\ armed' = IF c # 0 THEN 0 ELSE armed
      /\ tries' = IF again THEN Append(told, Blank("read", ReadUnder(c))) ELSE told
      /\ UNCHANGED <<bind, win, log, own, due, fold, foldOf, slot, retried, pump, pending>>
  BY DEF Connection, owner, transcript, refold, IInv, Types
<1>2. /\ Types /\ DOMAIN tries = 1..Len(tries) /\ Len(tries) \in Nat /\ conns \in Nat
      /\ bind \in Nat /\ win \in Windows /\ own \in Nat /\ own # 0
      /\ \A i \in DOMAIN tries : tries[i] \in Handle /\ tries[i].of \in Read
  BY ReadTypes DEF IInv, Types, Windows
<1>3. c # 0 => \A i \in DOMAIN tries : tries[i].of.conn # c
  <2>1. \A s \in Read : Dated(s) => s.conn # conns + 1
    BY <1>2 DEF Dated, Read
  <2> QED
    BY <1>2, <2>1 DEF IInv, Reads
<1>4. \A i \in DOMAIN tries :
        /\ H(i) \in Handle
        /\ \/ H(i).st = tries[i].st /\ H(i).of = tries[i].of /\ H(i).bind = tries[i].bind
           \/ tries[i].st = "pending"
              /\ H(i).st = "attached" /\ H(i).of = NoRead /\ H(i).bind = bind
        /\ Trusts(H(i)) => H(i) = tries[i]
        /\ tries[i].st \notin {"pending", "attached"} => H(i) = tries[i]
  <2>1. ASSUME NEW i \in DOMAIN tries, tries[i].st \notin {"pending", "attached"}
        PROVE  H(i) = tries[i]
    BY <2>1 DEF RolledOver
  <2>2. ASSUME NEW i \in DOMAIN tries
        PROVE  /\ H(i) \in Handle
               /\ \/ H(i).st = tries[i].st /\ H(i).of = tries[i].of /\ H(i).bind = tries[i].bind
                  \/ tries[i].st = "pending"
                     /\ H(i).st = "attached" /\ H(i).of = NoRead /\ H(i).bind = bind
               /\ Trusts(H(i)) => H(i) = tries[i]
    <3>1. tries[i] \in Handle /\ open' \in BOOLEAN
      BY <1>1, <1>2
    <3>2. /\ H(i) \in Handle
          /\ \/ H(i).st = tries[i].st /\ H(i).of = tries[i].of /\ H(i).bind = tries[i].bind
             \/ tries[i].st = "pending" /\ c # 0
                /\ H(i).st = "attached" /\ H(i).of = NoRead /\ H(i).bind = bind
          /\ H(i).mode = "incremental" /\ H(i).st = "attached" =>
               H(i) = tries[i] \/ (tries[i].st = "pending" /\ c # 0 /\ tries[i].of.conn = c)
      BY <1>2, <3>1, RolledOverIs
    <3> HIDE DEF H
    <3> QED
      BY <1>3, <3>2 DEF Trusts
  <2> HIDE DEF H
  <2> QED
    BY <2>1, <2>2
<1> HIDE DEF H
<1>5. told \in Seq(Handle) /\ Len(told) = Len(tries) /\ DOMAIN told = DOMAIN tries
  BY <1>2, <1>4
<1>6. Init01' = Init01 /\ Init01 \in {0, 1} /\ Retried01 \in {0, 1} /\ Retried01' \in {0, 1}
  BY <1>1 DEF Init01, Retried01
<1>7. Len(tries) <= (own - Init01) + 2 * (conns - 1) + (own - 1) + Retried01
  BY DEF IInv, Count
<1>8. Owners'
  BY <1>1 DEF IInv, Owners
<1>9. CASE again
  <2>1. /\ slot = 0 /\ due # "init" /\ c # 0 /\ \A i \in DOMAIN tries : ~Trying(i)
        /\ \A i \in DOMAIN tries : tries[i].st \notin {"pending", "attached"}
    <3>1. due # "init" /\ armed # 0
      BY <1>2, <1>9 DEF IInv, Attempts
    <3>2. slot = 0 /\ \A i \in DOMAIN tries : ~Trying(i)
      BY <3>1 DEF IInv, Attempts
    <3>3. 0 \notin DOMAIN tries
      BY <1>2
    <3> QED
      BY <1>9, <3>1, <3>2, <3>3 DEF IInv, Attempts
  <2> DEFINE new == Blank("read", ReadUnder(c))
  <2>2. new \in Handle
    BY <1>2, ReadIs, BlankIs
  <2>3. tries' = Append(told, new)
    BY <1>1, <1>9
  <2>4. \A i \in DOMAIN tries : told[i] = tries[i]
    BY <1>4, <2>1
  <2>5. new = Blank("read", ReadUnder(conn'))
    BY <1>1
  <2> HIDE DEF told, new
  <2>6. /\ tries' \in Seq(Handle) /\ Len(tries') = Len(tries) + 1
        /\ \A i \in DOMAIN tries : tries'[i] = told[i]
        /\ tries'[Len(tries) + 1] = new
    BY <1>5, <2>2, <2>3, AnotherIs
  <2>7. Starts
    <3>1. \A i \in DOMAIN tries : i # slot /\ ~Trying(i) /\ tries'[i] = tries[i]
      BY <1>2, <2>1, <2>4, <2>6
    <3> QED
      BY <1>1, <2>1, <2>5, <2>6, <3>1 DEF Starts
  <2>8. Types'
    <3>1. slot' \in 0..Len(tries') /\ armed' \in 0..own' /\ conn' \in 0..conns'
          /\ conns' \in Nat \ {0}
      <4>1. conns + 1 \in Nat \ {0} /\ conns + 1 \in 0..conns + 1 /\ 0 \in 0..own
            /\ 0 \in 0..Len(tries) + 1
        BY <1>2
      <4> QED
        BY <1>1, <2>1, <2>6, <4>1
    <3> QED
      BY <1>1, <2>6, <3>1 DEF IInv, Types
  <2>9. Count'
    <3>1. Len(tries) + 1 <= (own - Init01) + 2 * ((conns + 1) - 1) + (own - 1) + 0
      BY <1>2, <1>6, <1>7
    <3>2. Len(tries) + 1 <= (own - Init01) + 2 * ((conns + 1) - 1) + (own - 1) + 1
      BY <1>2, <1>6, <3>1
    <3>3. conns' = conns + 1
      BY <2>1
    <3>4. CASE Retried01' = 0
      BY <1>1, <1>6, <2>6, <3>1, <3>3, <3>4 DEF Count
    <3>5. CASE Retried01' = 1
      BY <1>1, <1>6, <2>6, <3>2, <3>3, <3>5 DEF Count
    <3> QED
      BY <1>6, <3>4, <3>5
  <2> QED
    BY <1>1, <2>7, <2>8, <2>9, StartKeeps
<1>10. CASE ~again
  <2>1. tries' = told
    BY <1>1, <1>10
  <2>2. Calm
    BY <1>4, <1>5, <2>1 DEF Calm
  <2>3. Wary
    <3>1. \A i \in DOMAIN tries : Trusts(tries'[i]) => tries'[i] = tries[i]
      BY <1>4, <2>1
    <3> QED
      BY <1>2, <3>1, WaryIs
  <2> HIDE DEF told
  <2>4. Types'
    <3>1. armed' \in 0..own' /\ conn' \in 0..conns' /\ conns' \in Nat \ {0}
      <4>1. conns + 1 \in Nat \ {0} /\ conns + 1 \in 0..conns + 1 /\ 0 \in 0..own
            /\ 0 \in 0..conns /\ conns \in Nat \ {0} /\ armed \in 0..own
        BY <1>2 DEF Types
      <4> QED
        BY <1>1, <4>1
    <3>2. slot' \in 0..Len(tries') /\ tries' \in Seq(Handle)
      BY <1>1, <1>2, <1>5, <2>1 DEF Types
    <3> QED
      BY <1>1, <3>1, <3>2 DEF IInv, Types
  <2>5. Reads'
    <3>1. \A s \in Read : Dated(s) =>
            /\ s.bind <= bind' /\ s.conn <= conns' /\ s.own <= own' /\ s.hi <= log'
            /\ s.bind = bind' => s.rev <= win'.rev /\ s.hi <= win'.hi
            /\ s.bind = bind' /\ s.rev = win'.rev => s.hi = win'.hi
      <4>1. \A s \in Read : s.conn \in Nat /\ (Dated(s) => s.conn <= conns)
        BY DEF Read, Dated
      <4>2. \A s \in Read : Dated(s) => s.conn <= conns + 1
        BY <1>2, <4>1
      <4> QED
        BY <1>1, <4>1, <4>2 DEF Dated
    <3>2. Dated(pump.of)'
      BY <1>1, <1>2, <3>1, ReadTypes DEF IInv, Reads, Dated
    <3>3. \A i \in DOMAIN tries' : Dated(tries[i].of)'
      BY <1>1, <1>2, <2>2, CalmReads DEF IInv
    <3> QED
      BY <3>2, <3>3 DEF Reads
  <2>6. Attempts'
    BY <1>1, <1>2, <2>2, <2>4, CalmAttempts DEF IInv
  <2>7. Pump' /\ Folds'
    BY <1>1, <1>2, <2>2, <2>3, <2>4, PumpStays, WaryFolds DEF IInv
  <2>8. Count'
    <3>1. CASE c # 0
      <4>1. Len(tries) <= (own - Init01) + 2 * ((conns + 1) - 1) + (own - 1) + 0
        BY <1>2, <1>6, <1>7
      <4>2. Len(tries) <= (own - Init01) + 2 * ((conns + 1) - 1) + (own - 1) + 1
        BY <1>2, <1>6, <4>1
      <4>3. Len(tries') = Len(tries)
        BY <1>5, <2>1
      <4>4. CASE Retried01' = 0
        BY <1>1, <1>6, <3>1, <4>1, <4>3, <4>4 DEF Count
      <4>5. CASE Retried01' = 1
        BY <1>1, <1>6, <3>1, <4>2, <4>3, <4>5 DEF Count
      <4> QED
        BY <1>6, <4>4, <4>5
    <3>2. CASE c = 0
      <4>1. Retried01' = IF due # "init" THEN 1 ELSE 0
        BY <1>1, <3>2 DEF Retried01
      <4>2. Retried01 \in {0, Retried01'}
        BY <4>1 DEF Retried01
      <4>3. Len(tries') = Len(tries) /\ conns' = conns
        BY <1>5, <2>1, <3>2
      <4>4. CASE Retried01' = Retried01
        BY <1>1, <1>6, <1>7, <4>3, <4>4 DEF Count
      <4>5. CASE Retried01 = 0 /\ Retried01' = 1
        <5>1. Len(tries) <= (own - Init01) + 2 * (conns - 1) + (own - 1) + 1
          BY <1>2, <1>6, <1>7, <4>5
        <5> QED
          BY <1>1, <1>6, <4>3, <4>5, <5>1 DEF Count
      <4> QED
        BY <1>6, <4>2, <4>4, <4>5
    <3> QED
      BY <3>1, <3>2
  <2> QED
    BY <1>8, <2>4, <2>5, <2>6, <2>7, <2>8 DEF IInv
<1> QED
  BY <1>9, <1>10

(* The Connection is lost.                                                 *)
LEMMA DropKeeps ==
  ASSUME IInv, Drop
  PROVE  IInv'
<1>1. /\ conn # 0 /\ incidents < MaxIncidents /\ incidents' = incidents + 1
      /\ Connection(0) /\ conns' = conns
  BY DEF Drop, Incident
<1>2. incidents \in Nat /\ MaxIncidents \in Nat /\ conns \in Nat
  BY BoundsAre DEF IInv, Types
<1>3. incidents' \in 0..MaxIncidents
  <2>1. incidents + 1 \in 0..MaxIncidents
    BY <1>1, <1>2
  <2> QED
    BY <1>1, <2>1
<1>4. Generations'
  <2>1. conns <= incidents + 1 /\ win.conn <= conns /\ win.hi <= log
    BY <1>1, <1>2 DEF IInv, Generations
  <2>2. conn' = 0 /\ UNCHANGED <<win, log>>
    BY <1>1 DEF Connection
  <2> QED
    BY <1>1, <2>1, <2>2 DEF Generations
<1> QED
  BY <1>1, <1>3, <1>4, ConnectionKeeps

(* A generation comes up, with or without a loss that was noticed.         *)
LEMMA ReconnectKeeps ==
  ASSUME IInv, Reconnect
  PROVE  IInv'
<1>1. conns \in Nat /\ conns + 1 \in Nat /\ conns + 1 # 0 /\ incidents \in 0..MaxIncidents
      /\ MaxIncidents \in Nat
  BY BoundsAre DEF IInv, Types
<1>2. /\ conns' = conns + 1 /\ Connection(conns + 1)
      /\ \/ conn = 0 /\ incidents' = incidents
         \/ conn # 0 /\ incidents < MaxIncidents /\ incidents' = incidents + 1
  BY DEF Reconnect, Incident
<1>3. incidents' \in 0..MaxIncidents
  <2>1. incidents < MaxIncidents => incidents + 1 \in 0..MaxIncidents
    BY <1>1
  <2> QED
    BY <1>1, <1>2, <2>1
<1>4. Generations'
  <2>1. conn' = conns + 1 /\ UNCHANGED <<win, log>>
    BY <1>2 DEF Connection
  <2>2. win.conn \in Nat /\ win.conn <= conns /\ win.hi <= log
    BY DEF IInv, Types, Generations
  <2>3. win.conn <= conns + 1 /\ win.conn # conns + 1
    BY <1>1, <2>2
  <2>4. PICK n \in Nat : n = incidents' /\ conns + 1 <= 1 + n
    <3>1. CASE conn = 0
      <4>1. conns <= incidents
        BY <3>1 DEF IInv, Generations
      <4> QED
        BY <1>1, <1>2, <3>1, <4>1
    <3>2. CASE conn # 0
      <4>1. conns <= 1 + incidents
        BY <3>2 DEF IInv, Generations
      <4>2. PICK n \in Nat : n = incidents + 1
        BY <1>1
      <4> QED
        BY <1>1, <1>2, <3>2, <4>1, <4>2
    <3> QED
      BY <3>1, <3>2
  <2> QED
    BY <1>1, <1>2, <2>1, <2>2, <2>3, <2>4 DEF Generations
<1> QED
  BY <1>1, <1>2, <1>3, <1>4, ConnectionKeeps

-----------------------------------------------------------------------------
\* The re-fold pump.

(* What is committed is the window, and no attempt has read an older one.  *)
LEMMA RefoldKeeps ==
  ASSUME IInv, Refold
  PROVE  IInv' /\ (foldOf' = foldOf => Len(fold') >= Len(fold))
<1> DEFINE s == pump.of
<1> DEFINE ok == /\ IsCurrent(s) /\ IsStillTheWindow(s)
                 /\ slot # 0 => Eligible(tries[slot], s.rev)
<1>1. /\ pump.st = "read"
      /\ pump' = [pump EXCEPT !.st = "acknowledge", !.proof = ok,
                              !.of = IF ok THEN s ELSE NoRead]
      /\ IF ok THEN fold' = UpTo(s.hi) /\ foldOf' = <<own, bind>>
               ELSE fold' = fold /\ foldOf' = foldOf
      /\ UNCHANGED <<conn, conns, bind, win, open, log, incidents, own, due, tries, slot,
                     rolled, retried, armed, pending>>
  BY DEF Refold, transcript, upstream, owner, inits
<1>2. /\ Types /\ s \in Read /\ bind \in Nat /\ own \in Nat /\ log \in 0..MaxEvents
      /\ win.hi \in Nat /\ win.rev \in Nat /\ MaxEvents \in Nat /\ Len(fold) \in Nat
      /\ win.hi <= log /\ \A i \in DOMAIN tries : tries[i].of \in Read
  BY ReadTypes, BoundsAre DEF IInv, Types, Generations
<1>3. Dated(s) /\ \A i \in DOMAIN tries : Dated(tries[i].of)
  BY DEF IInv, Reads
<1>4. ok \in BOOLEAN
  OBVIOUS
<1>5. ok => s.bind = bind /\ s.rev = win.rev /\ s.hi = win.hi
  BY <1>3 DEF IsCurrent, IsStillTheWindow, Dated
<1> HIDE DEF ok, s
<1> DEFINE r == IF ok THEN s ELSE NoRead
<1>6. r \in Read /\ (r = s \/ r = NoRead) /\ (ok => r = s)
  BY <1>2, BlankIs
<1> HIDE DEF r
<1>7. /\ pump'.st = "acknowledge" /\ pump'.at = pump.at /\ pump'.of = r /\ pump'.proof = ok
      /\ pump' \in [st : {"idle", "read", "acknowledge"}, at : Nat, of : Read, proof : BOOLEAN]
  <2>1. pump' = [pump EXCEPT !.st = "acknowledge", !.proof = ok, !.of = r]
    BY <1>1 DEF r
  <2>2. pump \in [st : {"idle", "read", "acknowledge"}, at : Nat, of : Read, proof : BOOLEAN]
    BY <1>2 DEF Types
  <2> QED
    BY <1>4, <1>6, <2>1, <2>2
<1>8. /\ fold' \in Seq(1..MaxEvents) /\ FoldHasNoHole' /\ foldOf' \in Nat \X Nat
      /\ ok => Len(fold') = win.hi
  <2>1. CASE ok
    <3>1. win.hi \in 0..MaxEvents /\ fold' = UpTo(win.hi)
      BY <1>1, <1>2, <1>5, <2>1
    <3>2. fold' \in Seq(1..MaxEvents) /\ FoldHasNoHole' /\ Len(fold') = win.hi
      BY <3>1, NoHole
    <3> QED
      BY <1>1, <1>2, <2>1, <3>2
  <2>2. CASE ~ok
    <3>1. fold' = fold /\ foldOf' = foldOf
      BY <1>1, <2>2
    <3> QED
      BY <1>2, <2>2, <3>1 DEF IInv, Folds, FoldHasNoHole, UpTo, Types
  <2> QED
    BY <2>1, <2>2
<1>9. Types'
  BY <1>1, <1>7, <1>8 DEF IInv, Types
<1>10. Owners' /\ Generations'
  <2>1. own <= own /\ bind <= bind
    BY <1>2
  <2>2. foldOf' = foldOf \/ foldOf' = <<own, bind>>
    BY <1>1
  <2> QED
    BY <1>1, <2>1, <2>2 DEF IInv, Owners, Generations
<1>11. Reads'
  <2>1. NoRead \in Read /\ Dated(NoRead)
    BY <1>2, BlankIs DEF Dated, NoRead, Types
  <2>2. Dated(r)
    BY <1>3, <1>6, <2>1
  <2> QED
    BY <1>1, <1>3, <1>7, <2>2 DEF Reads, Dated
<1>12. Attempts'
  BY <1>1 DEF IInv, Attempts, Trying
<1>13. Pump'
  <2>1. pump.at \in 1..Len(tries) /\ (pump.at = Len(tries) => slot = pump.at)
    BY <1>1 DEF IInv, Pump
  <2>2. pump'.proof => Len(fold') = win.hi
    BY <1>7, <1>8
  <2> QED
    BY <1>1, <1>7, <2>1, <2>2 DEF Pump
<1>14. ok => \A i \in DOMAIN tries :
               Trying(i) /\ tries[i].of.bind = bind /\ tries[i].st = "read"
                 => tries[i].of.hi = win.hi
  <2>1. ASSUME ok, NEW i \in DOMAIN tries, Trying(i), tries[i].of.bind = bind
        PROVE  tries[i].of.hi = win.hi
    <3>1. pump.of.rev <= tries[i].of.rev /\ pump.of.rev = win.rev
      BY <1>1, <1>5, <2>1 DEF IInv, Pump, s
    <3>2. tries[i].of.rev <= win.rev /\ tries[i].of.rev \in Nat
      BY <1>2, <1>3, <2>1 DEF Dated, Read
    <3>3. tries[i].of.rev = win.rev
      BY <1>2, <3>1, <3>2
    <3> QED
      BY <1>3, <2>1, <3>3 DEF Dated
  <2> QED
    BY <2>1
<1>15. Folds'
  <2>1. CASE ok
    <3>1. Len(fold') = win.hi /\ win.hi <= win.hi
      BY <1>2, <1>8, <2>1
    <3>2. TrustedFoldIsTheWindow'
      BY <1>1, <3>1 DEF IInv, Folds, TrustedFoldIsTheWindow, Trusted
    <3>3. Len(fold') <= win.hi
      BY <3>1
    <3>4. \A i \in DOMAIN tries : Trying(i) /\ tries[i].of.bind = bind /\ tries[i].st = "read"
              => Len(fold') <= tries[i].of.hi
      BY <1>14, <2>1, <3>3
    <3> QED
      BY <1>1, <1>8, <3>1, <3>2, <3>3, <3>4 DEF Folds, Trying
  <2>2. CASE ~ok
    BY <1>1, <1>8, <2>2 DEF IInv, Folds, TrustedFoldIsTheWindow, Trusted, Trying
  <2> QED
    BY <2>1, <2>2
<1>16. Count'
  BY <1>1, <1>2, CountStays DEF IInv, Trying
<1>17. foldOf' = foldOf => Len(fold') >= Len(fold)
  <2>1. CASE ok
    <3>1. foldOf' = foldOf => win.hi >= Len(fold)
      BY <1>1, <1>2, <2>1 DEF IInv, Folds
    <3> QED
      BY <1>8, <2>1, <3>1
  <2>2. CASE ~ok
    <3>1. Len(fold) >= Len(fold)
      BY <1>2
    <3> QED
      BY <1>1, <2>2, <3>1
  <2> QED
    BY <2>1, <2>2
<1> QED
  BY <1>9, <1>10, <1>11, <1>12, <1>13, <1>15, <1>16, <1>17 DEF IInv

(* Deltas are trusted again only for the window that was committed.        *)
LEMMA EndRoundKeeps ==
  ASSUME IInv, EndRound
  PROVE  IInv'
<1> DEFINE h == Acknowledged(tries[slot], pump.of)
<1> DEFINE resumes == /\ slot = pump.at /\ pump.proof
                      /\ Acknowledges(tries[slot], pump.of)
<1>1. /\ pump.st = "acknowledge"
      /\ tries' = IF resumes THEN [tries EXCEPT ![slot] = h] ELSE tries
      /\ UNCHANGED <<conn, conns, bind, win, open, log, incidents, own, due, fold, foldOf,
                     slot, rolled, retried, armed>>
  BY DEF EndRound, upstream, owner, transcript
<1>2. Types /\ pump.of \in Read /\ conn \in Nat /\ Len(tries) \in Nat
      /\ DOMAIN tries = 1..Len(tries) /\ tries \in Seq(Handle)
  BY ReadTypes DEF IInv, Types
<1>3. Pumps /\ pending' \in BOOLEAN
  BY <1>2 DEF EndRound, Round, Pumps, Types
<1>4. CASE resumes
  <2>1. slot \in DOMAIN tries /\ slot # 0 /\ tries[slot] \in Handle
    BY <1>1, <1>2, <1>4 DEF IInv, Pump
  <2>2. /\ h \in Handle /\ h.st = tries[slot].st /\ h.of = tries[slot].of
        /\ h.bind = tries[slot].bind /\ h.last = pump.of.rev
    BY <1>2, <2>1 DEF Acknowledged, NotTold, NoBaseline, Handle, Read
  <2>3. tries' = [tries EXCEPT ![slot] = h]
    BY <1>1, <1>4
  <2>4. /\ pump.of.bind = tries[slot].bind /\ win.rev = pump.of.rev
        /\ slot = pump.at /\ pump.proof
    BY <1>4 DEF Acknowledges
  <2> HIDE DEF h
  <2>5. /\ tries' \in Seq(Handle) /\ Len(tries') = Len(tries) /\ DOMAIN tries' = DOMAIN tries
        /\ tries'[slot] = h /\ \A j \in DOMAIN tries \ {slot} : tries'[j] = tries[j]
    BY <1>2, <2>1, <2>2, <2>3, ToldOne
  <2>6. Calm
    BY <2>2, <2>5 DEF Calm
  <2>7. Types'
    BY <1>1, <1>2, <1>3, <2>6, QuietTypes DEF Types
  <2>8. Owners' /\ Generations'
    BY <1>1 DEF IInv, Owners, Generations
  <2>9. Pump' /\ Reads'
    BY <1>1, <1>2, <1>3, <2>6, <2>7, PumpsOn, CalmReads DEF IInv, Reads
  <2>10. Attempts' /\ Count'
    BY <1>1, <1>2, <2>6, <2>7, CalmAttempts, CalmCount DEF IInv
  <2>11. Folds'
    <3>1. TrustedFoldIsTheWindow'
      <4>1. ASSUME Trusted'
            PROVE  h.last = win.rev /\ Len(fold) = win.hi
        <5>1. pump.of.bind = bind
          BY <1>1, <2>2, <2>4, <2>5, <4>1 DEF Trusted
        <5> QED
          BY <1>1, <2>2, <2>4, <5>1 DEF IInv, Pump
      <4> QED
        BY <1>1, <2>5, <4>1 DEF TrustedFoldIsTheWindow
    <3>2. \A i \in DOMAIN tries : Trying(i)' =>
            Trying(i) /\ tries'[i].st = tries[i].st /\ tries'[i].of = tries[i].of
      BY <1>1, <1>2, <2>6, CalmTrying
    <3> QED
      BY <1>1, <2>5, <3>1, <3>2 DEF IInv, Folds, FoldHasNoHole, UpTo
  <2> QED
    BY <2>7, <2>8, <2>9, <2>10, <2>11 DEF IInv
<1>5. CASE ~resumes
  <2>1. tries' = tries
    BY <1>1, <1>5
  <2>2. Calm /\ Wary
    BY <1>2, <2>1 DEF Calm, Wary, Trusts
  <2>3. Types'
    BY <1>1, <1>2, <1>3, <2>2, QuietTypes DEF Types
  <2> QED
    BY <1>1, <1>3, <2>2, <2>3, QuietKeeps
<1> QED
  BY <1>4, <1>5

-----------------------------------------------------------------------------
\* The theorems.

(* The invariant holds at the start.                                       *)
LEMMA InitIInv ==
  ASSUME Init
  PROVE  IInv
<1>1. Types
  <2>1. NoRead \in Read /\ 0 \in 0..MaxEvents /\ 0 \in 0..MaxIncidents
        /\ Len(<<>>) = 0 /\ <<>> \in Seq(1..MaxEvents) /\ <<>> \in Seq(Handle)
    BY BlankIs, BoundsAre
  <2>2. Idle \in [st : {"idle", "read", "acknowledge"}, at : Nat, of : Read, proof : BOOLEAN]
    BY <2>1 DEF Idle
  <2>3. /\ [rev |-> 0, hi |-> 0, conn |-> 0, kind |-> "none"] \in Windows
        /\ <<0, 0>> \in Nat \X Nat
    BY DEF Windows
  <2>4. conn \in 0..conns /\ conns \in Nat \ {0} /\ armed \in 0..own /\ slot \in 0..Len(tries)
    BY <2>1 DEF Init
  <2> QED
    BY <2>1, <2>2, <2>3, <2>4 DEF Init, Types, Windows
<1>2. tries = <<>> /\ DOMAIN tries = {} /\ Len(tries) = 0 /\ Len(fold) = 0
  BY DEF Init
<1>3. Owners /\ Generations /\ Reads /\ Attempts
  BY <1>2 DEF Init, Owners, Generations, Reads, Dated, Attempts, Idle, NoRead
<1>4. Pump
  BY <1>2 DEF Init, Pump, Idle
<1>5. FoldHasNoHole
  <2>1. UpTo(0) \in Seq(1..0) /\ Len(UpTo(0)) = 0
    BY UpToIs
  <2>2. UpTo(0) = <<>>
    BY <2>1, EmptySeq
  <2> QED
    BY <2>2 DEF Init, FoldHasNoHole
<1>6. Folds
  BY <1>2, <1>5 DEF Init, Folds, TrustedFoldIsTheWindow, Trusted
<1>7. Count
  BY <1>2 DEF Init, Count, Init01, Retried01
<1> QED
  BY <1>1, <1>3, <1>4, <1>6, <1>7 DEF IInv

(* A step that changes nothing.                                            *)
LEMMA StutterKeeps ==
  ASSUME IInv, UNCHANGED vars
  PROVE  IInv'
<1>1. UNCHANGED <<conn, conns, bind, win, open, log, incidents, own, due, fold, foldOf,
                  tries, slot, rolled, retried, armed, pump, pending>>
  BY DEF vars
<1>2. Types' /\ Owners' /\ Generations' /\ Reads'
  BY <1>1 DEF IInv, Types, Owners, Generations, Reads, Dated
<1>3. Attempts' /\ Pump' /\ Count'
  BY <1>1 DEF IInv, Attempts, Pump, Count, Init01, Retried01, Trying
<1>4. Folds'
  BY <1>1 DEF IInv, Folds, FoldHasNoHole, TrustedFoldIsTheWindow, Trusted, UpTo, Trying
<1> QED
  BY <1>2, <1>3, <1>4 DEF IInv

(* Every step keeps the invariant, and takes nothing back of what the      *)
(* transcript of an owner showed.                                          *)
LEMMA NextKeeps ==
  ASSUME IInv, [Next]_vars
  PROVE  IInv' /\ (foldOf' = foldOf => Len(fold') >= Len(fold))
<1>1. fold' = fold => Len(fold') >= Len(fold)
  <2>1. Len(fold) >= Len(fold)
    BY DEF IInv, Types
  <2> QED
    BY <2>1
<1>2. CASE UNCHANGED vars
  BY <1>1, <1>2, StutterKeeps DEF vars
<1>3. CASE Produce
  BY <1>1, <1>3, ProduceKeeps DEF Produce, transcript
<1>4. CASE Deliver(1)
  BY <1>4, DeliverKeeps
<1>5. CASE Deliver(2)
  BY <1>5, DeliverKeeps
<1>6. CASE OpeningPage
  BY <1>6, OpeningPageKeeps
<1>7. CASE Prepend
  BY <1>7, PrependKeeps
<1>8. CASE Opened
  BY <1>1, <1>8, OpenedKeeps DEF Opened, transcript
<1>9. CASE Drop
  BY <1>1, <1>9, DropKeeps DEF Drop, Connection, transcript
<1>10. CASE Reconnect
  BY <1>1, <1>10, ReconnectKeeps DEF Reconnect, Connection, transcript
<1>11. CASE Rebind
  BY <1>1, <1>11, RebindKeeps DEF Rebind, transcript
<1>12. CASE Commit
  BY <1>1, <1>12, CommitKeeps DEF Commit, transcript
<1>13. CASE InitSurface
  BY <1>1, <1>13, InitSurfaceKeeps DEF InitSurface, transcript
<1>14. CASE Refold
  BY <1>14, RefoldKeeps
<1>15. CASE EndRound
  BY <1>1, <1>15, EndRoundKeeps DEF EndRound, transcript
<1>16. ASSUME NEW i \in DOMAIN tries, LatePublication(i) \/ Attempt(i)
       PROVE  IInv' /\ (foldOf' = foldOf => Len(fold') >= Len(fold))
  <2>1. CASE LatePublication(i)
    BY <1>1, <2>1, LatePublicationKeeps DEF LatePublication, transcript
  <2>2. CASE Hydrate(i)
    BY <2>2, HydrateKeeps
  <2>3. CASE InitSuperseded(i)
    BY <1>1, <2>3, InitSupersededKeeps DEF InitSuperseded, transcript
  <2>4. CASE Subscribe(i)
    BY <1>1, <2>4, SubscribeKeeps DEF Subscribe, transcript
  <2>5. CASE InitFailed(i)
    BY <1>1, <2>5, InitFailedKeeps DEF InitFailed, transcript
  <2>6. CASE Wake(i)
    BY <1>1, <2>6, WakeKeeps DEF Wake, transcript
  <2> QED
    BY <1>16, <2>1, <2>2, <2>3, <2>4, <2>5, <2>6 DEF Attempt
<1> QED
  BY <1>2, <1>3, <1>4, <1>5, <1>6, <1>7, <1>8, <1>9, <1>10, <1>11, <1>12, <1>13, <1>14,
     <1>15, <1>16 DEF Next

(* What every reachable state satisfies.                                   *)
THEOREM Inductive == SafeSpec => []IInv
<1>1. Init => IInv
  BY InitIInv
<1>2. IInv /\ [Next]_vars => IInv'
  BY NextKeeps
<1> QED
  BY <1>1, <1>2, PTL DEF SafeSpec

(* The numbers of the generations and of the attempts stay within bounds   *)
(* that only the disturbances of the surface raise: an owner has one init, *)
(* and a generation one retry at once and one when it comes up.            *)
THEOREM TypeCorrect == SafeSpec => []TypeOK
<1>1. ASSUME IInv
      PROVE  TypeOK
  <2>1. /\ Types /\ conns \in Nat /\ conns # 0 /\ incidents \in Nat /\ MaxIncidents \in Nat
        /\ incidents <= MaxIncidents /\ own \in Nat /\ own <= 2 /\ Len(tries) \in Nat
        /\ conn \in Nat
    BY <1>1, BoundsAre DEF IInv, Types, Owners
  <2>2. conns <= 1 + incidents
    BY <1>1, <2>1 DEF IInv, Generations
  <2>3. conns \in 0..MaxIncidents + 1
    BY <2>1, <2>2
  <2>4. win \in [rev : Nat, hi : 0..log, conn : 0..conns,
                 kind : {"none", "append", "prepend", "replace"}]
    <3>1. win.hi <= log /\ win.conn <= conns /\ win \in Windows /\ log \in Nat
      BY <1>1, <2>1 DEF IInv, Generations, Types, Windows
    <3> QED
      BY <2>1, <3>1 DEF Windows
  <2>5. Len(tries) <= MaxAttempts
    <3>1. Init01 \in {0, 1} /\ Retried01 \in {0, 1}
      BY DEF Init01, Retried01
    <3>2. Len(tries) <= (own - Init01) + 2 * (conns - 1) + (own - 1) + Retried01
      BY <1>1 DEF IInv, Count
    <3>3. Len(tries) <= 4 + 2 * MaxIncidents
      BY <2>1, <2>2, <3>1, <3>2
    <3>4. 4 + 2 * MaxIncidents <= MaxAttempts
      BY <2>1 DEF MaxAttempts
    <3> QED
      BY <2>1, <3>3, <3>4 DEF MaxAttempts
  <2>6. \A i \in DOMAIN tries : tries[i] \in Handle
    BY <2>1 DEF Types
  <2>7. \A i \in DOMAIN tries : tries[i].st \in {"read", "hydrated", "failed", "gone",
                                                 "pending", "attached"}
    BY <2>6 DEF Handle
  <2>8. \A i \in DOMAIN tries : tries[i].st \in {"pending", "attached"} => i = slot
    BY <1>1 DEF IInv, Attempts
  <2>9. pump.st \in {"idle", "read", "acknowledge"}
    BY <2>1 DEF Types
  <2> QED
    BY <2>1, <2>3, <2>4, <2>5, <2>7, <2>8, <2>9 DEF Types, TypeOK
<1> QED
  BY <1>1, Inductive, PTL

(* The transcript has no hole and shows no event twice, whatever the       *)
(* interleaving of deltas, generations, re-folds and attempts.             *)
THEOREM NoHoleEver == SafeSpec => []FoldHasNoHole
<1>1. IInv => FoldHasNoHole
  BY DEF IInv, Folds
<1> QED
  BY <1>1, Inductive, PTL

(* A handle that trusts deltas continues exactly the window that the       *)
(* transcript shows.                                                       *)
THEOREM TrustIsEarned == SafeSpec => []TrustedFoldIsTheWindow
<1>1. IInv => TrustedFoldIsTheWindow
  BY DEF IInv, Folds
<1> QED
  BY <1>1, Inductive, PTL

(* What the transcript of an owner showed is never taken back by an older  *)
(* read that commits late.                                                 *)
THEOREM NothingIsTakenBack == SafeSpec => FoldNeverGoesBack
<1>1. IInv /\ [Next]_vars => [foldOf' = foldOf => Len(fold') >= Len(fold)]_vars
  BY NextKeeps
<1> QED
  BY <1>1, Inductive, PTL DEF SafeSpec, FoldNeverGoesBack
=============================================================================
