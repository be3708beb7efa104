--------------------------- MODULE RemoteLiveView ---------------------------
(***************************************************************************)
(* The transcript of the main session on a Client:                         *)
(*   app/remote/live-ingress.ts          the subscription, its recovery    *)
(*   app/surface/session-presentation.ts cold hydrate and window re-fold   *)
(*   app/bootstrap.ts                    init of the surface, re-fold pump *)
(*   app/bootstrap/remote-init-retry.ts                                    *)
(* over the official Client, which is external: a Connection generation,   *)
(* a binding per retained session, and the window of the Host's log that   *)
(* the binding shows.  After a reconnect the window is still the one of    *)
(* the dead generation until the opening page replaces it.                 *)
(* Every binding is of one session id: the id alone proves nothing.        *)
(***************************************************************************)
EXTENDS Integers, Sequences, FiniteSets

CONSTANTS MaxEvents,     \* bound: how many events the Host appends
          MaxIncidents   \* bound: disconnects, pages and commits, together

ASSUME BoundsAssumption == {MaxEvents, MaxIncidents} \subseteq Nat

VARIABLES
  conn, conns,      \* generation.getSnapshot() (0: none), how many there were
  bind, win, open,  \* sessions.binding(id), its window, openState = 'open'
  log, incidents,   \* Host: events appended; what disturbed the surface so far
  own, due,         \* ownership generation; what its commit still owes
  fold, foldOf,     \* the events the transcript folded, and for whom
  tries, slot,      \* the init attempts with their handles; remoteIngressHandle
  rolled,           \* observedRollover
  retried, armed,   \* lastInitRetry; the owner an armed retry belongs to
  pump, pending     \* the re-fold pump and remoteRefoldPending

upstream == <<conn, conns, bind, win, open, log, incidents>>
owner == <<own, due>>
transcript == <<fold, foldOf>>
inits == <<tries, slot, rolled, retried, armed>>
refold == <<pump, pending>>
vars == <<conn, conns, bind, win, open, log, incidents, own, due, fold, foldOf,
          tries, slot, rolled, retried, armed, pump, pending>>

UpTo(n) == [i \in 1..n |-> i]

\* A read captures what it is fenced by in the stretch in which it reads.
NoRead == [ok |-> FALSE, conn |-> 0, bind |-> 0, own |-> 0, rev |-> 0, hi |-> 0]
ReadUnder(c) ==
  IF c = 0 THEN [NoRead EXCEPT !.own = own]
  ELSE [ok |-> TRUE, conn |-> c, bind |-> bind, own |-> own, rev |-> win.rev, hi |-> win.hi]

\* isStillCurrent and isTransportTokenCurrent.
IsCurrent(s) == s.ok /\ s.conn = conn /\ s.bind = bind /\ s.own = own

NotTold == [conn |-> -1, rev |-> 0, open |-> FALSE]
NoBaseline == -1

\* A handle that does not exist yet, or does not any more.
Blank(st, of) == [st |-> st, of |-> of, bind |-> 0, fenced |-> 0,
                  mode |-> "incremental", last |-> 0, base |-> NoBaseline,
                  told |-> NotTold, queued |-> FALSE]

Idle == [st |-> "idle", at |-> 0, of |-> NoRead, proof |-> FALSE]

Init ==
  /\ conn = 1 /\ conns = 1
  /\ bind = 1 /\ win = [rev |-> 0, hi |-> 0, conn |-> 0, kind |-> "none"]
  /\ open = FALSE /\ log = 0 /\ incidents = 0
  /\ own = 1 /\ due = "init"
  /\ fold = <<>> /\ foldOf = <<0, 0>>
  /\ tries = <<>> /\ slot = 0 /\ rolled = FALSE
  /\ retried = <<0, 0>> /\ armed = 0
  /\ pump = Idle /\ pending = FALSE

----------------------------------------------------------------------------
\* The subscription.  Its handlers map a handle to what becomes of it, given
\* the window, the generation, the binding and the open state of the moment.

\* requireRefold: the owner is asked once per generation, revision and open
\* state.
Require(h, w, o) ==
  LET now == [conn |-> h.fenced, rev |-> w.rev, open |-> o]
      asked == h.told = now
  IN [h EXCEPT !.mode = "recovering",
               !.told = IF asked THEN @ ELSE now,
               !.queued = @ \/ ~asked]

Disposed(h) == [Blank("gone", NoRead) EXCEPT !.base = h.base]

\* A delta is delivered whatever was published before it.
BadIsNext(h, w) == w.rev # h.last
IsNext(h, w) == w.rev = h.last + 1

Delivers(h, w, b) == /\ h.st = "attached" /\ h.bind = b /\ h.mode = "incremental"
                     /\ w.kind = "append" /\ w.rev # h.last /\ IsNext(h, w)

\* publish.  A handle listens to the channels of its own binding only.  The
\* generation channel has told it of a rollover before anything of the new
\* generation is published.
Published(h, w, b, o) ==
  CASE h.st # "attached" \/ h.bind # b -> h
    [] h.st = "attached" /\ h.bind = b /\ h.mode = "recovering" -> Require(h, w, o)
    [] OTHER ->
         IF w.rev = h.last THEN h
         ELSE IF Delivers(h, w, b) THEN [h EXCEPT !.last = w.rev]
         ELSE Require(h, w, o)

\* onSnapshot
SnapshotChanged(h, w, b, o) ==
  IF h.st = "attached" /\ h.bind = b /\ h.mode = "recovering" THEN Require(h, w, o) ELSE h

\* The revision of the hydrate is not compared with that of the subscription.
BadIsBaseline(s, w) == TRUE
IsBaseline(s, w) == s.rev = w.rev

\* attach: what was hydrated is a baseline only under the same generation and
\* binding, and only if nothing was published since.
Attached(h, w, c, b, o) ==
  LET new == [h EXCEPT !.st = "attached", !.bind = b, !.fenced = c,
                       !.last = w.rev, !.of = NoRead]
  IN IF <<h.of.conn, h.of.bind>> # <<c, b>>
       THEN Require([new EXCEPT !.base = w.rev], w, o)
     ELSE IF ~IsBaseline(h.of, w) THEN Require(new, w, o)
     ELSE new

\* onGeneration
RolledOver(h, w, c, b, o) ==
  IF h.st = "pending" /\ c # 0 THEN Attached(h, w, c, b, o)
  ELSE IF h.st = "attached" /\ h.fenced # c
    THEN Require([h EXCEPT !.fenced = c, !.base = w.rev], w, o)
  ELSE h

\* subscribe: after a rollover the first publication is verified.
Subscribed(h) ==
  LET new == IF conn = 0 THEN [h EXCEPT !.st = "pending"]
                         ELSE Attached(h, win, conn, bind, open)
  IN IF rolled /\ new.st = "attached"
       THEN [new EXCEPT !.mode = "recovering",
                        !.told = [conn |-> conn, rev |-> win.rev, open |-> open]]
       ELSE new

\* refoldEligible
Eligible(h, rev) == h.base # rev

\* acknowledgeWindowRefold
Acknowledges(h, s) ==
  /\ h.st = "attached" /\ s.bind = h.bind /\ s.conn = conn
  /\ win.rev = s.rev /\ open /\ Eligible(h, s.rev)

Acknowledged(h, s) == [h EXCEPT !.fenced = conn, !.last = s.rev, !.base = NoBaseline,
                                !.mode = "incremental", !.told = NotTold]

----------------------------------------------------------------------------
\* The official Client and the Host.

\* Every handle of the binding is told of a publication; those that trust it fold it.
Publish(w) ==
  LET heard == {i \in DOMAIN tries : Delivers(tries[i], w, bind)}
  IN /\ win' = w
     /\ tries' = [i \in DOMAIN tries |-> Published(tries[i], w, bind, open)]
     /\ fold' = fold \o [i \in 1..Cardinality(heard) |-> w.hi]
     /\ UNCHANGED <<conn, conns, bind, open, owner, foldOf, slot, rolled,
                    retried, armed, refold>>

\* The Host appends an event that no window shows yet.
Produce ==
  /\ win.conn # conn \/ conn = 0
  /\ log < MaxEvents /\ log' = log + 1
  /\ UNCHANGED <<conn, conns, bind, win, open, incidents, owner, transcript,
                 inits, refold>>

\* The window grows, by one event or by two of which only the last is a change.
Deliver(n) ==
  /\ conn # 0 /\ win.conn = conn /\ log + n <= MaxEvents
  /\ log' = log + n
  /\ Publish([rev |-> win.rev + n, hi |-> log', conn |-> conn, kind |-> "append"])
  /\ UNCHANGED incidents

\* The opening page of a generation replaces the window.  It takes a round trip
\* to the Host, which outlasts the microtasks of an attempt that read before.
Outlasts(i) == tries[i].st \in {"read", "hydrated", "failed"} => tries[i].of.conn = conn

OpeningPage ==
  /\ conn # 0 /\ win.conn # conn
  /\ \A i \in DOMAIN tries : Outlasts(i)
  /\ Publish([rev |-> win.rev + 1, hi |-> log, conn |-> conn, kind |-> "replace"])
  /\ UNCHANGED <<log, incidents>>

\* The environment disturbs the surface a bounded number of times.
Incident == incidents < MaxIncidents /\ incidents' = incidents + 1

\* loadOlder: older history, which has no numbers here, joins the front.
Prepend ==
  /\ conn # 0 /\ win.conn # 0 /\ Incident
  /\ Publish([win EXCEPT !.rev = @ + 1, !.kind = "prepend"])
  /\ UNCHANGED log

\* The Session, which may be loading after a reconnect, is open.
Opened ==
  /\ conn # 0 /\ ~open /\ open' = TRUE
  /\ tries' = [i \in DOMAIN tries |-> SnapshotChanged(tries[i], win, bind, open')]
  /\ UNCHANGED <<conn, conns, bind, win, log, incidents, owner, transcript, slot,
                 rolled, retried, armed, refold>>

\* A publication of a binding that was replaced, or a change of its Session: the
\* handle that listens to it retires.
LatePublication(i) ==
  /\ tries[i].st = "attached" /\ tries[i].bind # bind
  /\ tries' = [tries EXCEPT ![i] = Disposed(@)]
  /\ UNCHANGED <<upstream, owner, transcript, slot, rolled, retried, armed, refold>>

----------------------------------------------------------------------------
\* The init of the surface.

\* initRemoteLiveSurface up to its first await: the surface that stands is
\* disposed, and with it an armed retry.
StartInit(ts) ==
  LET kept == [i \in DOMAIN ts |-> IF i = slot THEN Blank("gone", NoRead) ELSE ts[i]]
  IN /\ tries' = Append(kept, Blank("read", ReadUnder(conn)))
     /\ slot' = 0 /\ armed' = 0

\* bound: one owner change.
OwnerChanges == own = 1 /\ Incident

\* A commit of the TUI owner, of a binding that was replaced or of the same.
Commit ==
  /\ \/ due = "commit" /\ UNCHANGED incidents
     \/ due = "no" /\ OwnerChanges
  /\ own' = own + 1 /\ due' = "init"
  /\ UNCHANGED <<conn, conns, bind, win, open, log, transcript, inits, refold>>

\* The session is retained anew, which a commit of its owner follows.
Rebind ==
  /\ due = "no" /\ OwnerChanges
  /\ bind' = bind + 1 /\ due' = "commit"
  /\ win' = [rev |-> 0, hi |-> 0, conn |-> 0, kind |-> "none"] /\ open' = FALSE
  /\ UNCHANGED <<conn, conns, log, own, transcript, inits, refold>>

InitSurface ==
  /\ due = "init" /\ due' = "no"
  /\ StartInit(tries)
  /\ UNCHANGED <<upstream, own, transcript, rolled, retried, refold>>

\* Its fold is the window that was read.
Hydrate(i) ==
  /\ tries[i].st = "read"
  /\ IF IsCurrent(tries[i].of)
       THEN /\ tries' = [tries EXCEPT ![i].st = "hydrated"]
            /\ fold' = UpTo(tries[i].of.hi) /\ foldOf' = <<own, bind>>
       ELSE /\ tries' = [tries EXCEPT ![i] =
                              Blank("failed", [NoRead EXCEPT !.own = tries[i].of.own])]
            /\ UNCHANGED transcript
  /\ UNCHANGED <<upstream, owner, slot, rolled, retried, armed, refold>>

Dropped(i) == [tries EXCEPT ![i] = Blank("gone", NoRead)]

\* An older attempt installs its handle beside the newer one.
BadSuperseded(i) == FALSE
Superseded(i) == i # Len(tries) \/ tries[i].of.own # own

InitSuperseded(i) ==
  /\ tries[i].st \in {"hydrated", "failed"} /\ Superseded(i)
  /\ tries' = Dropped(i)
  /\ UNCHANGED <<upstream, owner, transcript, slot, rolled, retried, armed, refold>>

Subscribe(i) ==
  /\ tries[i].st = "hydrated" /\ ~Superseded(i)
  /\ tries' = [tries EXCEPT ![i] = Subscribed(@)]
  /\ slot' = i /\ retried' = <<0, 0>>
  /\ UNCHANGED <<upstream, owner, transcript, rolled, armed, refold>>

\* One retry at once for an owner under a generation, then the generation
\* channel is waited for.
InitFailed(i) ==
  /\ tries[i].st = "failed" /\ ~Superseded(i)
  /\ IF conn # 0 /\ retried # <<own, conn>>
       THEN retried' = <<own, conn>> /\ StartInit(Dropped(i))
       ELSE armed' = own /\ tries' = Dropped(i) /\ UNCHANGED <<slot, retried>>
  /\ UNCHANGED <<upstream, owner, transcript, rolled, refold>>

\* The generation channel: the handles first, then an armed retry.
Connection(c) ==
  LET told == [i \in DOMAIN tries |-> RolledOver(tries[i], win, c, bind, open')]
      again == c # 0 /\ armed = own
  IN /\ conn' = c /\ open' \in (IF c = 0 THEN {open} ELSE {open, FALSE})
     /\ rolled' = (rolled \/ c # 0)
     /\ armed' = IF c # 0 THEN 0 ELSE armed
     /\ tries' = IF again
                   THEN Append(told, Blank("read", ReadUnder(c)))
                   ELSE told
     /\ UNCHANGED <<bind, win, log, owner, transcript, slot, retried, refold>>

Drop == conn # 0 /\ Incident /\ Connection(0) /\ UNCHANGED conns
Reconnect == /\ conns' = conns + 1 /\ Connection(conns')
             /\ IF conn = 0 THEN UNCHANGED incidents ELSE Incident

----------------------------------------------------------------------------
\* The re-fold pump.

\* One round of the pump, as far as its read.
Round ==
  /\ pending' = FALSE
  /\ pump' = IF slot = 0 THEN Idle
             ELSE [st |-> "read", at |-> slot, of |-> ReadUnder(conn), proof |-> FALSE]

\* The microtask of requireRefold.
Wake(i) ==
  LET h == tries[i]
      fires == h.st = "attached" /\ h.mode = "recovering" /\ h.bind = bind
  IN /\ h.queued
     /\ tries' = [tries EXCEPT ![i].queued = FALSE]
     /\ IF ~fires THEN UNCHANGED refold
        ELSE IF pump.st = "idle" THEN Round
        ELSE pending' = TRUE /\ UNCHANGED pump
     /\ UNCHANGED <<upstream, owner, transcript, slot, rolled, retried, armed>>

\* Whatever was read is committed.
BadIsStillTheWindow(s) == TRUE

\* windowRefoldProof: the window is still the one that was read.
IsStillTheWindow(s) == win.rev = s.rev

\* rehydrateFromWindow: the commit.
Refold ==
  LET s == pump.of
      ok == /\ IsCurrent(s) /\ IsStillTheWindow(s)
            /\ slot # 0 => Eligible(tries[slot], s.rev)
  IN /\ pump.st = "read"
     /\ pump' = [pump EXCEPT !.st = "acknowledge", !.proof = ok,
                             !.of = IF ok THEN s ELSE NoRead]
     /\ IF ok THEN /\ fold' = UpTo(s.hi) /\ foldOf' = <<own, bind>>
              ELSE UNCHANGED transcript
     /\ UNCHANGED <<upstream, owner, inits, pending>>

\* The acknowledgement and the end of the round.
EndRound ==
  LET resumes == /\ slot = pump.at /\ pump.proof
                 /\ Acknowledges(tries[slot], pump.of)
  IN /\ pump.st = "acknowledge"
     /\ tries' = IF resumes
                   THEN [tries EXCEPT ![slot] = Acknowledged(@, pump.of)] ELSE tries
     /\ IF pending THEN Round ELSE pump' = Idle /\ UNCHANGED pending
     /\ UNCHANGED <<upstream, owner, transcript, slot, rolled, retried, armed>>

----------------------------------------------------------------------------
Attempt(i) == Hydrate(i) \/ InitSuperseded(i) \/ Subscribe(i) \/ InitFailed(i) \/ Wake(i)

Next == \/ Produce \/ Deliver(1) \/ Deliver(2) \/ OpeningPage \/ Prepend
        \/ Opened \/ Drop \/ Reconnect \/ Rebind \/ Commit \/ InitSurface
        \/ Refold \/ EndRound
        \/ \E i \in DOMAIN tries : LatePublication(i) \/ Attempt(i)

SafeSpec == Init /\ [][Next]_vars

\* An owner has at most one init, one retry at once and one per generation.
MaxAttempts == 2 * (4 + 2 * MaxIncidents)

\* The Client reconnects, shows the Host's log and opens the Session; a binding
\* that is replaced is committed; promises and microtasks settle.
Fairness ==
  /\ WF_vars(conn = 0 /\ Reconnect) /\ WF_vars(OpeningPage)
  /\ WF_vars(Opened)
  /\ WF_vars(due = "commit" /\ Commit) /\ WF_vars(InitSurface)
  /\ WF_vars(Refold) /\ WF_vars(EndRound)
  /\ \A i \in 1..MaxAttempts : WF_vars(i \in DOMAIN tries /\ Attempt(i))

Spec == SafeSpec /\ Fairness

----------------------------------------------------------------------------
\* The third conjunct from below: there is one publisher.
TypeOK ==
  /\ conn \in 0..conns /\ conns \in 0..MaxIncidents + 1
  /\ bind \in Nat /\ open \in BOOLEAN
  /\ win \in [rev : Nat, hi : 0..log, conn : 0..conns,
              kind : {"none", "append", "prepend", "replace"}]
  /\ log \in 0..MaxEvents /\ incidents \in 0..MaxIncidents
  /\ own \in Nat /\ due \in {"no", "commit", "init"}
  /\ fold \in Seq(1..MaxEvents) /\ foldOf \in Nat \X Nat
  /\ Len(tries) <= MaxAttempts /\ slot \in 0..Len(tries) /\ rolled \in BOOLEAN
  /\ retried \in Nat \X Nat /\ armed \in 0..own
  /\ pump.st \in {"idle", "read", "acknowledge"} /\ pending \in BOOLEAN
  /\ \A i \in DOMAIN tries : tries[i].st \in {"read", "hydrated", "failed", "gone",
                                              "pending", "attached"}
  /\ \A i \in DOMAIN tries : tries[i].st \in {"pending", "attached"} => i = slot

(* The transcript never has a hole and never shows an event twice, however *)
(* often the connection drops, pages are read and owners are committed.    *)
FoldHasNoHole == fold = UpTo(Len(fold))

(* While deltas are trusted, the transcript is exactly the official window *)
(* of the binding on the surface: the next delta continues it.             *)
Trusted == /\ slot # 0 /\ tries[slot].st = "attached"
           /\ tries[slot].bind = bind /\ tries[slot].mode = "incremental"

TrustedFoldIsTheWindow ==
  Trusted => tries[slot].last = win.rev /\ Len(fold) = win.hi

(* A re-fold of an older window never takes back what the transcript of    *)
(* an owner showed.                                                        *)
FoldNeverGoesBack == [][foldOf' = foldOf => Len(fold') >= Len(fold)]_vars

(* Whatever was lost, dropped or superseded on the way, the surface ends   *)
(* up with the whole log of the Host under the owner that stands.          *)
EventuallyShown == <>[](Len(fold) = log /\ foldOf = <<own, bind>>)
=============================================================================
