--------------------------- MODULE CatalogRefresh ---------------------------
(***************************************************************************)
(* The command and skill catalog of the surface:                           *)
(*   app/command/catalog-refresh.ts  the coordinator of the reads, and the *)
(*                                   gate that coalesces skills/change     *)
(*   app/command/surface.ts          the target a request names            *)
(*   tui/commands/*.ts, app/session/runtime.ts   who asks for a refresh    *)
(* A catalog is known by its target (the live Agent, or the standing scope *)
(* of a preset while there is no session) and by the number of changes the *)
(* Host had made when it answered the read.                                *)
(***************************************************************************)
EXTENDS Integers, FiniteSets

CONSTANTS Preset,      \* the presets of the roster
          Default,     \* no preset named: the default of the deployment
          Commands,    \* the requests a configuration lets the user make
          MaxRequests, \* how many of them
          MaxChanges   \* how often the Host's skills change

AllCommands == {"preset", "reload", "session", "default"}

ASSUME PresetAssumption == Default \notin Preset /\ IsFiniteSet(Preset)
ASSUME CommandsAssumption == Commands \subseteq AllCommands
ASSUME BoundsAssumption == MaxRequests \in Nat /\ MaxChanges \in Nat

\* One read per request of the user and at most one per change.
Call == 1..(MaxRequests + MaxChanges)
Version == 0..MaxChanges

VARIABLES
  owner,    \* generation of the live session, 0 while there is none
  due,      \* a commit has not yet asked for the catalog of its session
  choice,   \* effectivePresetId: pendingPreset ?? launch preset
  saving,   \* presets on the way into the settings as the new default
  asked,    \* requests of the user so far
  ver,      \* changes of the Host's skills so far
  epoch,    \* coordinator: `epoch`, also the name of the latest call
  active,   \* coordinator: the epoch of `active`, 0 if undefined
  aborted,  \* calls whose controller was aborted
  phase,    \* where each call is
  target,   \* request.target of each call
  changed,  \* targetChanged of each call
  answer,   \* what the Host answered
  applied,  \* coordinator: `appliedTarget`
  snap,     \* coordinator: `snapshot`
  shown,    \* the skills the surface offers
  last,     \* the latest outcome that was not "superseded"
  inFlight, dirty,   \* gate: the fields of that name
  read,     \* gate: the call it started, 0 for none
  disposed  \* the surface's signal is aborted and its catalog disposed

world == <<owner, due, choice, saving, asked, ver>>
calls == <<epoch, active, aborted, phase, target, changed, answer>>
catalog == <<applied, snap, shown, last>>
gate == <<inFlight, dirty, read>>
vars == <<owner, due, choice, saving, asked, ver, epoch, active, aborted,
          phase, target, changed, answer, applied, snap, shown, last,
          inFlight, dirty, read, disposed>>

----------------------------------------------------------------------------
Agent(g) == [kind |-> "agent", key |-> g]
Standing(p) == [kind |-> "preset", key |-> p]
Generation == 0..(MaxRequests + 1)
Target == {Agent(g) : g \in Generation \ {0}}
            \union {Standing(p) : p \in Preset \union {Default}}
NoTarget == [kind |-> "none", key |-> 0]
\* Blank: the revalidating commands of a target change, and no skills.
Blank == [of |-> NoTarget, ver |-> 0]
NoAnswer == [kind |-> "error", ver |-> 0]
Catalog == [of : Target, ver : Version]

\* The key of the generation that is live, or the effective preset.
BadLiveTarget == Agent(owner)
LiveTarget == IF owner = 0 THEN Standing(choice) ELSE Agent(owner)

WorldTypeOK ==
  /\ owner \in Generation /\ due \in BOOLEAN
  /\ choice \in Preset \union {Default} /\ saving \in SUBSET Preset
  /\ asked \in 0..MaxRequests /\ ver \in Version
  /\ disposed \in BOOLEAN

CallsTypeOK ==
  /\ epoch \in Call \union {0} /\ active \in {0, epoch}
  /\ aborted \in SUBSET Call
  /\ phase \in [Call -> {"free", "reading", "answered", "settled"}]
  /\ target \in [Call -> Target \union {NoTarget}]
  /\ changed \in [Call -> BOOLEAN]
  /\ answer \in [Call -> [kind : {"complete", "incomplete", "error"}, ver : Version]]

CatalogTypeOK ==
  /\ applied \in Target \union {NoTarget}
  /\ snap \in Catalog \union {Blank} /\ shown \in Catalog \union {Blank}
  /\ last \in [kind : {"none", "applied", "incomplete", "failed"}, ver : Version]

GateTypeOK == inFlight \in BOOLEAN /\ dirty \in BOOLEAN /\ read \in Call \union {0}

\* The type invariant.
TypeOK == WorldTypeOK /\ CallsTypeOK /\ CatalogTypeOK /\ GateTypeOK

\* What was read before the mount is shown, but no target is applied yet.
Init ==
  /\ owner \in {0, 1} /\ due = FALSE
  /\ choice \in Preset \union {Default} /\ saving = {}
  /\ asked = 0 /\ ver = 0
  /\ epoch = 0 /\ active = 0 /\ aborted = {}
  /\ phase = [c \in Call |-> "free"]
  /\ target = [c \in Call |-> NoTarget]
  /\ changed = [c \in Call |-> FALSE]
  /\ answer = [c \in Call |-> NoAnswer]
  /\ applied = NoTarget /\ snap = Blank
  /\ shown \in {Blank, [of |-> LiveTarget, ver |-> 0]}
  /\ last = [kind |-> "none", ver |-> 0]
  /\ inFlight = FALSE /\ dirty = FALSE /\ read = 0
  /\ disposed = FALSE

----------------------------------------------------------------------------
(* The coordinator.                                                        *)

\* The synchronous part of refresh(): supersede, enter the transition, read.
Refresh(t) ==
  /\ epoch' = epoch + 1
  /\ active' = epoch + 1
  /\ aborted' = aborted \union ({active} \ {0})
  /\ phase' = [phase EXCEPT ![epoch + 1] = "reading"]
  /\ target' = [target EXCEPT ![epoch + 1] = t]
  /\ changed' = [changed EXCEPT ![epoch + 1] = (applied # t)]
  /\ shown' = IF applied # t THEN Blank ELSE shown
  /\ UNCHANGED <<answer, applied, snap, last, disposed>>

\* A request after the disposal is answered without a read.
Ask(t) == IF disposed THEN UNCHANGED <<calls, catalog, disposed>> ELSE Refresh(t)

HostAnswers(c) ==
  /\ phase[c] = "reading"
  /\ \E kind \in {"complete", "incomplete", "error"} :
       answer' = [answer EXCEPT ![c] = [kind |-> kind, ver |-> ver]]
  /\ phase' = [phase EXCEPT ![c] = "answered"]
  /\ UNCHANGED <<world, epoch, active, aborted, target, changed, catalog, gate,
                 disposed>>

\* Only the lifetime of the surface is looked at.
BadSuperseded(c) == disposed
Superseded(c) == disposed \/ c \in aborted \/ c # epoch

\* A read that misses some skills keeps those of the snapshot it reloads.
Merged(c) == IF answer[c].kind = "incomplete" /\ ~changed[c] /\ snap # Blank
               THEN snap
               ELSE [of |-> target[c], ver |-> answer[c].ver]

\* installSnapshot leaves the skills on the surface alone unless all were read.
Commit(c) ==
  /\ snap' = Merged(c)
  /\ applied' = target[c]
  /\ shown' = IF answer[c].kind = "complete" THEN Merged(c) ELSE shown
  /\ last' = [kind |-> IF answer[c].kind = "complete" THEN "applied" ELSE "incomplete",
              ver |-> answer[c].ver]

Fail(c) == /\ last' = [kind |-> "failed", ver |-> answer[c].ver]
           /\ UNCHANGED <<applied, snap, shown>>

\* The rest of refresh(), once the read settled; an aborted read may reject
\* early.  The call's locals go with it.
Settle(c) ==
  /\ phase[c] = "answered" \/ (phase[c] = "reading" /\ Superseded(c))
  /\ phase' = [phase EXCEPT ![c] = "settled"]
  /\ active' = IF active = c THEN 0 ELSE active
  /\ \/ Superseded(c) /\ UNCHANGED catalog
     \/ ~Superseded(c) /\ answer[c].kind = "error" /\ Fail(c)
     \/ ~Superseded(c) /\ answer[c].kind # "error" /\ Commit(c)
  /\ target' = [target EXCEPT ![c] = NoTarget]
  /\ changed' = [changed EXCEPT ![c] = FALSE]
  /\ answer' = [answer EXCEPT ![c] = NoAnswer]
  /\ aborted' = aborted \ {c}
  /\ UNCHANGED <<world, epoch, gate, disposed>>

----------------------------------------------------------------------------
(* The coalescing gate of skills/change.                                   *)

GateStart == /\ inFlight' = TRUE
             /\ read' = IF disposed THEN 0 ELSE epoch + 1
             /\ Ask(LiveTarget)

\* What comes during a read is left to that read.
BadNotify == IF inFlight THEN UNCHANGED <<calls, catalog, gate, disposed>>
                         ELSE GateStart /\ dirty' = FALSE

Notify == IF inFlight THEN /\ dirty' = TRUE
                           /\ UNCHANGED <<calls, catalog, inFlight, read, disposed>>
                      ELSE GateStart /\ UNCHANGED dirty

SkillsChange ==
  /\ ver < MaxChanges
  /\ ver' = ver + 1
  /\ Notify
  /\ UNCHANGED <<owner, due, choice, saving, asked>>

\* The follow-up is forgotten.
BadGateSettled ==
  /\ inFlight /\ (read # 0 => phase[read] = "settled")
  /\ inFlight' = FALSE /\ dirty' = FALSE /\ read' = 0
  /\ UNCHANGED <<world, calls, catalog, disposed>>

\* settled(), called from the one terminal callback of the gate's task.
GateSettled ==
  /\ inFlight /\ (read # 0 => phase[read] = "settled")
  /\ dirty' = FALSE
  /\ IF dirty THEN GateStart
              ELSE /\ inFlight' = FALSE /\ read' = 0
                   /\ UNCHANGED <<calls, catalog, disposed>>
  /\ UNCHANGED world

----------------------------------------------------------------------------
(* Who asks.  Until a request of the user is answered he may make another. *)

MayAsk(command) == command \in Commands /\ asked < MaxRequests /\ ~disposed

\* /preset <id> without a session: the choice and the request are one stretch.
ChoosePreset(p) ==
  /\ MayAsk("preset") /\ owner = 0
  /\ asked' = asked + 1
  /\ choice' = p
  /\ Ask(Standing(p))
  /\ UNCHANGED <<owner, due, saving, ver, gate>>

\* /reload; /preset <id> of a blank session ends with the same request.
Reload ==
  /\ MayAsk("reload")
  /\ asked' = asked + 1
  /\ Ask(LiveTarget)
  /\ UNCHANGED <<owner, due, choice, saving, ver, gate>>

\* A session is published; the gate of the transitions holds off the next one
\* until this one's catalog was asked for.
Publish ==
  /\ MayAsk("session") /\ ~due
  /\ asked' = asked + 1
  /\ owner' = owner + 1
  /\ due' = TRUE
  /\ UNCHANGED <<choice, saving, ver, calls, catalog, gate, disposed>>

\* refreshLiveCatalog, after the surface of the session was set up.
RefreshLive ==
  /\ due
  /\ due' = FALSE
  /\ Ask(LiveTarget)
  /\ UNCHANGED <<owner, choice, saving, asked, ver, gate>>

\* /preset default <id>: resolved and saved, at most once at a time for an id
\* (a bound of the model) ...
SaveDefault(p) ==
  /\ MayAsk("default") /\ p \notin saving
  /\ asked' = asked + 1
  /\ saving' = saving \union {p}
  /\ UNCHANGED <<owner, due, choice, ver, calls, catalog, gate, disposed>>

\* ... and the standing catalog read unless another preset masks the default.
DefaultSaved(p) ==
  /\ p \in saving
  /\ saving' = saving \ {p}
  /\ IF choice = Default THEN Ask(Standing(p))
                         ELSE UNCHANGED <<calls, catalog, disposed>>
  /\ UNCHANGED <<owner, due, choice, asked, ver, gate>>

\* The exit.
Dispose ==
  /\ ~disposed
  /\ disposed' = TRUE
  /\ aborted' = aborted \union ({active} \ {0})
  /\ UNCHANGED <<world, epoch, active, phase, target, changed, answer, catalog, gate>>

Proceed == \/ \E c \in Call : HostAnswers(c) \/ Settle(c)
           \/ GateSettled \/ RefreshLive
           \/ \E p \in Preset : DefaultSaved(p)

Next == \/ Proceed \/ SkillsChange \/ Reload \/ Publish \/ Dispose
        \/ \E p \in Preset : ChoosePreset(p) \/ SaveDefault(p)

SafeSpec == Init /\ [][Next]_vars

\* Reads settle, callbacks run and a transition comes to its catalog.
Fairness == /\ \A c \in Call : WF_vars(HostAnswers(c)) /\ WF_vars(Settle(c))
            /\ WF_vars(GateSettled) /\ WF_vars(RefreshLive)

Spec == SafeSpec /\ Fairness

----------------------------------------------------------------------------
Quiet == /\ \A c \in Call : phase[c] \notin {"reading", "answered"}
         /\ ~inFlight /\ ~due /\ ~disposed

\* When nothing is under way, the latest outcome that counted was read after the
\* last change of the Host, whatever was superseded or coalesced on the way; if
\* it was a success, the surface and the coordinator hold that very catalog.
QuietIsFresh ==
  Quiet => /\ last.ver = ver
           /\ last.kind = "applied" => shown = snap /\ shown.ver = ver

\* ... and it is the catalog of the live session, or of the chosen preset.
ShownFollowsOwner ==
  Quiet /\ last.kind = "applied" => shown.of = LiveTarget

\* The doc's claim, for live sessions: a standing catalog does not stay on the
\* surface of an Agent (surface-catalog.md:64-66, models.ts:538-540).
LiveCatalogIsTheAgents ==
  Quiet /\ owner # 0 /\ last.kind = "applied" => shown.of = Agent(owner)

\* What the surface shows never goes back: to an earlier state of the same
\* catalog, to an earlier session, or from a session to a preset.
Rank(k) == IF k.of.kind = "agent" THEN k.of.key ELSE 0

CatalogNeverGoesBack ==
  [][shown' # Blank => /\ Rank(shown') >= Rank(shown)
                       /\ shown'.of = shown.of => shown'.ver >= shown.ver]_vars

\* A change of the skills is followed by an outcome of a read that saw it.
EveryChangeIsRead ==
  \A v \in 1..MaxChanges : ver >= v ~> last.ver >= v \/ disposed
============================================================================
