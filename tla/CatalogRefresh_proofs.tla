----------------------- MODULE CatalogRefresh_proofs -----------------------
(***************************************************************************)
(* That the catalog refreshes of CatalogRefresh keep their types and, once *)
(* nothing is under way, leave a fresh catalog of the right target, for    *)
(* every roster and every number of requests and changes.                  *)
(***************************************************************************)
EXTENDS CatalogRefresh, FiniteSetTheorems, TLAPS

Open(c) == phase[c] \in {"reading", "answered"}

\* What each step keeps of the calls of the coordinator.  The latest call is
\* not aborted before the exit, and no answer is older than the last outcome.
CallsOK ==
  /\ \A c \in Call : c > epoch => phase[c] = "free"
  /\ \A c \in Call : Open(c) => target[c] \in Target
  /\ ~disposed => \A c \in aborted : c < epoch
  /\ last.ver <= ver /\ \A c \in Call : answer[c].ver <= ver
  /\ \A c \in Call : c = epoch /\ phase[c] = "answered" => last.ver <= answer[c].ver

\* The calls still owed are paid for by what was asked.
Owed(b) == IF b THEN 1 ELSE 0
Budget == /\ epoch + Owed(due) + Owed(dirty) + Cardinality(saving) <= asked + ver
          /\ owner <= asked + 1
          /\ dirty => inFlight

\* The version of the Host is known, being read or about to be read.
FreshInv == \/ disposed \/ dirty \/ last.ver = ver
            \/ \E c \in Call : /\ c = epoch
                               /\ \/ phase[c] = "reading"
                                  \/ phase[c] = "answered" /\ answer[c].ver = ver

Rest == \A c \in Call : c = epoch => ~Open(c)

ShownInv == ~disposed /\ Rest /\ last.kind = "applied"
              => shown = snap /\ shown.ver = last.ver

IInv == TypeOK /\ CallsOK /\ Budget /\ FreshInv /\ ShownInv

----------------------------------------------------------------------------
LEMMA SavingFinite ==
  ASSUME saving \in SUBSET Preset
  PROVE  /\ IsFiniteSet(saving) /\ Cardinality(saving) \in Nat
         /\ \A p \in Preset : /\ Cardinality(saving \union {p}) <= Cardinality(saving) + 1
                              /\ Cardinality(saving \union {p}) \in Nat
         /\ \A p \in saving : /\ Cardinality(saving \ {p}) = Cardinality(saving) - 1
                              /\ Cardinality(saving \ {p}) \in Nat
BY FS_Subset, FS_CardinalityType, FS_AddElement, FS_RemoveElement, PresetAssumption

LEMMA LiveTargetType == WorldTypeOK => LiveTarget \in Target
BY DEF WorldTypeOK, LiveTarget, Target, Generation, Agent, Standing

\* What a request does, to whoever asks.
LEMMA AskOK ==
  ASSUME IInv, NEW t \in Target, epoch + 1 \in Call, Ask(t),
         ver' \in Version, ver' >= ver
  PROVE  /\ CallsTypeOK' /\ CatalogTypeOK' /\ CallsOK' /\ ShownInv'
         /\ disposed' = disposed
         /\ ~disposed => /\ epoch' = epoch + 1 /\ epoch' \in Call
                         /\ phase'[epoch'] = "reading"
         /\ disposed => epoch' = epoch
<1> USE DEF Call, Version
<1> USE BoundsAssumption
<1>1. ver \in Int /\ ver' \in Int /\ last.ver \in Int /\ \A c \in Call : answer[c].ver \in Int
  BY DEF IInv, TypeOK, WorldTypeOK, CallsTypeOK, CatalogTypeOK
<1>2. CASE disposed
  <2>1. UNCHANGED <<calls, catalog, disposed>>
    BY <1>2 DEF Ask
  <2>2. CallsTypeOK' /\ CatalogTypeOK'
    BY <2>1 DEF calls, catalog, IInv, TypeOK, CallsTypeOK, CatalogTypeOK
  <2>3. CallsOK' /\ ShownInv'
    BY <1>1, <1>2, <2>1 DEF calls, catalog, IInv, CallsOK, ShownInv, Open, Rest
  <2> QED
    BY <1>2, <2>1, <2>2, <2>3 DEF calls
<1>3. CASE ~disposed
  <2>1. Refresh(t)
    BY <1>3 DEF Ask
  <2>2. CallsTypeOK' /\ CatalogTypeOK'
    BY <2>1 DEF Refresh, IInv, TypeOK, CallsTypeOK, CatalogTypeOK
  <2>3. epoch' = epoch + 1 /\ epoch' \in Call /\ phase'[epoch'] = "reading"
    BY <2>1 DEF Refresh, IInv, TypeOK, CallsTypeOK
  <2>4. \A c \in Call : c # epoch' => phase'[c] = phase[c] /\ target'[c] = target[c]
    BY <2>1 DEF Refresh, IInv, TypeOK, CallsTypeOK
  <2>5. ShownInv'
    BY <2>3 DEF ShownInv, Rest, Open
  <2>6. target'[epoch'] \in Target /\ UNCHANGED <<answer, last, disposed>>
    BY <2>1 DEF Refresh, IInv, TypeOK, CallsTypeOK
  <2>7. \A c \in aborted' : c < epoch'
    BY <2>1, <1>3 DEF Refresh, IInv, TypeOK, CallsTypeOK, CallsOK
  <2>8. \A c \in Call : c > epoch' => phase'[c] = "free"
    BY <2>3, <2>4 DEF IInv, TypeOK, CallsTypeOK, CallsOK
  <2>9. CallsOK'
    BY <1>1, <2>3, <2>4, <2>6, <2>7, <2>8 DEF IInv, CallsOK, Open
  <2> QED
    BY <1>3, <2>2, <2>3, <2>5, <2>6, <2>9
<1> QED
  BY <1>2, <1>3

\* A request is always fresh: it will be read, unless the surface is gone.
LEMMA AskFresh ==
  ASSUME IInv, NEW t \in Target, epoch + 1 \in Call, Ask(t),
         ver' \in Version, ver' >= ver
  PROVE  FreshInv'
BY AskOK DEF FreshInv

----------------------------------------------------------------------------
LEMMA InitInv == Init => IInv
<1> SUFFICES ASSUME Init PROVE IInv
  OBVIOUS
<1>1. TypeOK
  <2>1. WorldTypeOK
    <3>1. owner \in Generation /\ ver \in Version /\ asked \in 0..MaxRequests
      BY BoundsAssumption DEF Init, Generation, Version
    <3> QED
      BY <3>1 DEF Init, WorldTypeOK
  <2>2. LiveTarget \in Target
    BY <2>1, LiveTargetType
  <2>3. CatalogTypeOK
    BY BoundsAssumption, <2>2 DEF Init, CatalogTypeOK, Version, Catalog
  <2>4. CallsTypeOK
    BY BoundsAssumption DEF Init, CallsTypeOK, Call, Version, NoAnswer
  <2> QED
    BY <2>1, <2>3, <2>4 DEF TypeOK, Init, GateTypeOK
<1>2. CallsOK
  BY BoundsAssumption DEF Init, CallsOK, Open, Call, NoAnswer
<1>3. Budget
  BY FS_EmptySet DEF Init, Budget, Owed
<1>4. FreshInv /\ ShownInv
  BY DEF Init, FreshInv, ShownInv
<1> QED
  BY <1>1, <1>2, <1>3, <1>4 DEF IInv

\* The steps that ask.

LEMMA ChoosePresetInv ==
  ASSUME IInv, NEW p \in Preset, ChoosePreset(p) PROVE IInv'
<1> USE BoundsAssumption DEF Version, Call
<1> DEFINE n == Cardinality(saving)
<1>1. n \in Nat
  BY SavingFinite DEF IInv, TypeOK, WorldTypeOK
<1> HIDE DEF n
<1>2. epoch + 1 \in Call /\ Standing(p) \in Target
  BY <1>1 DEF IInv, TypeOK, WorldTypeOK, CallsTypeOK, Budget, Owed, ChoosePreset, MayAsk, n,
              Target
<1>3. Ask(Standing(p)) /\ ver' = ver /\ ver' \in Version /\ ver' >= ver
  BY DEF ChoosePreset, IInv, TypeOK, WorldTypeOK
<1>4. CallsTypeOK' /\ CatalogTypeOK' /\ CallsOK' /\ ShownInv' /\ disposed' = disposed
      /\ FreshInv' /\ epoch' \in {epoch, epoch + 1}
  BY <1>2, <1>3, AskOK, AskFresh
<1>5. WorldTypeOK' /\ GateTypeOK'
  BY <1>4 DEF ChoosePreset, MayAsk, gate, IInv, TypeOK, WorldTypeOK, GateTypeOK, Generation
<1>6. Budget'
  BY <1>1, <1>4 DEF ChoosePreset, gate, IInv, TypeOK, WorldTypeOK, CallsTypeOK, Budget, Owed, n,
                    Generation
<1> QED
  BY <1>4, <1>5, <1>6 DEF IInv, TypeOK

LEMMA ReloadInv == ASSUME IInv, Reload PROVE IInv'
<1> USE BoundsAssumption DEF Version, Call
<1> DEFINE n == Cardinality(saving)
<1>1. n \in Nat
  BY SavingFinite DEF IInv, TypeOK, WorldTypeOK
<1> HIDE DEF n
<1>2. epoch + 1 \in Call /\ LiveTarget \in Target
  BY <1>1, LiveTargetType
     DEF IInv, TypeOK, WorldTypeOK, CallsTypeOK, Budget, Owed, Reload, MayAsk, n
<1>3. Ask(LiveTarget) /\ ver' = ver /\ ver' \in Version /\ ver' >= ver
  BY DEF Reload, IInv, TypeOK, WorldTypeOK
<1>4. CallsTypeOK' /\ CatalogTypeOK' /\ CallsOK' /\ ShownInv' /\ disposed' = disposed
      /\ FreshInv' /\ epoch' \in {epoch, epoch + 1}
  BY <1>2, <1>3, AskOK, AskFresh
<1>5. WorldTypeOK' /\ GateTypeOK'
  BY <1>4 DEF Reload, MayAsk, gate, IInv, TypeOK, WorldTypeOK, GateTypeOK
<1>6. Budget'
  BY <1>1, <1>4 DEF Reload, gate, IInv, TypeOK, WorldTypeOK, CallsTypeOK, Budget, Owed, n,
                    Generation
<1> QED
  BY <1>4, <1>5, <1>6 DEF IInv, TypeOK

LEMMA RefreshLiveInv == ASSUME IInv, RefreshLive PROVE IInv'
<1> USE BoundsAssumption DEF Version, Call
<1> DEFINE n == Cardinality(saving)
<1>1. n \in Nat
  BY SavingFinite DEF IInv, TypeOK, WorldTypeOK
<1> HIDE DEF n
<1>2. epoch + 1 \in Call /\ LiveTarget \in Target
  BY <1>1, LiveTargetType
     DEF IInv, TypeOK, WorldTypeOK, CallsTypeOK, Budget, Owed, RefreshLive, n
<1>3. Ask(LiveTarget) /\ ver' = ver /\ ver' \in Version /\ ver' >= ver
  BY DEF RefreshLive, IInv, TypeOK, WorldTypeOK
<1>4. CallsTypeOK' /\ CatalogTypeOK' /\ CallsOK' /\ ShownInv' /\ disposed' = disposed
      /\ FreshInv' /\ epoch' \in {epoch, epoch + 1}
  BY <1>2, <1>3, AskOK, AskFresh
<1>5. WorldTypeOK' /\ GateTypeOK'
  BY <1>4 DEF RefreshLive, gate, IInv, TypeOK, WorldTypeOK, GateTypeOK
<1>6. Budget'
  BY <1>1, <1>4 DEF RefreshLive, gate, IInv, TypeOK, WorldTypeOK, CallsTypeOK, Budget, Owed, n,
                    Generation
<1> QED
  BY <1>4, <1>5, <1>6 DEF IInv, TypeOK

LEMMA DefaultSavedInv ==
  ASSUME IInv, NEW p \in Preset, DefaultSaved(p) PROVE IInv'
<1> USE BoundsAssumption DEF Version, Call
<1> DEFINE n == Cardinality(saving)
           m == Cardinality(saving \ {p})
<1>1. n \in Nat /\ m \in Nat /\ m = n - 1
  BY SavingFinite DEF IInv, TypeOK, WorldTypeOK, DefaultSaved
<1> HIDE DEF n, m
<1>2. saving' = saving \ {p} /\ UNCHANGED <<owner, due, choice, asked, ver, gate>>
  BY DEF DefaultSaved
<1>3. CASE choice = Default
  <2>1. epoch + 1 \in Call /\ Standing(p) \in Target /\ ver' \in Version /\ ver' >= ver
    <3>1. Standing(p) \in Target
      BY DEF Target
    <3>2. ver' \in Version /\ ver' >= ver
      BY <1>2 DEF IInv, TypeOK, WorldTypeOK
    <3>3. epoch + 1 \in Call
      BY <1>1 DEF IInv, TypeOK, WorldTypeOK, CallsTypeOK, Budget, Owed, n
    <3> QED
      BY <3>1, <3>2, <3>3
  <2>2. Ask(Standing(p))
    BY <1>3 DEF DefaultSaved
  <2>3. CallsTypeOK' /\ CatalogTypeOK' /\ CallsOK' /\ ShownInv' /\ disposed' = disposed
        /\ FreshInv' /\ epoch' \in {epoch, epoch + 1}
    BY <2>1, <2>2, AskOK, AskFresh
  <2>4. WorldTypeOK' /\ GateTypeOK'
    BY <1>2, <2>3 DEF gate, IInv, TypeOK, WorldTypeOK, GateTypeOK
  <2>5. Budget'
    BY <1>1, <1>2, <2>3 DEF gate, IInv, TypeOK, WorldTypeOK, CallsTypeOK, Budget, Owed, n, m,
                            Generation
  <2> QED
    BY <2>3, <2>4, <2>5 DEF IInv, TypeOK
<1>4. CASE choice # Default
  <2>1. UNCHANGED <<calls, catalog, disposed>>
    BY <1>4 DEF DefaultSaved
  <2>2. TypeOK'
    BY <1>2, <2>1 DEF calls, catalog, gate, IInv, TypeOK, WorldTypeOK, CallsTypeOK,
                      CatalogTypeOK, GateTypeOK
  <2>3. Budget'
    BY <1>1, <1>2, <2>1 DEF calls, gate, IInv, TypeOK, WorldTypeOK, CallsTypeOK, Budget, Owed,
                            n, m, Generation
  <2> QED
    BY <1>2, <2>1, <2>2, <2>3
       DEF IInv, calls, catalog, gate, CallsOK, FreshInv, ShownInv, Open, Rest
<1> QED
  BY <1>3, <1>4

LEMMA SkillsChangeInv == ASSUME IInv, SkillsChange PROVE IInv'
<1> USE BoundsAssumption DEF Version, Call
<1> DEFINE n == Cardinality(saving)
<1>1. n \in Nat
  BY SavingFinite DEF IInv, TypeOK, WorldTypeOK
<1> HIDE DEF n
<1>2. /\ ver' = ver + 1 /\ ver' \in Version /\ ver' >= ver
      /\ Notify /\ UNCHANGED <<owner, due, choice, saving, asked>>
  BY DEF SkillsChange, IInv, TypeOK, WorldTypeOK
<1>3. CASE inFlight
  <2>1. dirty' = TRUE /\ UNCHANGED <<calls, catalog, inFlight, read, disposed>>
    BY <1>2, <1>3 DEF Notify
  <2>2. TypeOK'
    BY <1>2, <2>1 DEF calls, catalog, IInv, TypeOK, WorldTypeOK, CallsTypeOK, CatalogTypeOK,
                      GateTypeOK
  <2>3. Budget'
    BY <1>1, <1>2, <1>3, <2>1 DEF calls, IInv, TypeOK, WorldTypeOK, CallsTypeOK, GateTypeOK,
                                  Budget, Owed, n, Generation
  <2>4. CallsOK'
    <3>1. last.ver \in Int /\ \A c \in Call : answer[c].ver \in Int
      BY DEF IInv, TypeOK, CallsTypeOK, CatalogTypeOK
    <3> QED
      BY <1>2, <2>1, <3>1 DEF calls, catalog, IInv, TypeOK, WorldTypeOK, CallsOK, Open
  <2> QED
    BY <2>1, <2>2, <2>3, <2>4 DEF calls, catalog, IInv, FreshInv, ShownInv, Rest, Open
<1>4. CASE ~inFlight
  <2>1. GateStart /\ UNCHANGED dirty /\ dirty = FALSE
    BY <1>2, <1>4 DEF Notify, IInv, TypeOK, GateTypeOK, Budget
  <2>2. Ask(LiveTarget) /\ inFlight' = TRUE /\ read' = IF disposed THEN 0 ELSE epoch + 1
    BY <2>1 DEF GateStart
  <2>3. epoch + 1 \in Call /\ LiveTarget \in Target
    BY <1>1, <1>2, LiveTargetType
       DEF IInv, TypeOK, WorldTypeOK, CallsTypeOK, Budget, Owed, n
  <2>4. CallsTypeOK' /\ CatalogTypeOK' /\ CallsOK' /\ ShownInv' /\ disposed' = disposed
        /\ FreshInv' /\ epoch' \in {epoch, epoch + 1}
    BY <1>2, <2>2, <2>3, AskOK, AskFresh
  <2>5. WorldTypeOK' /\ GateTypeOK'
    BY <1>2, <2>1, <2>2, <2>3, <2>4 DEF IInv, TypeOK, WorldTypeOK, GateTypeOK
  <2>6. Budget'
    BY <1>1, <1>2, <2>1, <2>2, <2>4 DEF IInv, TypeOK, WorldTypeOK, CallsTypeOK, Budget, Owed,
                                        n, Generation
  <2> QED
    BY <2>4, <2>5, <2>6 DEF IInv, TypeOK
<1> QED
  BY <1>3, <1>4

LEMMA GateSettledInv == ASSUME IInv, GateSettled PROVE IInv'
<1> USE BoundsAssumption DEF Version, Call
<1> DEFINE n == Cardinality(saving)
<1>1. n \in Nat
  BY SavingFinite DEF IInv, TypeOK, WorldTypeOK
<1> HIDE DEF n
<1>2. inFlight /\ dirty' = FALSE /\ UNCHANGED world /\ ver' \in Version /\ ver' >= ver
  BY DEF GateSettled, world, IInv, TypeOK, WorldTypeOK
<1>3. CASE dirty
  <2>1. Ask(LiveTarget) /\ inFlight' = TRUE /\ read' = IF disposed THEN 0 ELSE epoch + 1
    BY <1>3 DEF GateSettled, GateStart
  <2>2. epoch + 1 \in Call /\ LiveTarget \in Target
    BY <1>1, <1>3, LiveTargetType
       DEF IInv, TypeOK, WorldTypeOK, CallsTypeOK, Budget, Owed, n
  <2>3. CallsTypeOK' /\ CatalogTypeOK' /\ CallsOK' /\ ShownInv' /\ disposed' = disposed
        /\ FreshInv' /\ epoch' \in {epoch, epoch + 1}
    BY <1>2, <2>1, <2>2, AskOK, AskFresh
  <2>4. WorldTypeOK' /\ GateTypeOK'
    BY <1>2, <2>1, <2>2, <2>3 DEF world, IInv, TypeOK, WorldTypeOK, GateTypeOK
  <2>5. Budget'
    BY <1>1, <1>2, <1>3, <2>1, <2>3 DEF world, IInv, TypeOK, WorldTypeOK, CallsTypeOK, Budget,
                                        Owed, n, Generation
  <2> QED
    BY <2>3, <2>4, <2>5 DEF IInv, TypeOK
<1>4. CASE ~dirty
  <2>1. inFlight' = FALSE /\ read' = 0 /\ UNCHANGED <<calls, catalog, disposed>>
    BY <1>4 DEF GateSettled
  <2>2. TypeOK'
    BY <1>2, <2>1 DEF world, calls, catalog, IInv, TypeOK, WorldTypeOK, CallsTypeOK,
                      CatalogTypeOK, GateTypeOK
  <2>3. Budget'
    BY <1>1, <1>2, <1>4, <2>1 DEF world, calls, IInv, TypeOK, WorldTypeOK, CallsTypeOK,
                                  Budget, Owed, n, Generation
  <2> QED
    BY <1>2, <1>4, <2>1, <2>2, <2>3
       DEF IInv, world, calls, catalog, CallsOK, FreshInv, ShownInv, Open, Rest
<1> QED
  BY <1>3, <1>4

\* The other steps.

LEMMA HostAnswersInv == ASSUME IInv, NEW c \in Call, HostAnswers(c) PROVE IInv'
<1> USE BoundsAssumption DEF Call
<1>1. PICK kind \in {"complete", "incomplete", "error"} :
        answer' = [answer EXCEPT ![c] = [kind |-> kind, ver |-> ver]]
  BY DEF HostAnswers
<1>2. /\ phase[c] = "reading" /\ phase' = [phase EXCEPT ![c] = "answered"]
      /\ UNCHANGED <<world, epoch, active, aborted, target, changed, catalog, gate, disposed>>
  BY DEF HostAnswers
<1>3. ver \in Version /\ ver \in Int /\ last.ver \in Int
  BY DEF IInv, TypeOK, WorldTypeOK, CatalogTypeOK, Version
<1>4. TypeOK'
  <2>1. answer' \in [Call -> [kind : {"complete", "incomplete", "error"}, ver : Version]]
    BY <1>1, <1>3 DEF IInv, TypeOK, CallsTypeOK
  <2>2. CallsTypeOK'
    BY <1>2, <2>1 DEF IInv, TypeOK, CallsTypeOK
  <2> QED
    BY <1>2, <2>2 DEF world, catalog, gate, IInv, TypeOK, WorldTypeOK, CatalogTypeOK, GateTypeOK
<1>5. answer'[c].ver = ver /\ \A d \in Call : d # c => answer'[d] = answer[d]
  BY <1>1 DEF IInv, TypeOK, CallsTypeOK
<1>6. phase'[c] = "answered" /\ \A d \in Call : d # c => phase'[d] = phase[d]
  BY <1>2 DEF IInv, TypeOK, CallsTypeOK
<1>7. CallsOK'
  BY <1>2, <1>3, <1>5, <1>6 DEF world, catalog, IInv, CallsOK, Open
<1>8. FreshInv' /\ ShownInv'
  BY <1>2, <1>5, <1>6 DEF world, catalog, gate, IInv, FreshInv, ShownInv, Rest, Open
<1>9. Budget'
  BY <1>2 DEF world, gate, IInv, Budget
<1> QED
  BY <1>4, <1>7, <1>8, <1>9 DEF IInv

LEMMA MergedType ==
  ASSUME IInv, NEW c \in Call, phase[c] = "answered"
  PROVE  Merged(c) \in Catalog /\ target[c] \in Target
<1>1. target[c] \in Target /\ answer[c].ver \in Version
  BY DEF IInv, TypeOK, CallsTypeOK, CallsOK, Open
<1> QED
  BY <1>1 DEF IInv, TypeOK, CatalogTypeOK, Merged, Catalog

LEMMA SettleInv == ASSUME IInv, NEW c \in Call, Settle(c) PROVE IInv'
<1> USE BoundsAssumption DEF Call
<1>1. /\ phase[c] = "answered" \/ (phase[c] = "reading" /\ Superseded(c))
      /\ phase' = [phase EXCEPT ![c] = "settled"]
      /\ active' = IF active = c THEN 0 ELSE active
      /\ target' = [target EXCEPT ![c] = NoTarget]
      /\ changed' = [changed EXCEPT ![c] = FALSE]
      /\ answer' = [answer EXCEPT ![c] = NoAnswer]
      /\ aborted' = aborted \ {c}
      /\ UNCHANGED <<world, epoch, gate, disposed>>
  BY DEF Settle
<1>2. /\ ver \in Int /\ ver >= 0 /\ ver \in Version /\ last.ver \in Int
      /\ \A d \in Call : answer[d].ver \in Version /\ answer[d].ver \in Int
  BY DEF IInv, TypeOK, WorldTypeOK, CatalogTypeOK, CallsTypeOK, Version
<1>3. CallsTypeOK'
  <2>1. NoAnswer \in [kind : {"complete", "incomplete", "error"}, ver : Version]
    BY DEF NoAnswer, Version
  <2>2. answer' \in [Call -> [kind : {"complete", "incomplete", "error"}, ver : Version]]
    BY <1>1, <2>1 DEF IInv, TypeOK, CallsTypeOK
  <2> QED
    BY <1>1, <2>2 DEF IInv, TypeOK, CallsTypeOK
<1>4. /\ phase'[c] = "settled" /\ answer'[c].ver = 0
      /\ \A d \in Call : d # c => /\ phase'[d] = phase[d] /\ answer'[d] = answer[d]
                                   /\ target'[d] = target[d]
  BY <1>1 DEF IInv, TypeOK, CallsTypeOK, NoAnswer
<1>5. WorldTypeOK' /\ GateTypeOK' /\ Budget'
  BY <1>1 DEF world, gate, IInv, TypeOK, WorldTypeOK, GateTypeOK, Budget
<1>6. CASE Superseded(c)
  <2>1. UNCHANGED catalog
    BY <1>6 DEF Settle
  <2>2. ~disposed => c # epoch
    BY <1>6 DEF Superseded, IInv, CallsOK
  <2>3. CatalogTypeOK'
    BY <2>1 DEF catalog, IInv, TypeOK, CatalogTypeOK
  <2>4. CallsOK'
    BY <1>1, <1>2, <1>4, <2>1 DEF world, catalog, IInv, CallsOK, Open
  <2>5. FreshInv' /\ ShownInv'
    BY <1>1, <1>4, <2>1, <2>2 DEF world, catalog, gate, IInv, FreshInv, ShownInv, Rest, Open
  <2> QED
    BY <1>3, <1>5, <2>3, <2>4, <2>5 DEF IInv, TypeOK
<1>7. CASE ~Superseded(c)
  <2>1. c = epoch /\ ~disposed /\ phase[c] = "answered"
    BY <1>1, <1>7 DEF Superseded
  <2>2. Merged(c) \in Catalog /\ target[c] \in Target
    BY <2>1, MergedType
  <2>3. last'.ver = answer[c].ver /\ CatalogTypeOK'
        /\ (last'.kind = "applied" => shown' = snap' /\ shown'.ver = last'.ver)
    <3>1. CASE answer[c].kind = "error"
      <4>1. Fail(c)
        BY <1>7, <3>1 DEF Settle
      <4> QED
        BY <1>2, <4>1 DEF Fail, IInv, TypeOK, CatalogTypeOK
    <3>2. CASE answer[c].kind # "error"
      <4>1. Commit(c)
        BY <1>7, <3>2 DEF Settle
      <4>2. answer[c].kind = "complete" => Merged(c).ver = answer[c].ver
        BY DEF Merged
      <4> QED
        BY <1>2, <2>2, <4>1, <4>2 DEF Commit, IInv, TypeOK, CatalogTypeOK
    <3> QED
      BY <3>1, <3>2
  <2>4. last.ver <= answer[c].ver /\ answer[c].ver <= ver
    BY <2>1 DEF IInv, CallsOK
  <2>5. CallsOK'
    <3>1. UNCHANGED <<ver, epoch, disposed>>
      BY <1>1 DEF world
    <3>2. last'.ver <= ver' /\ \A d \in Call : answer'[d].ver <= ver'
      BY <1>2, <1>4, <2>3, <2>4, <3>1 DEF IInv, CallsOK
    <3>3. \A d \in Call : d > epoch' => phase'[d] = "free"
      BY <1>4, <2>1, <3>1 DEF IInv, CallsOK
    <3>4. \A d \in aborted' : d < epoch'
      BY <1>1, <2>1, <3>1 DEF IInv, CallsOK
    <3>5. \A d \in Call : Open(d)' => target'[d] \in Target
      BY <1>4 DEF IInv, CallsOK, Open
    <3> QED
      BY <1>4, <2>1, <3>1, <3>2, <3>3, <3>4, <3>5 DEF CallsOK
  <2>6. FreshInv'
    BY <1>1, <1>2, <2>1, <2>3, <2>4 DEF world, gate, IInv, FreshInv
  <2>7. ShownInv'
    BY <2>3 DEF ShownInv
  <2> QED
    BY <1>3, <1>5, <2>3, <2>5, <2>6, <2>7 DEF IInv, TypeOK
<1> QED
  BY <1>6, <1>7

LEMMA WorldStepInv ==
  ASSUME IInv, Publish \/ Dispose \/ \E p \in Preset : SaveDefault(p) PROVE IInv'
<1> USE BoundsAssumption
<1> DEFINE n == Cardinality(saving)
<1>1. n \in Nat
  BY SavingFinite DEF IInv, TypeOK, WorldTypeOK
<1> HIDE DEF n
<1>2. CASE Publish
  <2>1. TypeOK'
    BY <1>2 DEF Publish, MayAsk, IInv, Budget, TypeOK, WorldTypeOK, CallsTypeOK, CatalogTypeOK,
                GateTypeOK, calls, catalog, gate, Generation
  <2>2. Budget'
    BY <1>1, <1>2 DEF Publish, IInv, Budget, TypeOK, WorldTypeOK, CallsTypeOK, GateTypeOK,
                      calls, gate, Owed, Call, Version, Generation, n
  <2> QED
    BY <1>2, <2>1, <2>2 DEF Publish, IInv, calls, catalog, gate, CallsOK, FreshInv, ShownInv,
                            Rest, Open
<1>3. CASE Dispose
  <2>1. TypeOK'
    BY <1>3 DEF Dispose, IInv, TypeOK, WorldTypeOK, CallsTypeOK, CatalogTypeOK, GateTypeOK,
                world, catalog, gate
  <2> QED
    BY <1>3, <2>1 DEF Dispose, IInv, Budget, world, catalog, gate, CallsOK, FreshInv, ShownInv,
                      Open
<1>4. ASSUME NEW p \in Preset, SaveDefault(p) PROVE IInv'
  <2> DEFINE m == Cardinality(saving \union {p})
  <2>1. m \in Nat /\ m <= n + 1
    BY SavingFinite DEF IInv, TypeOK, WorldTypeOK, n
  <2> HIDE DEF m
  <2>2. TypeOK'
    BY <1>4 DEF SaveDefault, MayAsk, IInv, TypeOK, WorldTypeOK, CallsTypeOK, CatalogTypeOK,
                GateTypeOK, calls, catalog, gate
  <2>3. Budget'
    BY <1>1, <1>4, <2>1 DEF SaveDefault, IInv, Budget, TypeOK, WorldTypeOK, CallsTypeOK,
                            GateTypeOK, calls, gate, Owed, Call, Version, Generation, n, m
  <2> QED
    BY <1>4, <2>2, <2>3 DEF SaveDefault, IInv, calls, catalog, gate, CallsOK, FreshInv,
                            ShownInv, Rest, Open
<1> QED
  BY <1>2, <1>3, <1>4

LEMMA StepInv == IInv /\ [Next]_vars => IInv'
<1> SUFFICES ASSUME IInv, [Next]_vars PROVE IInv'
  OBVIOUS
<1>1. CASE Proceed
  BY <1>1, HostAnswersInv, SettleInv, GateSettledInv, RefreshLiveInv, DefaultSavedInv
     DEF Proceed
<1>2. CASE SkillsChange \/ Reload
  BY <1>2, SkillsChangeInv, ReloadInv
<1>3. CASE Publish \/ Dispose
  BY <1>3, WorldStepInv
<1>4. CASE \E p \in Preset : ChoosePreset(p) \/ SaveDefault(p)
  BY <1>4, ChoosePresetInv, WorldStepInv
<1>5. CASE UNCHANGED vars
  BY <1>5 DEF vars, IInv, TypeOK, WorldTypeOK, CallsTypeOK, CatalogTypeOK, GateTypeOK, CallsOK,
              Budget, FreshInv, ShownInv, Rest, Open
<1> QED
  BY <1>1, <1>2, <1>3, <1>4, <1>5 DEF Next

LEMMA Invariance == SafeSpec => []IInv
<1>1. Init => IInv
  BY InitInv
<1>2. IInv /\ [Next]_vars => IInv'
  BY StepInv
<1> QED
  BY <1>1, <1>2, PTL DEF SafeSpec

----------------------------------------------------------------------------
\* Every variable keeps its type; in particular no call is made beyond those
\* the requests of the user and the changes of the Host account for.
THEOREM TypeCorrect == SafeSpec => []TypeOK
<1>1. IInv => TypeOK
  BY DEF IInv
<1> QED
  BY <1>1, Invariance, PTL

\* Whatever is superseded, aborted or coalesced, a quiet surface is fresh
\* (CatalogRefreshCoordinator.refresh, CoalescingRefreshGate).
THEOREM Fresh == SafeSpec => []QuietIsFresh
<1>1. IInv => QuietIsFresh
  <2> SUFFICES ASSUME IInv, Quiet PROVE last.ver = ver /\ (last.kind = "applied" => shown = snap /\ shown.ver = ver)
    BY DEF QuietIsFresh
  <2>1. Rest /\ ~disposed /\ ~dirty
    BY DEF Quiet, Rest, Open, IInv, Budget
  <2>2. last.ver = ver
    BY <2>1 DEF IInv, FreshInv, Rest, Open
  <2> QED
    BY <2>1, <2>2 DEF IInv, ShownInv
<1> QED
  BY <1>1, Invariance, PTL

----------------------------------------------------------------------------
\* Without a default being saved, the latest call reads for who owns the surface.
FollowInv ==
  /\ saving = {}
  /\ ~disposed /\ ~due =>
       /\ \A c \in Call : c = epoch /\ Open(c) => target[c] = LiveTarget
       /\ Rest /\ last.kind = "applied" => shown.of = LiveTarget

LEMMA AskFollows ==
  ASSUME IInv, IInv', NEW t, Ask(t), t = LiveTarget', saving' = {}
  PROVE  FollowInv'
<1>1. CASE disposed
  BY <1>1 DEF Ask, FollowInv
<1>2. CASE ~disposed
  <2>1. Refresh(t)
    BY <1>2 DEF Ask
  <2>2. epoch' \in Call
    BY <2>1, BoundsAssumption DEF Refresh, IInv, TypeOK, CallsTypeOK, Call
  <2>3. phase'[epoch'] = "reading" /\ target'[epoch'] = t
    BY <2>1, <2>2 DEF Refresh, IInv, TypeOK, CallsTypeOK
  <2> QED
    BY <2>2, <2>3 DEF FollowInv, Rest, Open
<1> QED
  BY <1>1, <1>2

LEMMA FollowStep ==
  ASSUME "default" \notin Commands, IInv, FollowInv, [Next]_vars
  PROVE  FollowInv'
<1>1. IInv'
  BY StepInv
<1>2. saving = {} /\ ~\E p \in Preset : SaveDefault(p) \/ DefaultSaved(p)
  BY DEF FollowInv, SaveDefault, DefaultSaved, MayAsk
<1>3. ASSUME NEW p \in Preset, ChoosePreset(p) PROVE FollowInv'
  <2>1. Ask(Standing(p)) /\ LiveTarget' = Standing(p) /\ saving' = {}
    BY <1>2, <1>3 DEF ChoosePreset, LiveTarget
  <2> QED
    BY <1>1, <2>1, AskFollows
<1>4. CASE Reload \/ RefreshLive
  <2>1. Ask(LiveTarget) /\ LiveTarget' = LiveTarget /\ saving' = {}
    BY <1>2, <1>4 DEF Reload, RefreshLive, LiveTarget
  <2> QED
    BY <1>1, <2>1, AskFollows
<1>5. CASE SkillsChange \/ GateSettled
  <2>1. UNCHANGED <<owner, due, choice>> /\ LiveTarget' = LiveTarget /\ saving' = {}
    BY <1>2, <1>5 DEF SkillsChange, GateSettled, world, LiveTarget
  <2>2. Ask(LiveTarget) \/ UNCHANGED <<calls, catalog, disposed>>
    BY <1>5 DEF SkillsChange, Notify, GateSettled, GateStart
  <2>3. CASE Ask(LiveTarget)
    BY <1>1, <2>1, <2>3, AskFollows
  <2>4. CASE UNCHANGED <<calls, catalog, disposed>>
    BY <2>1, <2>4 DEF calls, catalog, FollowInv, Rest, Open
  <2> QED
    BY <2>2, <2>3, <2>4
<1>6. CASE Publish \/ Dispose
  BY <1>2, <1>6 DEF Publish, Dispose, world, FollowInv
<1>7. ASSUME NEW c \in Call, HostAnswers(c) PROVE FollowInv'
  <2>1. LiveTarget' = LiveTarget /\ UNCHANGED <<world, epoch, target, catalog, disposed>>
    BY <1>7 DEF HostAnswers, world, LiveTarget
  <2>2. \A d \in Call : (Open(d))' <=> Open(d)
    BY <1>7 DEF HostAnswers, Open, IInv, TypeOK, CallsTypeOK
  <2> QED
    BY <2>1, <2>2 DEF world, catalog, FollowInv, Rest
<1>8. ASSUME NEW c \in Call, Settle(c) PROVE FollowInv'
  <2>1. LiveTarget' = LiveTarget /\ UNCHANGED <<world, epoch, disposed>>
    BY <1>8 DEF Settle, world, LiveTarget
  <2>2. /\ phase'[c] = "settled"
        /\ \A d \in Call : d # c => phase'[d] = phase[d] /\ target'[d] = target[d]
    BY <1>8 DEF Settle, IInv, TypeOK, CallsTypeOK
  <2>3. CASE Superseded(c)
    <3>1. UNCHANGED catalog /\ (~disposed => c # epoch)
      BY <1>8, <2>3 DEF Settle, Superseded, IInv, CallsOK
    <3> QED
      BY <2>1, <2>2, <3>1 DEF world, catalog, FollowInv, Rest, Open
  <2>4. CASE ~Superseded(c)
    <3>1. c = epoch /\ ~disposed /\ phase[c] = "answered"
      BY <1>8, <2>4 DEF Settle, Superseded
    <3>2. last'.kind = "applied" => shown'.of = target[c]
      BY <1>8, <2>4 DEF Settle, Fail, Commit, Merged
    <3> QED
      BY <2>1, <2>2, <3>1, <3>2 DEF world, FollowInv, Rest, Open
  <2> QED
    BY <2>3, <2>4
<1>9. CASE UNCHANGED vars
  BY <1>9 DEF vars, FollowInv, Rest, Open, LiveTarget
<1> QED
  BY <1>2, <1>3, <1>4, <1>5, <1>6, <1>7, <1>8, <1>9 DEF Next, Proceed

\* Unless a preset is saved as the default beside it, a session that is published
\* ends up with its own catalog on the surface, and a chosen preset with its own:
\* no late answer, for another owner or of an older read, stays there.
THEOREM FollowsOwner ==
  ASSUME "default" \notin Commands PROVE SafeSpec => []ShownFollowsOwner
<1>1. Init => FollowInv
  BY DEF Init, FollowInv, Open
<1>2. IInv /\ FollowInv /\ [Next]_vars => FollowInv'
  BY FollowStep
<1>3. IInv /\ FollowInv => ShownFollowsOwner
  BY DEF ShownFollowsOwner, Quiet, FollowInv, Rest, Open
<1> QED
  BY <1>1, <1>2, <1>3, Invariance, PTL DEF SafeSpec

----------------------------------------------------------------------------
\* What is shown is of the applied target, or nothing; the latest call, while it
\* is open, has blanked the surface or reads for the applied target anew, and its
\* answer is not older than what is shown.
BackInv ==
  /\ shown.ver <= ver
  /\ shown # Blank /\ applied # NoTarget => shown.of = applied
  /\ ~disposed => \A c \in Call : c = epoch /\ Open(c) =>
       /\ changed[c] => shown = Blank
       /\ ~changed[c] => target[c] = applied
       /\ phase[c] = "answered" => shown.ver <= answer[c].ver

\* A target is somebody's.
LEMMA TargetIs ==
  /\ NoTarget \notin Target
  /\ \A k \in Catalog \union {Blank} : Rank(k) \in Nat /\ Rank(k) >= Rank(Blank) /\ k.ver \in Version
<1>1. \A t \in Target : t.kind \in {"agent", "preset"} /\ (t.kind = "agent" => t.key \in Nat)
  BY BoundsAssumption DEF Target, Agent, Standing, Generation
<1>2. NoTarget.kind = "none"
  BY DEF NoTarget
<1>3. Rank(Blank) = 0 /\ Blank.ver \in Version
  BY <1>2, BoundsAssumption DEF Rank, Blank, Version
<1>4. \A k \in Catalog : k.of \in Target /\ k.ver \in Version
  BY DEF Catalog
<1>5. \A k \in Catalog \union {Blank} : Rank(k) \in Nat
  BY <1>1, <1>3, <1>4 DEF Rank
<1>6. \A n \in Nat : n >= 0
  OBVIOUS
<1>7. \A k \in Catalog \union {Blank} : Rank(k) >= Rank(Blank)
  BY <1>3, <1>5, <1>6
<1> QED
  BY <1>1, <1>2, <1>3, <1>4, <1>5, <1>7

\* A request blanks the surface, or is one for the target it shows.
LEMMA AskBack ==
  ASSUME IInv, BackInv, NEW t \in Target, epoch + 1 \in Call, Ask(t), ver' \in {ver, ver + 1}
  PROVE  BackInv' /\ (shown' = shown \/ shown' = Blank)
<1>1. ver \in Nat /\ shown.ver \in Nat /\ shown.ver <= ver /\ shown.ver <= ver + 1
  BY TargetIs, BoundsAssumption DEF BackInv, IInv, TypeOK, WorldTypeOK, CatalogTypeOK, Version
<1>2. CASE disposed
  BY <1>1, <1>2 DEF Ask, calls, catalog, BackInv
<1>3. CASE ~disposed
  <2>1. Refresh(t)
    BY <1>3 DEF Ask
  <2>2. /\ epoch' = epoch + 1 /\ epoch' \in Call /\ phase'[epoch'] = "reading"
        /\ target'[epoch'] = t /\ changed'[epoch'] = (applied # t)
    BY <2>1 DEF Refresh, IInv, TypeOK, CallsTypeOK
  <2>3. /\ shown' = IF applied # t THEN Blank ELSE shown
        /\ UNCHANGED <<applied, disposed>>
    BY <2>1 DEF Refresh
  <2>4. Blank.ver = 0 /\ 0 <= ver /\ 0 <= ver + 1
    BY <1>1 DEF Blank
  <2>5. shown'.ver <= ver'
    BY <1>1, <2>3, <2>4
  <2> QED
    BY <2>2, <2>3, <2>5 DEF BackInv
<1> QED
  BY <1>2, <1>3

\* Every step keeps it, and shows nothing that is older.
LEMMA BackStep ==
  ASSUME IInv, BackInv, [Next]_vars
  PROVE  /\ BackInv'
         /\ shown' # Blank => /\ Rank(shown') >= Rank(shown)
                              /\ shown'.of = shown.of => shown'.ver >= shown.ver
<1> USE BoundsAssumption
<1>1. /\ ver \in Nat /\ shown.ver \in Nat /\ shown.ver <= ver /\ epoch \in Nat
      /\ shown \in Catalog \union {Blank} /\ Rank(shown) \in Nat
  BY TargetIs DEF BackInv, IInv, TypeOK, WorldTypeOK, CallsTypeOK, CatalogTypeOK, Version, Call
<1>2. Rank(shown) >= Rank(shown) /\ shown.ver >= shown.ver
  BY <1>1
<1> SUFFICES /\ BackInv'
             /\ \/ shown' = shown \/ shown' = Blank
                \/ Rank(shown') >= Rank(shown)
                   /\ (shown'.of = shown.of => shown'.ver >= shown.ver)
  BY <1>2
<1>3. IInv'
  BY StepInv
<1>4. LiveTarget \in Target /\ \A p \in Preset : Standing(p) \in Target
  BY LiveTargetType DEF IInv, TypeOK, Target
<1>5. ASSUME NEW t \in Target, Ask(t), ver' \in {ver, ver + 1}
      PROVE  BackInv' /\ (shown' = shown \/ shown' = Blank)
  <2>1. CASE disposed
    BY <1>1, <1>5, <2>1 DEF Ask, calls, catalog, BackInv
  <2>2. CASE ~disposed
    <3>1. epoch' = epoch + 1 /\ epoch' \in Call \union {0}
      BY <1>3, <1>5, <2>2 DEF Ask, Refresh, IInv, TypeOK, CallsTypeOK
    <3>2. epoch + 1 \in Call
      BY <1>1, <3>1
    <3> QED
      BY <1>5, <3>2, AskBack
  <2> QED
    BY <2>1, <2>2
<1>6. ASSUME UNCHANGED <<calls, catalog>>, disposed' = disposed, ver' \in {ver, ver + 1}
      PROVE  BackInv' /\ shown' = shown
  <2>1. shown.ver <= ver + 1
    BY <1>1
  <2> QED
    BY <1>1, <1>6, <2>1 DEF calls, catalog, BackInv, Open
<1>7. CASE SkillsChange
  BY <1>4, <1>5, <1>6, <1>7 DEF SkillsChange, Notify, GateStart
<1>8. CASE GateSettled
  BY <1>4, <1>5, <1>6, <1>8 DEF GateSettled, GateStart, world
<1>9. CASE Reload \/ RefreshLive
  BY <1>4, <1>5, <1>9 DEF Reload, RefreshLive
<1>10. ASSUME NEW p \in Preset, ChoosePreset(p) \/ SaveDefault(p) \/ DefaultSaved(p)
       PROVE  BackInv' /\ (shown' = shown \/ shown' = Blank)
  BY <1>4, <1>5, <1>6, <1>10 DEF ChoosePreset, SaveDefault, DefaultSaved
<1>11. CASE Publish
  BY <1>6, <1>11 DEF Publish
<1>12. CASE Dispose
  BY <1>12 DEF Dispose, world, catalog, BackInv
<1>13. ASSUME NEW c \in Call, HostAnswers(c)
       PROVE  BackInv' /\ shown' = shown
  <2>1. UNCHANGED <<ver, epoch, target, changed, applied, shown, disposed>>
    BY <1>13 DEF HostAnswers, world, catalog
  <2>2. /\ phase[c] = "reading"
        /\ \A d \in Call : d # c => phase'[d] = phase[d] /\ answer'[d] = answer[d]
        /\ answer'[c].ver = ver
    BY <1>13 DEF HostAnswers, IInv, TypeOK, CallsTypeOK
  <2> QED
    BY <2>1, <2>2 DEF BackInv, Open
<1>14. ASSUME NEW c \in Call, Settle(c)
       PROVE  /\ BackInv'
              /\ \/ shown' = shown
                 \/ Rank(shown') >= Rank(shown)
                    /\ (shown'.of = shown.of => shown'.ver >= shown.ver)
  <2>1. UNCHANGED <<ver, epoch, disposed>>
    BY <1>14 DEF Settle, world
  <2>2. /\ phase'[c] = "settled"
        /\ \A d \in Call : d # c => /\ phase'[d] = phase[d] /\ target'[d] = target[d]
                                    /\ changed'[d] = changed[d] /\ answer'[d] = answer[d]
    BY <1>14 DEF Settle, IInv, TypeOK, CallsTypeOK
  <2>3. CASE Superseded(c)
    <3>1. UNCHANGED <<applied, shown>> /\ (~disposed => c # epoch)
      BY <1>14, <2>3 DEF Settle, Superseded, IInv, CallsOK, catalog
    <3> QED
      BY <2>1, <2>2, <3>1 DEF BackInv, Open
  <2>4. CASE ~Superseded(c)
    <3>1. c = epoch /\ ~disposed /\ phase[c] = "answered" /\ Open(c)
      BY <1>14, <2>4 DEF Settle, Superseded, Open
    <3>2. \A d \in Call : ~(d = epoch' /\ Open(d)')
      BY <2>1, <2>2, <3>1 DEF Open
    <3>3. target[c] \in Target /\ target[c] # NoTarget /\ answer[c].ver \in Version
          /\ answer[c].ver <= ver
      BY <3>1, TargetIs DEF IInv, CallsOK, TypeOK, CallsTypeOK
    <3>4. /\ shown # Blank => shown.of = target[c]
          /\ shown.ver <= answer[c].ver
      BY <3>1, <3>3 DEF BackInv
    <3>5. CASE answer[c].kind = "complete"
      <4> DEFINE k == [of |-> target[c], ver |-> answer[c].ver]
      <4>1. applied' = target[c] /\ shown' = k
        BY <1>14, <2>4, <3>5 DEF Settle, Commit, Merged
      <4>2. k \in Catalog /\ k.of = target[c] /\ k.ver = answer[c].ver /\ Rank(k) \in Nat
            /\ Rank(k) >= Rank(Blank)
        BY <3>3, TargetIs DEF Catalog
      <4> HIDE DEF k
      <4>3. shown # Blank => Rank(k) = Rank(shown)
        BY <3>4, <4>2 DEF Rank
      <4>4. Rank(k) >= Rank(shown)
        BY <1>1, <4>2, <4>3
      <4>5. k.ver >= shown.ver
        BY <1>1, <3>3, <3>4, <4>2 DEF Version
      <4> QED
        BY <2>1, <3>2, <3>3, <4>1, <4>2, <4>4, <4>5 DEF BackInv
    <3>6. CASE answer[c].kind = "error"
      <4>1. UNCHANGED <<applied, shown>>
        BY <1>14, <2>4, <3>6 DEF Settle, Fail
      <4> QED
        BY <2>1, <3>2, <4>1 DEF BackInv
    <3>7. CASE answer[c].kind \notin {"complete", "error"}
      <4>1. applied' = target[c] /\ shown' = shown
        BY <1>14, <2>4, <3>7 DEF Settle, Commit
      <4> QED
        BY <2>1, <3>2, <3>4, <4>1 DEF BackInv
    <3> QED
      BY <3>5, <3>6, <3>7
  <2> QED
    BY <2>3, <2>4
<1>15. CASE UNCHANGED vars
  BY <1>15 DEF vars, BackInv, Open
<1> QED
  BY <1>7, <1>8, <1>9, <1>10, <1>11, <1>12, <1>13, <1>14, <1>15 DEF Next, Proceed

\* What the surface shows of a target is never replaced by an older read of it,
\* and the catalog of a session never by that of an earlier one or of a preset.
THEOREM NothingGoesBack == SafeSpec => CatalogNeverGoesBack
<1>1. Init => BackInv
  BY BoundsAssumption DEF Init, BackInv, Blank, Open
<1>2. IInv /\ BackInv /\ [Next]_vars => BackInv'
  BY BackStep
<1>3. IInv /\ BackInv /\ [Next]_vars =>
        [shown' # Blank => /\ Rank(shown') >= Rank(shown)
                           /\ shown'.of = shown.of => shown'.ver >= shown.ver]_vars
  BY BackStep
<1> QED
  BY <1>1, <1>2, <1>3, Invariance, PTL DEF SafeSpec, CatalogNeverGoesBack
============================================================================
