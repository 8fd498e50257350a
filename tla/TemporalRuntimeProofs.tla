------------------------ MODULE TemporalRuntimeProofs ------------------------
(***************************************************************************)
(* Theorems about TemporalRuntime, for every set of programs and snapshots *)
(* and any number of processes.                                            *)
(***************************************************************************)
EXTENDS TemporalRuntime, Foundations, TLAPS

(* What the assumptions say of the program and the snapshot that run.      *)
LEMMA ProgramShape ==
  ASSUME program \in Programs
  PROVE  /\ program \in ProgramRecords
         /\ Len(program.events) \in Nat
         /\ EventsOf(program) = 1..Len(program.events)
         /\ \A i \in EventsOf(program) :
              /\ program.events[i] \in Events
              /\ Len(program.events[i].actions) \in Nat
              /\ DOMAIN program.events[i].actions = 1..Len(program.events[i].actions)
              /\ \A k \in DOMAIN program.events[i].actions :
                   program.events[i].actions[k] \in Actions
<1>1. program \in ProgramRecords
  BY ProgramsAssumption
<1>2. program.events \in Seq(Events)
  BY <1>1 DEF ProgramRecords
<1>3. ASSUME NEW i \in EventsOf(program)
      PROVE  /\ program.events[i] \in Events
             /\ program.events[i].actions \in Seq(Actions)
  <2>1. program.events[i] \in Events
    BY <1>2 DEF EventsOf
  <2>2. QED
    BY <2>1 DEF Events
<1>4. ASSUME NEW i \in EventsOf(program)
      PROVE  /\ Len(program.events[i].actions) \in Nat
             /\ DOMAIN program.events[i].actions = 1..Len(program.events[i].actions)
             /\ \A k \in DOMAIN program.events[i].actions :
                  program.events[i].actions[k] \in Actions
  BY <1>3
<1>5. QED
  BY <1>1, <1>2, <1>3, <1>4 DEF EventsOf

LEMMA MarketShape ==
  ASSUME market \in Markets
  PROVE  /\ Sessions(market) \subseteq Nat \ {0}
         /\ \A s \in Sessions(market) : market.week[s] \in Nat
         /\ \A a \in Assets, s \in Sessions(market) : market.close[a][s] \in Nat
<1>1. /\ market.week \in Seq(Nat)
      /\ market.close \in [Assets -> Seq(Nat)]
      /\ \A a \in Assets : DOMAIN market.close[a] = DOMAIN market.week
  BY MarketsAssumption DEF MarketRecords
<1>2. ASSUME NEW a \in Assets, NEW s \in Sessions(market)
      PROVE  market.close[a][s] \in Nat
  <2>1. market.close[a] \in Seq(Nat) /\ s \in DOMAIN market.close[a]
    BY <1>1 DEF Sessions
  <2>2. QED
    BY <2>1
<1>3. QED
  BY <1>1, <1>2 DEF Sessions

(* A value of the program is a number or unknown.                          *)
LEMMA ValueType ==
  ASSUME FieldsTypeOK, PositionTypeOK, visit > 0, NEW v \in Values,
         v.kind = "bars_since_event" => v.event \in EventsOf(program)
  PROVE  ValueOf(v) \in Optional(Int)
<1>1. /\ runtime \in RuntimeRecords(program)
      /\ runtime.boundary \in Sessions(market)
  BY DEF FieldsTypeOK, PositionTypeOK, RuntimeRecords
<1>2. CASE v.kind = "current_price"
  BY <1>1, <1>2, MarketShape DEF ValueOf, Values, FieldsTypeOK, Optional
<1>3. CASE v.kind = "completed_weekly_price"
  BY <1>1, <1>3 DEF ValueOf, Values, RuntimeRecords, Optional
<1>4. CASE v.kind = "literal"
  BY <1>4 DEF ValueOf, Values, Optional
<1>5. CASE v.kind = "remembered"
  BY <1>1, <1>5 DEF ValueOf, Values, RuntimeRecords, Optional
<1>6. CASE v.kind = "bars_since_event"
  <2>1. runtime.cutoffs[v.event] \in Optional(Sessions(market))
    BY <1>1, <1>6 DEF RuntimeRecords
  <2>2. QED
    BY <1>1, <1>6, <2>1, MarketShape DEF ValueOf, BarsSince, FieldsTypeOK, Optional
<1>7. QED
  BY <1>2, <1>3, <1>4, <1>5, <1>6 DEF Values

LEMMA FreshType ==
  ASSUME program \in Programs
  PROVE  Fresh(program) \in RuntimeRecords(program)
<1>1. program.initial \in [Keys -> Phases]
  BY ProgramShape DEF ProgramRecords
<1>2. QED
  BY <1>1 DEF Fresh, RuntimeRecords, Optional, Truths

LEMMA RuntimeTypeInit == RuntimeInit => RuntimeTypeOK
<1> SUFFICES ASSUME RuntimeInit PROVE RuntimeTypeOK
  OBVIOUS
<1>1. program \in Programs /\ market \in Markets
  BY DEF RuntimeInit
<1>3. Fresh(program) \in RuntimeRecords(program)
  BY <1>1, FreshType
<1>4. FieldsTypeOK
  BY <1>1, <1>3 DEF RuntimeInit, FieldsTypeOK
<1>5. PositionTypeOK
  BY <1>1, ProgramShape DEF RuntimeInit, PositionTypeOK
<1>6. BrokerageTypeOK
  BY DEF RuntimeInit, BrokerageTypeOK
<1>7. LogTypeOK
  BY DEF RuntimeInit, LogTypeOK
<1>8. QED
  BY <1>4, <1>5, <1>6, <1>7 DEF RuntimeTypeOK

(* A new bar: the week rolls, and a restored target is held again.         *)
LEMMA NextBarType ==
  ASSUME RuntimeTypeOK, NextBar
  PROVE  RuntimeTypeOK'
<1> DEFINE session == runtime.boundary + 1
           week == market.week[session]
           close == market.close[program.anchor][session]
<1>1. /\ runtime \in RuntimeRecords(program)
      /\ program \in ProgramRecords
      /\ session \in Sessions(market)
      /\ session > 0
  BY ProgramShape, MarketShape DEF RuntimeTypeOK, FieldsTypeOK, NextBar
<1>2. week \in Nat /\ close \in Nat
  BY <1>1, MarketShape DEF RuntimeTypeOK, FieldsTypeOK, ProgramRecords
<1>3. RollWeek(week, close) \in RuntimeRecords(program)
  BY <1>1, <1>2, ZenonT(30) DEF RollWeek, RuntimeRecords, Optional
<1>4. /\ runtime' \in RuntimeRecords(program)
      /\ runtime'.boundary = session
  BY <1>1, <1>3 DEF NextBar, RuntimeRecords
<1>5. FieldsTypeOK'
  BY <1>4 DEF RuntimeTypeOK, FieldsTypeOK, NextBar, RuntimeRecords
<1>6. PositionTypeOK'
  BY <1>1, <1>4, ProgramShape DEF RuntimeTypeOK, FieldsTypeOK, PositionTypeOK, NextBar
<1>7. BrokerageTypeOK'
  BY DEF NextBar, RuntimeTypeOK, BrokerageTypeOK, SetHoldings
<1>8. LogTypeOK'
  BY DEF NextBar, RuntimeTypeOK, LogTypeOK, RuntimeRecords
<1>9. QED
  BY <1>5, <1>6, <1>7, <1>8 DEF RuntimeTypeOK

(* The next position is an action of the event, or the next event.         *)
LEMMA ProceedType ==
  ASSUME FieldsTypeOK, PositionTypeOK, visit \in EventsOf(program), NEW k \in Nat \ {0},
         Proceed(k), program' = program, runtime'.boundary = runtime.boundary
  PROVE  PositionTypeOK'
<1>1. visit \in 1..Len(program.events) /\ Len(program.events) \in Nat
  BY ProgramShape DEF FieldsTypeOK
<1>2. CASE k <= Len(program.events[visit].actions)
  <2>1. k \in DOMAIN program.events[visit].actions
    BY <1>2, ProgramShape DEF FieldsTypeOK
  <2>2. QED
    BY <1>1, <1>2, <2>1 DEF Proceed, PositionTypeOK
<1>3. CASE ~(k <= Len(program.events[visit].actions))
  BY <1>1, <1>3 DEF Proceed, PositionTypeOK
<1>4. QED
  BY <1>2, <1>3

LEMMA TruthType == \A e : ConditionTruth(e) \in Truths
BY DEF ConditionTruth, AllTruth, Truths

LEMMA EvaluateEventType ==
  ASSUME RuntimeTypeOK, EvaluateEvent
  PROVE  RuntimeTypeOK'
<1> DEFINE e == program.events[visit]
           truth == ConditionTruth(e)
           occurs == Occurs(e.trigger, truth, runtime.truths[visit])
           count == runtime.counts[visit] + 1
           triggered == occurs /\ (e.occurrence = "first" => count = 1)
<1>1. /\ FieldsTypeOK /\ PositionTypeOK /\ BrokerageTypeOK /\ LogTypeOK
      /\ visit \in EventsOf(program)
      /\ visit \in 1..Len(program.events) /\ Len(program.events) \in Nat
      /\ runtime \in RuntimeRecords(program)
  BY ProgramShape DEF RuntimeTypeOK, FieldsTypeOK, EvaluateEvent
<1>2. runtime.boundary \in Sessions(market)
  BY <1>1 DEF PositionTypeOK, RuntimeRecords
<1>3. truth \in Truths /\ count \in Nat
  BY <1>1, TruthType DEF RuntimeRecords
<1>4. /\ runtime' = [runtime EXCEPT
            !.truths[visit] = truth,
            !.counts[visit] = IF occurs THEN count ELSE @,
            !.cutoffs[visit] = IF triggered THEN runtime.boundary ELSE @]
      /\ IF triggered THEN Proceed(1) ELSE act' = 0 /\ visit' = visit + 1
      /\ UNCHANGED <<program, market, pending, holdings, emitted>>
  BY DEF EvaluateEvent
<1> HIDE DEF truth, occurs, count, triggered
<1>5. /\ runtime' \in RuntimeRecords(program)
      /\ runtime'.boundary = runtime.boundary
      /\ runtime'.target = runtime.target
  BY <1>1, <1>2, <1>3, <1>4, ZenonT(30) DEF RuntimeRecords, Optional
<1>6. FieldsTypeOK'
  BY <1>1, <1>4, <1>5 DEF FieldsTypeOK, RuntimeRecords
<1>7. PositionTypeOK'
  <2>1. CASE triggered
    BY <1>1, <1>4, <1>5, <2>1, ProceedType
  <2>2. CASE ~triggered
    BY <1>1, <1>4, <1>5, <2>2 DEF PositionTypeOK
  <2>3. QED
    BY <2>1, <2>2
<1>8. BrokerageTypeOK'
  BY <1>1, <1>4 DEF BrokerageTypeOK
<1>9. LogTypeOK'
  BY <1>1, <1>4 DEF LogTypeOK, RuntimeRecords
<1>10. QED
  BY <1>6, <1>7, <1>8, <1>9 DEF RuntimeTypeOK

(* What the two kinds of action have in common.                            *)
LEMMA PerformingType ==
  ASSUME RuntimeTypeOK, NEW kind, Performing(kind),
         runtime' \in RuntimeRecords(program), runtime'.boundary = runtime.boundary,
         runtime'.target = runtime.target
  PROVE  RuntimeTypeOK'
<1>1. /\ FieldsTypeOK /\ PositionTypeOK /\ BrokerageTypeOK /\ LogTypeOK
      /\ visit \in EventsOf(program)
      /\ visit > 0
      /\ act + 1 \in Nat \ {0}
      /\ Proceed(act + 1)
      /\ UNCHANGED <<program, market, pending, holdings, emitted>>
  BY ProgramShape DEF RuntimeTypeOK, FieldsTypeOK, Performing
<1>2. FieldsTypeOK'
  BY <1>1 DEF FieldsTypeOK, RuntimeRecords
<1>3. PositionTypeOK'
  BY <1>1, ProceedType
<1>4. BrokerageTypeOK'
  BY <1>1 DEF BrokerageTypeOK
<1>5. LogTypeOK'
  BY <1>1 DEF LogTypeOK, RuntimeRecords
<1>6. QED
  BY <1>2, <1>3, <1>4, <1>5 DEF RuntimeTypeOK

(* A captured value is a number: the references of the program resolve.    *)
LEMMA RememberedType ==
  ASSUME RuntimeTypeOK, Performing("remember")
  PROVE  /\ program.events[visit].actions[act].memory \in Memories
         /\ ValueOf(program.events[visit].actions[act].value) \in Optional(Int)
<1> DEFINE e == program.events[visit]
           a == e.actions[act]
<1>1. /\ FieldsTypeOK /\ PositionTypeOK
      /\ visit \in EventsOf(program) /\ visit > 0
      /\ act \in DOMAIN e.actions
      /\ a \in Actions
      /\ a.kind = "remember"
  BY ProgramShape DEF RuntimeTypeOK, FieldsTypeOK, Performing
<1>2. a.memory \in Memories /\ a.value \in Values
  BY <1>1 DEF Actions
<1>3. ReferencesResolve(program)
  BY <1>1, ProgramsAssumption DEF FieldsTypeOK
<1>4. a.value.kind = "bars_since_event" => a.value.event \in EventsOf(program)
  BY <1>1, <1>3 DEF ReferencesResolve
<1>5. QED
  BY <1>1, <1>2, <1>4, ValueType

LEMMA RememberType ==
  ASSUME RuntimeTypeOK, Remember
  PROVE  RuntimeTypeOK'
<1> DEFINE a == program.events[visit].actions[act]
           value == ValueOf(a.value)
<1>1. /\ runtime \in RuntimeRecords(program)
      /\ runtime.boundary \in Sessions(market)
      /\ Performing("remember")
  BY ProgramShape DEF RuntimeTypeOK, FieldsTypeOK, PositionTypeOK, Remember, Performing,
                      RuntimeRecords
<1>2. a.memory \in Memories /\ value \in Optional(Int)
  BY <1>1, RememberedType
<1>3. runtime' = IF value = Missing THEN runtime
                 ELSE [runtime EXCEPT !.memory[a.memory] = value,
                                      !.captures[a.memory] = runtime.boundary]
  BY DEF Remember
<1> HIDE DEF a, value
<1>4. /\ runtime' \in RuntimeRecords(program)
      /\ runtime'.boundary = runtime.boundary
      /\ runtime'.target = runtime.target
  BY <1>1, <1>2, <1>3 DEF RuntimeRecords, Optional
<1>5. QED
  BY <1>1, <1>4, PerformingType

LEMMA TransitionType ==
  ASSUME RuntimeTypeOK, Transition
  PROVE  RuntimeTypeOK'
<1> DEFINE a == program.events[visit].actions[act]
<1>1. /\ runtime \in RuntimeRecords(program)
      /\ runtime.boundary \in Sessions(market)
      /\ Performing("transition")
  BY ProgramShape DEF RuntimeTypeOK, FieldsTypeOK, PositionTypeOK, Transition, Performing,
                      RuntimeRecords
<1>2. a.key \in Keys /\ a.to \in Phases
  BY <1>1, ProgramShape DEF RuntimeTypeOK, FieldsTypeOK, Performing, Actions
<1>3. runtime' = IF runtime.state[a.key] # a.from THEN runtime
                 ELSE [runtime EXCEPT !.state[a.key] = a.to,
                                      !.entered[a.key] = runtime.boundary]
  BY DEF Transition
<1> HIDE DEF a
<1>4. /\ runtime' \in RuntimeRecords(program)
      /\ runtime'.boundary = runtime.boundary
      /\ runtime'.target = runtime.target
  BY <1>1, <1>2, <1>3 DEF RuntimeRecords, Optional
<1>5. QED
  BY <1>1, <1>4, PerformingType

LEMMA DecideType ==
  ASSUME RuntimeTypeOK, Decide
  PROVE  RuntimeTypeOK'
<1>1. /\ FieldsTypeOK /\ PositionTypeOK /\ BrokerageTypeOK /\ LogTypeOK
      /\ visit = Len(program.events) + 1 /\ visit \notin EventsOf(program)
      /\ Len(program.events) \in Nat
      /\ runtime \in RuntimeRecords(program)
      /\ visit' = 0
      /\ UNCHANGED <<program, market, act, pending>>
  BY ProgramShape DEF RuntimeTypeOK, FieldsTypeOK, Decide
<1>2. act = 0 /\ ~pending /\ runtime.boundary \in Sessions(market)
  BY <1>1 DEF PositionTypeOK, BrokerageTypeOK, RuntimeRecords
<1> DEFINE ordered(d) == d \notin {Retain, runtime.target}
<1>3. PICK d \in Targets :
        /\ runtime' = [runtime EXCEPT !.target = IF ordered(d) THEN d ELSE @]
        /\ \/ ordered(d) /\ d \in Assets /\ SetHoldings(d)
           \/ ordered(d) /\ d = Cash /\ Liquidate
           \/ ~ordered(d) /\ UNCHANGED holdings
        /\ Emit([checkpoint |-> runtime', decision |-> d])
  BY DEF Decide
<1>4. /\ runtime' \in RuntimeRecords(program)
      /\ runtime'.boundary = runtime.boundary
  BY <1>1, <1>3 DEF RuntimeRecords, Optional, Targets
<1>5. FieldsTypeOK'
  BY <1>1, <1>4 DEF FieldsTypeOK, RuntimeRecords
<1>6. PositionTypeOK'
  BY <1>1, <1>2 DEF PositionTypeOK
<1>7. BrokerageTypeOK'
  BY <1>1, <1>2, <1>3 DEF BrokerageTypeOK, SetHoldings, Liquidate
<1>8. LogTypeOK'
  <2>1. emitted' = [k \in DOMAIN emitted \cup {runtime.boundary} |->
                      IF k = runtime.boundary
                      THEN [checkpoint |-> runtime', decision |-> d] ELSE emitted[k]]
    BY <1>3 DEF Emit
  <2>2. DOMAIN emitted' \subseteq Sessions(market)
    BY <1>1, <1>2, <2>1 DEF LogTypeOK
  <2>3. ASSUME NEW k \in DOMAIN emitted'
        PROVE  /\ emitted'[k].checkpoint \in RuntimeRecords(program)
               /\ emitted'[k].checkpoint.boundary = k
               /\ emitted'[k].decision \in Targets
    <3>1. CASE k = runtime.boundary
      BY <1>4, <2>1, <3>1
    <3>2. CASE k # runtime.boundary
      BY <1>1, <2>1, <3>2 DEF LogTypeOK
    <3>3. QED
      BY <3>1, <3>2
  <2>4. QED
    BY <1>1, <2>2, <2>3 DEF LogTypeOK, RuntimeRecords
<1>9. QED
  BY <1>5, <1>6, <1>7, <1>8 DEF RuntimeTypeOK

(* Importing a checkpoint of the program assigns every field of it.        *)
LEMMA ImportIsWhole ==
  ASSUME NEW c \in RuntimeRecords(program)
  PROVE  Import(c) = c
BY DEF Import, Fresh, RuntimeRecords

LEMMA StartType ==
  ASSUME RuntimeTypeOK, NEW c \in RuntimeRecords(program), Start(c)
  PROVE  RuntimeTypeOK'
<1>1. /\ runtime' = c
      /\ pending' \in BOOLEAN /\ (pending' <=> c.target \in Assets)
      /\ holdings' = {} /\ visit' = 0 /\ act' = 0
      /\ UNCHANGED <<program, market, emitted>>
  BY ImportIsWhole DEF Start, RestoreNeeded
<1>2. FieldsTypeOK'
  BY <1>1 DEF RuntimeTypeOK, FieldsTypeOK, RuntimeRecords
<1>3. PositionTypeOK'
  BY <1>1, ProgramShape DEF RuntimeTypeOK, FieldsTypeOK, PositionTypeOK
<1>4. BrokerageTypeOK'
  BY <1>1 DEF BrokerageTypeOK
<1>5. LogTypeOK'
  BY <1>1 DEF RuntimeTypeOK, LogTypeOK, RuntimeRecords
<1>6. QED
  BY <1>2, <1>3, <1>4, <1>5 DEF RuntimeTypeOK

LEMMA RestartType ==
  ASSUME RuntimeTypeOK, Restart
  PROVE  RuntimeTypeOK'
<1>1. CASE Start(Fresh(program))
  BY <1>1, FreshType, StartType DEF RuntimeTypeOK, FieldsTypeOK
<1>2. ASSUME NEW k \in DOMAIN emitted, Start(emitted[k].checkpoint)
      PROVE  RuntimeTypeOK'
  BY <1>2, StartType DEF RuntimeTypeOK, LogTypeOK
<1>3. QED
  BY <1>1, <1>2 DEF Restart

LEMMA RuntimeTypeStep ==
  ASSUME RuntimeTypeOK, [RuntimeNext]_runtimeVars
  PROVE  RuntimeTypeOK'
<1>1. CASE UNCHANGED runtimeVars
  BY <1>1 DEF runtimeVars, RuntimeTypeOK, FieldsTypeOK, PositionTypeOK, BrokerageTypeOK,
              LogTypeOK, RuntimeRecords
<1>2. QED
  BY <1>1, NextBarType, EvaluateEventType, RememberType, TransitionType, DecideType,
     RestartType DEF RuntimeNext

(* Whatever the program, the prices and the interruptions, the algorithm   *)
(* stays inside its program and its log inside the past.                   *)
THEOREM RuntimeTypeCorrect == RuntimeSpec => []RuntimeTypeOK
BY RuntimeTypeInit, RuntimeTypeStep, PTL DEF RuntimeSpec

-----------------------------------------------------------------------------
(* Holdings.                                                               *)

AssetTargets(p) ==
  {a \in Assets : a = p.primary \/ \E j \in DOMAIN p.overrides : a = p.overrides[j].target}

(* A program whose policy switches between cash and one asset only.        *)
SingleAssetPolicies ==
  \A p \in Programs : \A a, b \in AssetTargets(p) : a = b

(* The target is one the policy names, and the account is either still to  *)
(* be restored to it or amounts to it.                                     *)
HoldingsInv ==
  /\ runtime.target \in Assets => runtime.target \in AssetTargets(program)
  /\ \A k \in DOMAIN emitted :
       emitted[k].checkpoint.target \in Assets
         => emitted[k].checkpoint.target \in AssetTargets(program)
  /\ pending => holdings = {}
  /\ ~pending => holdings = {runtime.target} \cap Assets

LEMMA HoldingsUntouched ==
  ASSUME HoldingsInv, runtime'.target = runtime.target,
         UNCHANGED <<program, pending, holdings, emitted>>
  PROVE  HoldingsInv'
BY DEF HoldingsInv, AssetTargets

LEMMA HoldingsNextBar ==
  ASSUME RuntimeTypeOK, HoldingsInv, NextBar
  PROVE  HoldingsInv'
<1>1. runtime'.target = runtime.target
  BY DEF NextBar, RollWeek, RuntimeTypeOK, FieldsTypeOK, RuntimeRecords
<1>2. UNCHANGED <<program, emitted>> /\ ~pending'
  BY DEF NextBar
<1>3. CASE pending
  <2>1. holdings' = {} \cup {runtime.target} /\ runtime.target \in Assets
    BY <1>3 DEF NextBar, SetHoldings, HoldingsInv, RuntimeTypeOK, BrokerageTypeOK
  <2>2. holdings' = {runtime'.target} \cap Assets
    BY <1>1, <2>1
  <2>3. QED
    BY <1>1, <1>2, <2>2 DEF HoldingsInv, AssetTargets
<1>4. CASE ~pending
  BY <1>1, <1>2, <1>4 DEF NextBar, HoldingsInv, AssetTargets
<1>5. QED
  BY <1>3, <1>4

LEMMA PolicyTargets ==
  ASSUME NEW d \in Assets, Policy(d)
  PROVE  d \in AssetTargets(program)
BY DEF Policy, AssetTargets

(* Buying the one asset there is to buy leaves nothing else behind.        *)
LEMMA HoldingsDecide ==
  ASSUME SingleAssetPolicies, RuntimeTypeOK, HoldingsInv, Decide
  PROVE  HoldingsInv'
<1>1. /\ runtime \in RuntimeRecords(program)
      /\ program \in Programs
      /\ ~pending
      /\ UNCHANGED <<program, pending>>
      /\ holdings = {runtime.target} \cap Assets
  BY ProgramShape DEF RuntimeTypeOK, FieldsTypeOK, BrokerageTypeOK, HoldingsInv, Decide
<1> DEFINE ordered(d) == d \notin {Retain, runtime.target}
<1>2. PICK d \in Targets :
        /\ Policy(d)
        /\ runtime' = [runtime EXCEPT !.target = IF ordered(d) THEN d ELSE @]
        /\ \/ ordered(d) /\ d \in Assets /\ SetHoldings(d)
           \/ ordered(d) /\ d = Cash /\ Liquidate
           \/ ~ordered(d) /\ UNCHANGED holdings
        /\ Emit([checkpoint |-> runtime', decision |-> d])
  BY DEF Decide
<1>3. runtime'.target = IF ordered(d) THEN d ELSE runtime.target
  BY <1>1, <1>2 DEF RuntimeRecords
<1>4. runtime'.target \in Assets => runtime'.target \in AssetTargets(program)
  BY <1>2, <1>3, PolicyTargets DEF HoldingsInv
<1>5. holdings' = {runtime'.target} \cap Assets
  <2>1. CASE ordered(d) /\ d \in Assets /\ SetHoldings(d)
    <3>1. runtime'.target = d /\ d \in AssetTargets(program)
      BY <1>2, <1>3, <2>1, PolicyTargets
    <3>2. holdings \subseteq {d}
      BY <1>1, <3>1 DEF HoldingsInv, SingleAssetPolicies
    <3>3. QED
      BY <2>1, <3>1, <3>2 DEF SetHoldings
  <2>2. CASE ordered(d) /\ d = Cash /\ Liquidate
    BY <1>3, <2>2, MissingAssumption DEF Liquidate
  <2>3. CASE ~ordered(d) /\ UNCHANGED holdings
    BY <1>1, <1>3, <2>3
  <2>4. QED
    BY <1>2, <2>1, <2>2, <2>3
<1>6. \A k \in DOMAIN emitted' :
        emitted'[k].checkpoint.target \in Assets
          => emitted'[k].checkpoint.target \in AssetTargets(program)
  <2>1. emitted' = [k \in DOMAIN emitted \cup {runtime.boundary} |->
                      IF k = runtime.boundary
                      THEN [checkpoint |-> runtime', decision |-> d] ELSE emitted[k]]
    BY <1>2 DEF Emit
  <2>2. QED
    BY <1>4, <2>1 DEF HoldingsInv
<1>7. QED
  BY <1>1, <1>4, <1>5, <1>6 DEF HoldingsInv, AssetTargets

LEMMA HoldingsStart ==
  ASSUME RuntimeTypeOK, HoldingsInv, NEW c \in RuntimeRecords(program), Start(c),
         c.target \in Assets => c.target \in AssetTargets(program)
  PROVE  HoldingsInv'
<1>1. /\ runtime' = c
      /\ pending' <=> c.target \in Assets
      /\ holdings' = {}
      /\ UNCHANGED <<program, emitted>>
  BY ImportIsWhole DEF Start, RestoreNeeded
<1>2. QED
  BY <1>1 DEF HoldingsInv, AssetTargets

LEMMA HoldingsStep ==
  ASSUME SingleAssetPolicies, RuntimeTypeOK, HoldingsInv, [RuntimeNext]_runtimeVars
  PROVE  HoldingsInv'
<1>1. CASE NextBar
  BY <1>1, HoldingsNextBar
<1>2. CASE EvaluateEvent
  <2>1. runtime'.target = runtime.target
    BY <1>2 DEF EvaluateEvent, RuntimeTypeOK, FieldsTypeOK, RuntimeRecords
  <2>2. QED
    BY <1>2, <2>1, HoldingsUntouched DEF EvaluateEvent
<1>3. CASE Remember
  <2>1. runtime'.target = runtime.target
    BY <1>3 DEF Remember, RuntimeTypeOK, FieldsTypeOK, RuntimeRecords
  <2>2. QED
    BY <1>3, <2>1, HoldingsUntouched DEF Remember, Performing
<1>4. CASE Transition
  <2>1. runtime'.target = runtime.target
    BY <1>4 DEF Transition, RuntimeTypeOK, FieldsTypeOK, RuntimeRecords
  <2>2. QED
    BY <1>4, <2>1, HoldingsUntouched DEF Transition, Performing
<1>5. CASE Decide
  BY <1>5, HoldingsDecide
<1>6. CASE Start(Fresh(program))
  <2>1. Fresh(program).target \notin Assets
    BY MissingAssumption DEF Fresh, Targets
  <2>2. QED
    BY <1>6, <2>1, FreshType, HoldingsStart DEF RuntimeTypeOK, FieldsTypeOK
<1>7. ASSUME NEW k \in DOMAIN emitted, Start(emitted[k].checkpoint)
      PROVE  HoldingsInv'
  <2>1. /\ emitted[k].checkpoint \in RuntimeRecords(program)
        /\ emitted[k].checkpoint.target \in Assets
             => emitted[k].checkpoint.target \in AssetTargets(program)
    BY <1>7 DEF RuntimeTypeOK, LogTypeOK, HoldingsInv
  <2>2. QED
    BY <1>7, <2>1, HoldingsStart
<1>8. CASE UNCHANGED runtimeVars
  BY <1>8, HoldingsUntouched DEF runtimeVars
<1>9. QED
  BY <1>1, <1>2, <1>3, <1>4, <1>5, <1>6, <1>7, <1>8 DEF RuntimeNext, Restart

(* A policy between cash and one asset holds what it last decided on,      *)
(* through any number of restarts.  With a second asset it does not: an    *)
(* order for the one leaves the other in the account.                      *)
THEOREM HoldingsFollow ==
  ASSUME SingleAssetPolicies
  PROVE  RuntimeSpec => []HoldingsFollowPolicy
<1>1. RuntimeInit => HoldingsInv
  BY MissingAssumption DEF RuntimeInit, Fresh, HoldingsInv, Targets
<1>2. RuntimeTypeOK /\ HoldingsInv /\ [RuntimeNext]_runtimeVars => HoldingsInv'
  BY HoldingsStep
<1>3. HoldingsInv => HoldingsFollowPolicy
  BY DEF HoldingsInv, HoldingsFollowPolicy
<1>4. QED
  BY <1>1, <1>2, <1>3, RuntimeTypeCorrect, PTL DEF RuntimeSpec

-----------------------------------------------------------------------------
(* Checkpoints.                                                            *)

(* There is something to take the value from.                              *)
Available(v, c) ==
  /\ v.kind = "completed_weekly_price" => c.completed # Missing
  /\ v.kind = "remembered" => c.memory[v.memory] # Missing
  /\ v.kind = "bars_since_event" => c.cutoffs[v.event] # Missing

(* What an event compared when it was true, or when it triggered, has been *)
(* known since.                                                            *)
Compared(c) ==
  \A i \in EventsOf(program) :
    c.truths[i] = "true" \/ c.cutoffs[i] # Missing =>
      Available(program.events[i].left, c) /\ Available(program.events[i].right, c)

(* Without a completed week, all sessions so far are of the same one.      *)
FirstWeek(c) ==
  /\ c.week # Missing => c.weekClose # Missing
  /\ Multiclock(program) /\ c.completed = Missing /\ c.boundary > 0 =>
       /\ c.week = market.week[c.boundary]
       /\ \A t \in 1..c.boundary : market.week[t] = market.week[c.boundary]

Sound(c) == Coherent(c) /\ Compared(c) /\ FirstWeek(c)

Explained(c, i, k) == Remembered(c, i, k) \/ Unknown(c, i, k)

(* The action has not been performed yet since its event was triggered.    *)
Ahead(i, k) == i = visit /\ act # 0 /\ k >= act

(* What a process may lack is explained, except for what the event being   *)
(* visited has yet to remember in this session.                            *)
ProcessInv ==
  /\ Sound(runtime)
  /\ act # 0 => runtime.cutoffs[visit] = runtime.boundary
  /\ \A i \in EventsOf(program) : runtime.cutoffs[i] # Missing =>
       \A k \in DOMAIN program.events[i].actions : Ahead(i, k) \/ Explained(runtime, i, k)

CheckpointInv ==
  \A n \in DOMAIN emitted :
    LET c == emitted[n].checkpoint
    IN  /\ Sound(c)
        /\ \A i \in EventsOf(program) : c.cutoffs[i] # Missing =>
             \A k \in DOMAIN program.events[i].actions : Explained(c, i, k)

MemoryInv == ProcessInv /\ CheckpointInv

(* The values an event compares and captures, and the events they name.    *)
LEMMA EventValues ==
  ASSUME program \in Programs, NEW i \in EventsOf(program)
  PROVE  /\ program.events[i].left \in Values /\ program.events[i].right \in Values
         /\ \A k \in DOMAIN program.events[i].actions :
              program.events[i].actions[k].kind = "remember" =>
                /\ program.events[i].actions[k].memory \in Memories
                /\ program.events[i].actions[k].value \in Values
         /\ \A v \in {program.events[i].left, program.events[i].right}
                       \cup {program.events[i].actions[k].value : k \in
                              {k \in DOMAIN program.events[i].actions :
                                 program.events[i].actions[k].kind = "remember"}} :
              v.kind = "bars_since_event" => v.event \in EventsOf(program)
<1> DEFINE e == program.events[i]
<1>1. e \in Events /\ \A k \in DOMAIN e.actions : e.actions[k] \in Actions
  BY ProgramShape
<1>2. e.left \in Values /\ e.right \in Values
  BY <1>1 DEF Events
<1>3. \A k \in DOMAIN e.actions : e.actions[k].kind = "remember" =>
        e.actions[k].memory \in Memories /\ e.actions[k].value \in Values
  BY <1>1 DEF Actions
<1>4. \A v \in {e.left, e.right} \cup {a.value : a \in {e.actions[k] : k \in
                 {k \in DOMAIN e.actions : e.actions[k].kind = "remember"}}} :
        v.kind = "bars_since_event" => v.event \in EventsOf(program)
  BY ProgramsAssumption DEF ReferencesResolve
<1>5. QED
  BY <1>2, <1>3, <1>4

(* A value is unknown exactly as long as there is nothing to take it from. *)
LEMMA ValueKnown ==
  ASSUME FieldsTypeOK, PositionTypeOK, visit > 0, NEW v \in Values,
         v.kind = "bars_since_event" => v.event \in EventsOf(program)
  PROVE  ValueOf(v) # Missing <=> Available(v, runtime)
<1>1. /\ runtime \in RuntimeRecords(program)
      /\ runtime.boundary \in Sessions(market) /\ runtime.boundary \in Int
      /\ market \in Markets
      /\ \A n \in Int : n # Missing
  BY MarketShape, MissingAssumption DEF FieldsTypeOK, PositionTypeOK, RuntimeRecords
<1>2. CASE v.kind = "current_price"
  <2>1. ValueOf(v) = market.close[v.asset][runtime.boundary] /\ v.asset \in Assets
    BY <1>2 DEF ValueOf, Values
  <2>2. ValueOf(v) \in Int
    BY <1>1, <2>1, MarketShape
  <2>3. QED
    BY <1>1, <1>2, <2>2 DEF Available
<1>3. CASE v.kind = "literal"
  <2>1. ValueOf(v) \in Int
    BY <1>3 DEF ValueOf, Values
  <2>2. QED
    BY <1>1, <1>3, <2>1 DEF Available
<1>4. CASE v.kind = "remembered"
  BY <1>4 DEF ValueOf, Available
<1>5. CASE v.kind = "completed_weekly_price"
  BY <1>5 DEF ValueOf, Available
<1>6. CASE v.kind = "bars_since_event"
  <2>1. runtime.cutoffs[v.event] # Missing => runtime.cutoffs[v.event] \in Int
    BY <1>1, <1>6, MarketShape DEF RuntimeRecords, Optional
  <2>2. runtime.cutoffs[v.event] # Missing => runtime.boundary - runtime.cutoffs[v.event] \in Int
    BY <1>1, <2>1
  <2>3. ValueOf(v) = IF runtime.cutoffs[v.event] = Missing THEN Missing
                     ELSE runtime.boundary - runtime.cutoffs[v.event]
    BY <1>6 DEF ValueOf, BarsSince
  <2>4. Available(v, runtime) <=> runtime.cutoffs[v.event] # Missing
    BY <1>6 DEF Available
  <2>5. QED
    BY <1>1, <2>2, <2>3, <2>4
<1>7. QED
  BY <1>2, <1>3, <1>4, <1>5, <1>6 DEF Values

(* What a step of the process does to its fields: what is known stays so,  *)
(* and what is new is of the session it was in.                            *)
Advances ==
  /\ UNCHANGED <<program, market>>
  /\ runtime \in RuntimeRecords(program) /\ runtime' \in RuntimeRecords(program)
  /\ runtime.boundary <= runtime'.boundary
  /\ runtime'.completed = Missing => runtime.completed = Missing
  /\ \A m \in Memories : runtime'.memory[m] = Missing => runtime.memory[m] = Missing
  /\ \A m \in Memories : runtime'.captures[m] \in {runtime.captures[m], runtime.boundary}
  /\ \A i \in EventsOf(program) : runtime'.cutoffs[i] \in {runtime.cutoffs[i], runtime.boundary}

LEMMA FieldNumbers ==
  ASSUME RuntimeTypeOK
  PROVE  /\ runtime.boundary \in Int /\ runtime.boundary # Missing
         /\ \A i \in EventsOf(program) :
              runtime.cutoffs[i] # Missing => runtime.cutoffs[i] \in Nat \ {0}
         /\ \A m \in Memories : runtime.captures[m] # Missing => runtime.captures[m] \in Int
<1>1. runtime \in RuntimeRecords(program) /\ Sessions(market) \subseteq Nat \ {0}
  BY MarketShape DEF RuntimeTypeOK, FieldsTypeOK
<1>2. runtime.boundary \in Int
  BY <1>1 DEF RuntimeRecords
<1>3. runtime.boundary # Missing
  BY <1>2, MissingAssumption
<1>4. QED
  BY <1>1, <1>2, <1>3 DEF RuntimeRecords, Optional

LEMMA AvailableStays ==
  ASSUME RuntimeTypeOK, Advances, NEW v \in Values,
         v.kind = "bars_since_event" => v.event \in EventsOf(program),
         Available(v, runtime)
  PROVE  Available(v, runtime')
<1>1. v.kind = "remembered" => v.memory \in Memories
  BY DEF Values
<1>2. QED
  BY <1>1, FieldNumbers DEF Available, Advances

(* What explains a gap goes on explaining it.                              *)
LEMMA ExplainedStays ==
  ASSUME RuntimeTypeOK, Coherent(runtime), Advances, NEW i \in EventsOf(program),
         NEW k \in DOMAIN program.events[i].actions,
         runtime.cutoffs[i] # Missing, runtime'.cutoffs[i] = runtime.cutoffs[i],
         Explained(runtime, i, k)
  PROVE  Explained(runtime, i, k)'
<1> DEFINE a == program.events[i].actions[k]
           s == runtime.cutoffs[i]
<1>1. /\ program \in Programs
      /\ UNCHANGED <<program, market>>
      /\ s <= runtime.boundary /\ s \in Int /\ runtime.boundary \in Int
  BY FieldNumbers DEF RuntimeTypeOK, FieldsTypeOK, Coherent, Advances
<1>2. a.kind = "remember" =>
        /\ a.memory \in Memories
        /\ a.value \in Values
        /\ a.value.kind = "bars_since_event" => a.value.event \in EventsOf(program)
  <2>1. a.kind = "remember" => a.memory \in Memories /\ a.value \in Values
    BY <1>1, EventValues
  <2>2. a.kind = "remember" =>
          (a.value.kind = "bars_since_event" => a.value.event \in EventsOf(program))
    BY <1>1, EventValues
  <2>3. QED
    BY <2>1, <2>2
<1>3. CASE Remembered(runtime, i, k)
  <2>1. Remembered(runtime, i, k)'
    BY <1>1, <1>2, <1>3 DEF Remembered, Advances
  <2>2. QED
    BY <2>1 DEF Explained
<1>4. CASE Unknown(runtime, i, k)
  <2>1. a.kind = "remember" /\ NotYet(a.value, runtime, s)
    BY <1>4 DEF Unknown
  <2>2. a.value.kind = "remembered" => a.value.memory \in Memories
    BY <1>2, <2>1 DEF Values
  <2>3. NotYet(a.value, runtime, s)'
    <3>1. CASE a.value.kind = "completed_weekly_price"
      BY <1>1, <2>1, <3>1 DEF NotYet
    <3>2. CASE a.value.kind = "remembered"
      BY <1>1, <2>1, <2>2, <3>2 DEF NotYet, Advances
    <3>3. CASE a.value.kind = "bars_since_event"
      BY <1>1, <1>2, <2>1, <3>3 DEF NotYet, Advances
    <3>4. QED
      BY <2>1, <3>1, <3>2, <3>3 DEF NotYet
  <2>4. Unknown(runtime, i, k)'
    BY <1>1, <1>4, <2>3 DEF Unknown
  <2>5. QED
    BY <2>4 DEF Explained
<1>5. QED
  BY <1>3, <1>4 DEF Explained

LEMMA CoherentStays ==
  ASSUME RuntimeTypeOK, Coherent(runtime), Advances,
         \A m \in Memories : runtime'.memory[m] = Missing <=> runtime'.captures[m] = Missing
  PROVE  Coherent(runtime)'
<1>1. runtime.boundary \in Int /\ runtime'.boundary \in Int
  <2>1. runtime' \in RuntimeRecords(program) /\ market \in Markets
    BY DEF Advances, RuntimeTypeOK, FieldsTypeOK
  <2>2. QED
    BY <2>1, MarketShape, FieldNumbers DEF RuntimeRecords
<1>2. UNCHANGED program
  BY DEF Advances
<1>3. ASSUME NEW i \in EventsOf(program), runtime'.cutoffs[i] # Missing
      PROVE  runtime'.cutoffs[i] <= runtime'.boundary
  BY <1>1, <1>3, FieldNumbers DEF Coherent, Advances
<1>4. ASSUME NEW m \in Memories, runtime'.captures[m] # Missing
      PROVE  runtime'.captures[m] <= runtime'.boundary
  BY <1>1, <1>4, FieldNumbers DEF Coherent, Advances
<1>5. QED
  BY <1>2, <1>3, <1>4 DEF Coherent

LEMMA ComparedStays ==
  ASSUME RuntimeTypeOK, Compared(runtime), Advances,
         \A i \in EventsOf(program) :
           \/ /\ runtime'.truths[i] = "true" => runtime.truths[i] = "true"
              /\ runtime'.cutoffs[i] = runtime.cutoffs[i]
           \/ /\ Available(program.events[i].left, runtime)
              /\ Available(program.events[i].right, runtime)
  PROVE  Compared(runtime)'
<1>1. UNCHANGED program /\ program \in Programs
  BY DEF Advances, RuntimeTypeOK, FieldsTypeOK
<1>2. ASSUME NEW i \in EventsOf(program),
             runtime'.truths[i] = "true" \/ runtime'.cutoffs[i] # Missing
      PROVE  /\ Available(program.events[i].left, runtime')
             /\ Available(program.events[i].right, runtime')
  <2> DEFINE l == program.events[i].left
             r == program.events[i].right
  <2>1. /\ l \in Values /\ (l.kind = "bars_since_event" => l.event \in EventsOf(program))
        /\ r \in Values /\ (r.kind = "bars_since_event" => r.event \in EventsOf(program))
    BY <1>1, EventValues
  <2>2. Available(l, runtime) /\ Available(r, runtime)
    BY <1>2 DEF Compared
  <2> HIDE DEF l, r
  <2>3. Available(l, runtime') /\ Available(r, runtime')
    BY <2>1, <2>2, AvailableStays
  <2>4. QED
    BY <2>3 DEF l, r
<1>3. QED
  BY <1>1, <1>2 DEF Compared

LEMMA FirstWeekStays ==
  ASSUME FirstWeek(runtime), UNCHANGED <<program, market>>,
         runtime'.boundary = runtime.boundary, runtime'.week = runtime.week,
         runtime'.weekClose = runtime.weekClose, runtime'.completed = runtime.completed
  PROVE  FirstWeek(runtime)'
BY DEF FirstWeek

LEMMA SoundStays ==
  ASSUME UNCHANGED <<program, market>>, NEW c, Sound(c)
  PROVE  Sound(c)'
BY DEF Sound, Coherent, Compared, FirstWeek

LEMMA SameExplanation ==
  ASSUME UNCHANGED <<program, market>>, NEW c, NEW i, NEW k, Explained(c, i, k)
  PROVE  Explained(c, i, k)'
BY DEF Explained, Remembered, Unknown, NotYet

(* What was logged stays as it is as long as nothing is logged.            *)
LEMMA LogUntouched ==
  ASSUME CheckpointInv, UNCHANGED <<program, market, emitted>>
  PROVE  CheckpointInv'
BY SoundStays, SameExplanation DEF CheckpointInv

(* A week completes, or it is still the first one.                         *)
LEMMA FirstWeekNextBar ==
  ASSUME RuntimeTypeOK, FirstWeek(runtime), NextBar
  PROVE  FirstWeek(runtime)'
<1> DEFINE b == runtime.boundary
           week == market.week[b + 1]
           close == market.close[program.anchor][b + 1]
<1>1. /\ market \in Markets
      /\ runtime \in RuntimeRecords(program)
      /\ b \in {0} \cup Sessions(market)
      /\ b \in Nat
      /\ b + 1 \in Sessions(market)
      /\ program \in ProgramRecords
      /\ UNCHANGED <<program, market>>
      /\ runtime' = [RollWeek(week, close) EXCEPT !.boundary = b + 1]
  BY MarketShape, ProgramShape DEF RuntimeTypeOK, FieldsTypeOK, RuntimeRecords, NextBar
<1>2. week \in Nat /\ close \in Nat /\ close # Missing
  BY <1>1, MarketShape, MissingAssumption DEF ProgramRecords
<1>3. runtime'.boundary = b + 1
  BY <1>1 DEF RollWeek, RuntimeRecords
<1>4. CASE ~Multiclock(program)
  <2>1. runtime'.week = runtime.week /\ runtime'.weekClose = runtime.weekClose
    BY <1>1, <1>4 DEF RollWeek, RuntimeRecords
  <2>2. QED
    BY <1>1, <1>4, <2>1 DEF FirstWeek
<1>5. CASE Multiclock(program)
  <2>1. /\ runtime'.week = week
        /\ runtime'.weekClose = close
        /\ runtime'.completed = IF runtime.week \notin {Missing, week} THEN runtime.weekClose
                                ELSE runtime.completed
    BY <1>1, <1>5 DEF RollWeek, RuntimeRecords
  <2>2. ASSUME runtime'.completed = Missing, NEW t \in 1..(b + 1)
        PROVE  market.week[t] = week
    <3>1. runtime.completed = Missing /\ runtime.week \in {Missing, week}
      BY <2>1, <2>2 DEF FirstWeek
    <3>2. CASE t = b + 1
      BY <3>2
    <3>3. CASE t # b + 1
      <4>1. b > 0 /\ t \in 1..b /\ b \in Sessions(market)
        BY <1>1, <3>3
      <4>2. market.week[b] # Missing
        BY <1>1, <4>1, MarketShape, MissingAssumption
      <4>3. runtime.week = market.week[b] /\ market.week[t] = market.week[b]
        BY <1>5, <3>1, <4>1 DEF FirstWeek
      <4>4. QED
        BY <3>1, <4>2, <4>3
    <3>4. QED
      BY <3>2, <3>3
  <2> HIDE DEF b
  <2>3. QED
    BY <1>1, <1>2, <1>3, <2>1, <2>2 DEF FirstWeek
<1>6. QED
  BY <1>4, <1>5

LEMMA FieldsStay ==
  ASSUME RuntimeTypeOK, RuntimeTypeOK', UNCHANGED <<program, market>>
  PROVE  runtime \in RuntimeRecords(program) /\ runtime' \in RuntimeRecords(program)
BY DEF RuntimeTypeOK, FieldsTypeOK, RuntimeRecords

LEMMA MemoryNextBar ==
  ASSUME RuntimeTypeOK, MemoryInv, NextBar
  PROVE  MemoryInv'
<1>1. /\ UNCHANGED <<program, market, act, emitted>>
      /\ act = 0
  BY ProgramShape DEF NextBar, RuntimeTypeOK, FieldsTypeOK, PositionTypeOK
<1>2. runtime \in RuntimeRecords(program) /\ runtime' \in RuntimeRecords(program)
  BY <1>1, NextBarType, FieldsStay
<1>3. /\ runtime'.boundary = runtime.boundary + 1
      /\ runtime'.memory = runtime.memory
      /\ runtime'.captures = runtime.captures
      /\ runtime'.cutoffs = runtime.cutoffs
      /\ runtime'.truths = runtime.truths
  BY <1>2 DEF NextBar, RollWeek, RuntimeRecords
<1>4. /\ Sound(runtime) /\ Coherent(runtime) /\ Compared(runtime) /\ FirstWeek(runtime)
      /\ CheckpointInv
      /\ \A i \in EventsOf(program) : runtime.cutoffs[i] # Missing =>
           \A k \in DOMAIN program.events[i].actions : Explained(runtime, i, k)
  BY <1>1 DEF MemoryInv, ProcessInv, Sound, Ahead
<1>5. runtime'.completed = Missing => runtime.completed = Missing
  BY <1>4 DEF NextBar, RollWeek, RuntimeTypeOK, FieldsTypeOK, RuntimeRecords, FirstWeek
<1>6. Advances
  <2>1. runtime.boundary \in Int
    BY FieldNumbers
  <2>2. QED
    BY <1>1, <1>2, <1>3, <1>5, <2>1 DEF Advances
<1>7. Sound(runtime)'
  <2>1. Coherent(runtime)'
    BY <1>3, <1>4, <1>6, CoherentStays DEF Coherent
  <2>2. Compared(runtime)'
    BY <1>3, <1>4, <1>6, ComparedStays
  <2>3. QED
    BY <1>4, <2>1, <2>2, FirstWeekNextBar DEF Sound
<1>8. ASSUME NEW i \in EventsOf(program), runtime'.cutoffs[i] # Missing,
             NEW k \in DOMAIN program.events[i].actions
      PROVE  Explained(runtime, i, k)'
  BY <1>1, <1>3, <1>4, <1>6, <1>8, ExplainedStays
<1>9. ProcessInv'
  BY <1>1, <1>3, <1>7, <1>8 DEF ProcessInv
<1>10. CheckpointInv'
  BY <1>1, <1>4, LogUntouched
<1>11. QED
  BY <1>9, <1>10 DEF MemoryInv

(* An event that occurs has known values to compare: its condition is true *)
(* now, or was so in the session before.                                   *)
LEMMA OccursKnown ==
  ASSUME RuntimeTypeOK, Compared(runtime), visit \in EventsOf(program), NEW trigger,
         LET truth == ConditionTruth(program.events[visit])
         IN  truth = "true" \/ Occurs(trigger, truth, runtime.truths[visit])
  PROVE  /\ Available(program.events[visit].left, runtime)
         /\ Available(program.events[visit].right, runtime)
<1> DEFINE e == program.events[visit]
<1>1. /\ FieldsTypeOK /\ PositionTypeOK /\ program \in Programs /\ visit > 0
  BY ProgramShape DEF RuntimeTypeOK, FieldsTypeOK
<1>2. ConditionTruth(e) = "true" \/ runtime.truths[visit] = "true"
  BY DEF Occurs
<1>3. CASE ConditionTruth(e) = "true"
  <2>1. ComparisonTruth(e) # "unknown"
    <3>1. AllTruth(ComparisonTruth(e), StateTruth(e)) # "unknown"
      BY <1>3 DEF ConditionTruth, AllTruth
    <3>2. AllTruth(ComparisonTruth(e), StateTruth(e)) # "false"
      BY <1>3 DEF ConditionTruth, AllTruth
    <3>3. QED
      BY <3>1, <3>2 DEF AllTruth
  <2>2. ValueOf(e.left) # Missing /\ ValueOf(e.right) # Missing
    BY <2>1 DEF ComparisonTruth
  <2>3. /\ e.left \in Values /\ e.right \in Values
        /\ e.left.kind = "bars_since_event" => e.left.event \in EventsOf(program)
        /\ e.right.kind = "bars_since_event" => e.right.event \in EventsOf(program)
    BY <1>1, EventValues
  <2> HIDE DEF e
  <2>4. Available(e.left, runtime) /\ Available(e.right, runtime)
    BY <1>1, <2>2, <2>3, ValueKnown
  <2>5. QED
    BY <2>4 DEF e
<1>4. CASE runtime.truths[visit] = "true"
  BY <1>4 DEF Compared
<1>5. QED
  BY <1>2, <1>3, <1>4

(* A triggered event has all its actions ahead.                            *)
LEMMA MemoryEvaluateEvent ==
  ASSUME RuntimeTypeOK, MemoryInv, EvaluateEvent
  PROVE  MemoryInv'
<1> DEFINE e == program.events[visit]
           truth == ConditionTruth(e)
           occurs == Occurs(e.trigger, truth, runtime.truths[visit])
           count == runtime.counts[visit] + 1
           triggered == occurs /\ (e.occurrence = "first" => count = 1)
<1>1. /\ visit \in EventsOf(program)
      /\ act = 0
      /\ visit' = visit \/ act' = 0
      /\ UNCHANGED <<program, market, emitted>>
      /\ program \in Programs
  BY DEF EvaluateEvent, Proceed, RuntimeTypeOK, FieldsTypeOK
<1>2. /\ runtime' = [runtime EXCEPT
            !.truths[visit] = truth,
            !.counts[visit] = IF occurs THEN count ELSE @,
            !.cutoffs[visit] = IF triggered THEN runtime.boundary ELSE @]
      /\ triggered => Proceed(1)
      /\ ~triggered => act' = 0
  BY DEF EvaluateEvent
<1>3. /\ Sound(runtime) /\ Coherent(runtime) /\ Compared(runtime) /\ FirstWeek(runtime)
      /\ CheckpointInv
      /\ \A i \in EventsOf(program) : runtime.cutoffs[i] # Missing =>
           \A k \in DOMAIN program.events[i].actions : Explained(runtime, i, k)
  BY <1>1 DEF MemoryInv, ProcessInv, Sound, Ahead
<1>4. triggered \/ truth = "true" =>
        Available(e.left, runtime) /\ Available(e.right, runtime)
  BY <1>1, <1>3, OccursKnown
<1> HIDE DEF truth, occurs, count, triggered
<1>5. runtime \in RuntimeRecords(program) /\ runtime' \in RuntimeRecords(program)
  BY <1>1, EvaluateEventType, FieldsStay
<1>6. /\ runtime'.boundary = runtime.boundary
      /\ runtime'.memory = runtime.memory
      /\ runtime'.captures = runtime.captures
      /\ runtime'.week = runtime.week
      /\ runtime'.weekClose = runtime.weekClose
      /\ runtime'.completed = runtime.completed
      /\ runtime'.truths = [runtime.truths EXCEPT ![visit] = truth]
      /\ runtime'.cutoffs =
           [runtime.cutoffs EXCEPT ![visit] = IF triggered THEN runtime.boundary ELSE @]
  BY <1>1, <1>2, <1>5 DEF RuntimeRecords
<1>7. \A i \in EventsOf(program) :
        runtime'.cutoffs[i] = IF i = visit /\ triggered THEN runtime.boundary
                              ELSE runtime.cutoffs[i]
  BY <1>1, <1>5, <1>6 DEF RuntimeRecords
<1>8. \A i \in EventsOf(program) :
        runtime'.truths[i] = IF i = visit THEN truth ELSE runtime.truths[i]
  BY <1>1, <1>5, <1>6 DEF RuntimeRecords
<1>9. Advances
  BY <1>1, <1>5, <1>6, <1>7, FieldNumbers DEF Advances
<1>10. Sound(runtime)'
  <2>1. Coherent(runtime)'
    BY <1>3, <1>6, <1>9, CoherentStays DEF Coherent
  <2>2. Compared(runtime)'
    BY <1>3, <1>4, <1>7, <1>8, <1>9, ComparedStays
  <2>3. FirstWeek(runtime)'
    BY <1>1, <1>3, <1>6, FirstWeekStays
  <2>4. QED
    BY <2>1, <2>2, <2>3 DEF Sound
<1>11. ASSUME NEW i \in EventsOf(program), runtime'.cutoffs[i] # Missing,
              NEW k \in DOMAIN program.events[i].actions
       PROVE  Ahead(i, k)' \/ Explained(runtime, i, k)'
  <2>1. CASE i = visit /\ triggered
    <3>1. k >= 1 /\ k <= Len(e.actions) /\ Len(e.actions) \in Nat /\ k \in Nat
      BY <1>1, <2>1, ProgramShape
    <3>2. act' = 1 /\ visit' = visit
      BY <1>2, <2>1, <3>1 DEF Proceed
    <3>3. QED
      BY <2>1, <3>1, <3>2 DEF Ahead
  <2>2. CASE ~(i = visit /\ triggered)
    BY <1>3, <1>7, <1>9, <1>11, <2>2, ExplainedStays
  <2>3. QED
    BY <2>1, <2>2
<1>12. act' # 0 => visit' = visit /\ runtime'.cutoffs[visit] = runtime.boundary
  BY <1>1, <1>2, <1>7
<1>13. ProcessInv'
  BY <1>1, <1>6, <1>10, <1>11, <1>12 DEF ProcessInv
<1>14. CheckpointInv'
  BY <1>1, <1>3, LogUntouched
<1>15. QED
  BY <1>13, <1>14 DEF MemoryInv

(* One action further, which has remembered its value if it had to and if  *)
(* there was one.                                                          *)
LEMMA MemoryPerforming ==
  ASSUME RuntimeTypeOK, MemoryInv, NEW kind, Performing(kind), RuntimeTypeOK', Advances,
         runtime'.boundary = runtime.boundary, runtime'.week = runtime.week,
         runtime'.weekClose = runtime.weekClose, runtime'.completed = runtime.completed,
         runtime'.truths = runtime.truths, runtime'.cutoffs = runtime.cutoffs,
         \A m \in Memories : runtime'.memory[m] = Missing <=> runtime'.captures[m] = Missing,
         Explained(runtime', visit, act)
  PROVE  MemoryInv'
<1>1. /\ visit \in EventsOf(program)
      /\ act \in DOMAIN program.events[visit].actions
      /\ act \in Nat \ {0} /\ act # 0
      /\ Proceed(act + 1)
      /\ UNCHANGED <<program, market, emitted>>
      /\ program \in Programs
  BY ProgramShape DEF Performing, RuntimeTypeOK, FieldsTypeOK
<1>2. /\ Coherent(runtime) /\ Compared(runtime) /\ FirstWeek(runtime)
      /\ CheckpointInv
      /\ runtime.cutoffs[visit] = runtime.boundary
      /\ \A i \in EventsOf(program) : runtime.cutoffs[i] # Missing =>
           \A k \in DOMAIN program.events[i].actions :
             Ahead(i, k) \/ Explained(runtime, i, k)
  BY <1>1 DEF MemoryInv, ProcessInv, Sound
<1>3. Sound(runtime)'
  <2>1. Coherent(runtime)'
    BY <1>2, CoherentStays
  <2>2. Compared(runtime)'
    BY <1>2, ComparedStays
  <2>3. FirstWeek(runtime)'
    BY <1>1, <1>2, FirstWeekStays
  <2>4. QED
    BY <2>1, <2>2, <2>3 DEF Sound
<1>4. ASSUME NEW i \in EventsOf(program), runtime'.cutoffs[i] # Missing,
             NEW k \in DOMAIN program.events[i].actions
      PROVE  Ahead(i, k)' \/ Explained(runtime, i, k)'
  <2>1. k \in 1..Len(program.events[i].actions) /\ Len(program.events[i].actions) \in Nat
    BY <1>1, ProgramShape
  <2>2. CASE i = visit /\ k > act
    <3>1. act' = act + 1 /\ visit' = visit
      BY <1>1, <2>1, <2>2 DEF Proceed
    <3>2. QED
      BY <1>1, <2>1, <2>2, <3>1 DEF Ahead
  <2>3. CASE i = visit /\ k = act
    BY <1>1, <2>3 DEF Explained, Remembered, Unknown, NotYet
  <2>4. CASE i # visit \/ k < act
    <3>1. Explained(runtime, i, k)
      BY <1>1, <1>2, <1>4, <2>1, <2>4 DEF Ahead
    <3>2. QED
      BY <1>2, <1>4, <3>1, ExplainedStays
  <2>5. QED
    BY <1>1, <2>1, <2>2, <2>3, <2>4
<1>5. act' # 0 => visit' = visit
  BY <1>1 DEF Proceed
<1>6. ProcessInv'
  BY <1>1, <1>2, <1>3, <1>4, <1>5 DEF ProcessInv
<1>7. CheckpointInv'
  BY <1>1, <1>2, LogUntouched
<1>8. QED
  BY <1>6, <1>7 DEF MemoryInv

(* What an event captures is unknown only if it does not compare it, and   *)
(* only as long as there has been nothing to take it from.                 *)
LEMMA MissingIsUnknown ==
  ASSUME RuntimeTypeOK, ProcessInv, Performing("remember"),
         ValueOf(program.events[visit].actions[act].value) = Missing
  PROVE  Unknown(runtime, visit, act)
<1> DEFINE e == program.events[visit]
           v == e.actions[act].value
           b == runtime.boundary
<1>1. /\ FieldsTypeOK /\ PositionTypeOK /\ program \in Programs
      /\ visit \in EventsOf(program) /\ visit > 0
      /\ act \in DOMAIN e.actions /\ act # 0
      /\ e.actions[act].kind = "remember"
  BY ProgramShape DEF RuntimeTypeOK, FieldsTypeOK, Performing
<1>2. /\ runtime.cutoffs[visit] = b /\ b # Missing /\ b \in Int
      /\ Coherent(runtime) /\ Compared(runtime) /\ FirstWeek(runtime)
  BY <1>1, FieldNumbers DEF ProcessInv, Sound
<1>3. b > 0
  BY <1>1 DEF PositionTypeOK
<1>4. v \in Values /\ (v.kind = "bars_since_event" => v.event \in EventsOf(program))
  <2>1. v \in Values
    BY <1>1, EventValues
  <2>2. v.kind = "bars_since_event" => v.event \in EventsOf(program)
    BY <1>1, EventValues
  <2>3. QED
    BY <2>1, <2>2
<1>5. v \notin {e.left, e.right}
  <2>1. Available(e.left, runtime) /\ Available(e.right, runtime)
    BY <1>1, <1>2 DEF Compared
  <2>2. ~Available(v, runtime)
    <3> HIDE DEF v
    <3>1. ValueOf(v) = Missing
      BY DEF v
    <3>2. QED
      BY <1>1, <1>4, <3>1, ValueKnown
  <2>3. QED
    BY <2>1, <2>2
<1>6. ~Available(v, runtime)
  <2> HIDE DEF v
  <2>1. ValueOf(v) = Missing
    BY DEF v
  <2>2. QED
    BY <1>1, <1>4, <2>1, ValueKnown
<1>7. NotYet(v, runtime, b)
  <2>1. CASE v.kind = "completed_weekly_price" /\ runtime.completed = Missing
    <3>1. Multiclock(program) => \A t \in 1..b : market.week[t] = market.week[b]
      BY <1>2, <1>3, <2>1 DEF FirstWeek
    <3>2. QED
      BY <2>1, <3>1 DEF NotYet
  <2>2. CASE v.kind = "remembered" /\ runtime.memory[v.memory] = Missing
    <3>1. runtime.captures[v.memory] = Missing
      BY <1>2, <1>4, <2>2 DEF Coherent, Values
    <3>2. QED
      BY <2>2, <3>1 DEF NotYet
  <2>3. CASE v.kind = "bars_since_event" /\ runtime.cutoffs[v.event] = Missing
    BY <2>3 DEF NotYet
  <2>4. QED
    BY <1>6, <2>1, <2>2, <2>3 DEF Available
<1>8. QED
  BY <1>1, <1>2, <1>5, <1>7 DEF Unknown

LEMMA MemoryRemember ==
  ASSUME RuntimeTypeOK, MemoryInv, Remember
  PROVE  MemoryInv'
<1> DEFINE a == program.events[visit].actions[act]
           value == ValueOf(a.value)
<1>1. /\ Performing("remember")
      /\ UNCHANGED <<program, market>>
      /\ RuntimeTypeOK'
  BY RememberType DEF Remember, Performing
<1>2. runtime \in RuntimeRecords(program) /\ runtime' \in RuntimeRecords(program)
  BY <1>1, FieldsStay
<1>3. a.memory \in Memories /\ value \in Optional(Int)
  BY <1>1, RememberedType
<1>4. ProcessInv /\ Coherent(runtime)
  BY DEF MemoryInv, ProcessInv, Sound
<1>5. value = Missing => Unknown(runtime, visit, act)
  BY <1>1, <1>4, MissingIsUnknown
<1>6. runtime' = IF value = Missing THEN runtime
                 ELSE [runtime EXCEPT !.memory[a.memory] = value,
                                      !.captures[a.memory] = runtime.boundary]
  BY DEF Remember
<1> HIDE DEF value
<1>7. /\ runtime'.boundary = runtime.boundary
      /\ runtime'.week = runtime.week
      /\ runtime'.weekClose = runtime.weekClose
      /\ runtime'.completed = runtime.completed
      /\ runtime'.truths = runtime.truths
      /\ runtime'.cutoffs = runtime.cutoffs
  BY <1>2, <1>6 DEF RuntimeRecords
<1>8. ASSUME NEW m \in Memories
      PROVE  /\ runtime'.memory[m] = IF m = a.memory /\ value # Missing THEN value
                                     ELSE runtime.memory[m]
             /\ runtime'.captures[m] = IF m = a.memory /\ value # Missing
                                       THEN runtime.boundary ELSE runtime.captures[m]
  <2> HIDE DEF a
  <2>1. QED
    BY <1>2, <1>3, <1>6 DEF RuntimeRecords
<1>9. Advances
  BY <1>1, <1>2, <1>7, <1>8, FieldNumbers DEF Advances
<1>10. \A m \in Memories : runtime'.memory[m] = Missing <=> runtime'.captures[m] = Missing
  BY <1>4, <1>8, FieldNumbers DEF Coherent
<1>11. Explained(runtime', visit, act)
  <2>1. CASE value = Missing
    BY <1>5, <1>6, <2>1 DEF Explained
  <2>2. CASE value # Missing
    BY <1>3, <1>8, <2>2 DEF Explained, Remembered
  <2>3. QED
    BY <2>1, <2>2
<1>12. QED
  BY <1>1, <1>7, <1>9, <1>10, <1>11, MemoryPerforming

LEMMA MemoryTransition ==
  ASSUME RuntimeTypeOK, MemoryInv, Transition
  PROVE  MemoryInv'
<1>1. /\ Performing("transition")
      /\ UNCHANGED <<program, market>>
      /\ RuntimeTypeOK'
      /\ program.events[visit].actions[act].kind # "remember"
  BY TransitionType DEF Transition, Performing
<1>2. runtime \in RuntimeRecords(program) /\ runtime' \in RuntimeRecords(program)
  BY <1>1, FieldsStay
<1>3. /\ runtime'.boundary = runtime.boundary
      /\ runtime'.week = runtime.week
      /\ runtime'.weekClose = runtime.weekClose
      /\ runtime'.completed = runtime.completed
      /\ runtime'.truths = runtime.truths
      /\ runtime'.cutoffs = runtime.cutoffs
      /\ runtime'.memory = runtime.memory
      /\ runtime'.captures = runtime.captures
  BY <1>2 DEF Transition, RuntimeRecords
<1>4. Advances
  BY <1>1, <1>2, <1>3, FieldNumbers DEF Advances
<1>5. \A m \in Memories : runtime'.memory[m] = Missing <=> runtime'.captures[m] = Missing
  BY <1>3 DEF MemoryInv, ProcessInv, Sound, Coherent
<1>6. Explained(runtime', visit, act)
  BY <1>1 DEF Explained, Remembered
<1>7. QED
  BY <1>1, <1>3, <1>4, <1>5, <1>6, MemoryPerforming

(* What is logged has nothing ahead.                                       *)
LEMMA MemoryDecide ==
  ASSUME RuntimeTypeOK, MemoryInv, Decide
  PROVE  MemoryInv'
<1>1. /\ visit \notin EventsOf(program)
      /\ act' = act
      /\ UNCHANGED <<program, market>>
      /\ RuntimeTypeOK'
  BY DecideType, ProgramShape DEF RuntimeTypeOK, FieldsTypeOK, Decide
<1>2. act = 0
  BY <1>1 DEF RuntimeTypeOK, PositionTypeOK
<1>3. runtime \in RuntimeRecords(program) /\ runtime' \in RuntimeRecords(program)
  BY <1>1, FieldsStay
<1>4. PICK d \in Targets :
        /\ runtime' = [runtime EXCEPT !.target = IF d \notin {Retain, runtime.target}
                                                 THEN d ELSE @]
        /\ Emit([checkpoint |-> runtime', decision |-> d])
  BY DEF Decide
<1>5. /\ runtime'.boundary = runtime.boundary
      /\ runtime'.week = runtime.week
      /\ runtime'.weekClose = runtime.weekClose
      /\ runtime'.completed = runtime.completed
      /\ runtime'.truths = runtime.truths
      /\ runtime'.cutoffs = runtime.cutoffs
      /\ runtime'.memory = runtime.memory
      /\ runtime'.captures = runtime.captures
  BY <1>3, <1>4 DEF RuntimeRecords
<1>6. /\ Sound(runtime)
      /\ CheckpointInv
      /\ \A i \in EventsOf(program) : runtime.cutoffs[i] # Missing =>
           \A k \in DOMAIN program.events[i].actions : Explained(runtime, i, k)
  BY <1>2 DEF MemoryInv, ProcessInv, Ahead
<1>7. Sound(runtime')
  BY <1>5, <1>6 DEF Sound, Coherent, Compared, Available, FirstWeek
<1>8. ASSUME NEW i \in EventsOf(program), runtime'.cutoffs[i] # Missing,
             NEW k \in DOMAIN program.events[i].actions
      PROVE  Explained(runtime', i, k)
  <2>1. Explained(runtime, i, k)
    BY <1>5, <1>6, <1>8
  <2>2. \A v, s : NotYet(v, runtime, s) => NotYet(v, runtime', s)
    BY <1>5 DEF NotYet
  <2>3. Remembered(runtime, i, k) => Remembered(runtime', i, k)
    BY <1>5 DEF Remembered
  <2>4. QED
    BY <1>5, <2>1, <2>2, <2>3 DEF Explained, Unknown
<1>9. ProcessInv'
  <2>1. Sound(runtime)'
    BY <1>1, <1>7 DEF Sound, Coherent, Compared, FirstWeek
  <2>2. ASSUME NEW i \in EventsOf(program), runtime'.cutoffs[i] # Missing,
               NEW k \in DOMAIN program.events[i].actions
        PROVE  Explained(runtime, i, k)'
    BY <1>1, <1>8, <2>2 DEF Explained, Remembered, Unknown, NotYet
  <2>3. QED
    BY <1>1, <1>2, <2>1, <2>2 DEF ProcessInv
<1>10. emitted' = [k \in DOMAIN emitted \cup {runtime.boundary} |->
                     IF k = runtime.boundary
                     THEN [checkpoint |-> runtime', decision |-> d] ELSE emitted[k]]
  BY <1>4 DEF Emit
<1>11. ASSUME NEW n \in DOMAIN emitted'
       PROVE  /\ Sound(emitted'[n].checkpoint)
              /\ \A i \in EventsOf(program) : emitted'[n].checkpoint.cutoffs[i] # Missing =>
                   \A k \in DOMAIN program.events[i].actions :
                     Explained(emitted'[n].checkpoint, i, k)
  <2>1. CASE n = runtime.boundary
    <3>1. emitted'[n].checkpoint = runtime'
      BY <1>10, <2>1
    <3>2. QED
      BY <1>7, <1>8, <3>1
  <2>2. CASE n # runtime.boundary
    <3>1. n \in DOMAIN emitted /\ emitted'[n] = emitted[n]
      BY <1>10, <2>2
    <3>2. QED
      BY <1>6, <3>1 DEF CheckpointInv
  <2>3. QED
    BY <2>1, <2>2
<1>12. CheckpointInv'
  BY <1>1, <1>11, SoundStays, SameExplanation DEF CheckpointInv
<1>13. QED
  BY <1>9, <1>12 DEF MemoryInv

LEMMA MemoryStart ==
  ASSUME RuntimeTypeOK, MemoryInv, NEW c \in RuntimeRecords(program), Start(c), Sound(c),
         \A i \in EventsOf(program) : c.cutoffs[i] # Missing =>
           \A k \in DOMAIN program.events[i].actions : Explained(c, i, k)
  PROVE  MemoryInv'
<1>1. runtime' = c /\ act' = 0 /\ UNCHANGED <<program, market, emitted>>
  BY ImportIsWhole DEF Start
<1>2. Sound(runtime)'
  BY <1>1, SoundStays
<1>3. ASSUME NEW i \in EventsOf(program), runtime'.cutoffs[i] # Missing,
             NEW k \in DOMAIN program.events[i].actions
      PROVE  Explained(runtime, i, k)'
  BY <1>1, <1>3, SameExplanation
<1>4. ProcessInv'
  BY <1>1, <1>2, <1>3 DEF ProcessInv
<1>5. CheckpointInv'
  BY <1>1, LogUntouched DEF MemoryInv
<1>6. QED
  BY <1>4, <1>5 DEF MemoryInv

LEMMA FreshSound == Sound(Fresh(program))
BY DEF Sound, Coherent, Compared, FirstWeek, Fresh

LEMMA MemoryRestart ==
  ASSUME RuntimeTypeOK, MemoryInv, Restart
  PROVE  MemoryInv'
<1>1. CASE Start(Fresh(program))
  <2>1. \A i \in EventsOf(program) : Fresh(program).cutoffs[i] = Missing
    BY DEF Fresh
  <2>2. Fresh(program) \in RuntimeRecords(program)
    BY FreshType DEF RuntimeTypeOK, FieldsTypeOK
  <2>3. QED
    BY <1>1, <2>1, <2>2, FreshSound, MemoryStart
<1>2. ASSUME NEW n \in DOMAIN emitted, Start(emitted[n].checkpoint)
      PROVE  MemoryInv'
  BY <1>2, MemoryStart DEF RuntimeTypeOK, LogTypeOK, MemoryInv, CheckpointInv
<1>3. QED
  BY <1>1, <1>2 DEF Restart

LEMMA MemoryStep ==
  ASSUME RuntimeTypeOK, MemoryInv, [RuntimeNext]_runtimeVars
  PROVE  MemoryInv'
<1>1. CASE UNCHANGED runtimeVars
  <2>1. UNCHANGED <<program, market, runtime, visit, act, emitted>>
    BY <1>1 DEF runtimeVars
  <2>2. Sound(runtime)'
    BY <2>1, SoundStays DEF MemoryInv, ProcessInv
  <2>3. ProcessInv'
    BY <2>1, <2>2, SameExplanation DEF MemoryInv, ProcessInv, Ahead
  <2>4. QED
    BY <2>1, <2>3, LogUntouched DEF MemoryInv
<1>2. QED
  BY <1>1, MemoryNextBar, MemoryEvaluateEvent, MemoryRemember, MemoryTransition,
     MemoryDecide, MemoryRestart DEF RuntimeNext

(* Whatever the programs remember, and however often and wherever a run is *)
(* interrupted, resumed or replayed: a checkpoint that import would refuse *)
(* lacks only a value that was unknown in the session that asked for it.   *)
THEOREM NoMemoryIsLost == RuntimeSpec => []LacksOnlyTheUnknown
<1>1. RuntimeInit => MemoryInv
  BY FreshSound DEF RuntimeInit, MemoryInv, ProcessInv, CheckpointInv, Fresh
<1>2. RuntimeTypeOK /\ MemoryInv /\ [RuntimeNext]_runtimeVars => MemoryInv'
  BY MemoryStep
<1>3. MemoryInv => LacksOnlyTheUnknown
  BY DEF MemoryInv, CheckpointInv, Sound, Explained, LacksOnlyTheUnknown
<1>4. QED
  BY <1>1, <1>2, <1>3, RuntimeTypeCorrect, PTL DEF RuntimeSpec

(* An event captures a price, a literal, or a value that it compares.      *)
KnownCaptures ==
  \A p \in Programs : \A i \in EventsOf(p) : \A k \in DOMAIN p.events[i].actions :
    LET e == p.events[i]
        a == e.actions[k]
    IN  a.kind = "remember" =>
          a.value.kind \in {"current_price", "literal"} \/ a.value \in {e.left, e.right}

(* The programs of which every checkpoint can be imported, as the ones of  *)
(* corpus.py: an event knows what it compares.                             *)
COROLLARY EveryCheckpointAccepted ==
  ASSUME KnownCaptures
  PROVE  RuntimeSpec => []CheckpointsAreAccepted
<1>1. ASSUME RuntimeTypeOK, LacksOnlyTheUnknown
      PROVE  CheckpointsAreAccepted
  <2>1. ASSUME NEW c, NEW i \in EventsOf(program),
               NEW k \in DOMAIN program.events[i].actions
        PROVE  ~Unknown(c, i, k)
    <3>1. program \in Programs
      BY <1>1 DEF RuntimeTypeOK, FieldsTypeOK
    <3>2. QED
      BY <3>1 DEF KnownCaptures, Unknown, NotYet
  <2>2. QED
    BY <1>1, <2>1 DEF LacksOnlyTheUnknown, CheckpointsAreAccepted, Accepted, RequiredMemory
<1>2. QED
  BY <1>1, NoMemoryIsLost, RuntimeTypeCorrect, PTL

-----------------------------------------------------------------------------
(* The evaluator.                                                          *)

(* The values of a program: in its conditions, and remembered.             *)
ValuesOf(p) ==
  UNION {{p.events[i].left, p.events[i].right}
           \cup {a.value : a \in {p.events[i].actions[k] : k \in
                   {k \in DOMAIN p.events[i].actions :
                      p.events[i].actions[k].kind = "remember"}}} : i \in EventsOf(p)}

(* A completed weekly value is one of the anchor, in a profile that keeps  *)
(* weekly aggregates.                                                      *)
AnchoredWeeks ==
  \A p \in Programs : \A v \in ValuesOf(p) :
    v.kind = "completed_weekly_price" => v.asset = p.anchor /\ Multiclock(p)

(* A transition goes somewhere else.                                       *)
MovingTransitions ==
  \A p \in Programs : \A i \in EventsOf(p) : \A k \in DOMAIN p.events[i].actions :
    LET a == p.events[i].actions[k] IN a.kind = "transition" => a.from # a.to

(* In the session in which a window opens, the condition it belongs to     *)
(* does not hold anyway.                                                   *)
WindowsOpenLater ==
  visit \in EventsOf(program) /\ act = 0 =>
    LET e == program.events[visit]
    IN  e.window # Missing /\ runtime.cutoffs[e.window.event] = runtime.boundary
          => "false" \in {ComparisonTruth(e), StateTruth(e)}

(* What a recursive definition over 0..n chooses does satisfy it.          *)
LEMMA PerformedSteps ==
  ASSUME NEW m, NEW e, NEW r, NEW c, Len(e.actions) \in Nat
  PROVE  /\ Reference!Performed(m, e, r, c)[0] = r
         /\ \A k \in 1..Len(e.actions) :
              Reference!Performed(m, e, r, c)[k]
                = Reference!Perform(m, e.actions[k], Reference!Performed(m, e, r, c)[k - 1], c)
<1> DEFINE N == Len(e.actions)
           Solves(f, n) == f = [k \in 0..n |->
                                  IF k = 0 THEN r ELSE Reference!Perform(m, e.actions[k], f[k - 1], c)]
           S == {n \in Nat : \E f : Solves(f, n)}
<1>1. 0 \in S
  <2>1. Solves([k \in 0..0 |-> r], 0)
    OBVIOUS
  <2>2. QED
    BY <2>1
<1>2. ASSUME NEW n \in Nat, n \in S PROVE n + 1 \in S
  <2>1. PICK f : Solves(f, n)
    BY <1>2
  <2> DEFINE g == [k \in 0..(n + 1) |->
                     IF k \in 0..n THEN f[k] ELSE Reference!Perform(m, e.actions[n + 1], f[n], c)]
  <2>2. ASSUME NEW k \in 0..(n + 1)
        PROVE  g[k] = IF k = 0 THEN r ELSE Reference!Perform(m, e.actions[k], g[k - 1], c)
    <3>1. CASE k = 0
      BY <2>1, <3>1
    <3>2. CASE k \in 1..n
      <4>1. g[k] = f[k] /\ g[k - 1] = f[k - 1]
        BY <3>2
      <4>2. QED
        BY <2>1, <3>2, <4>1
    <3>3. CASE k = n + 1
      <4>1. k \notin 0..n /\ k - 1 = n /\ n \in 0..n /\ n \in 0..(n + 1) /\ k # 0
        BY <3>3
      <4>2. g[k] = Reference!Perform(m, e.actions[n + 1], f[n], c) /\ g[k - 1] = f[n]
        BY <4>1
      <4>3. QED
        BY <3>3, <4>1, <4>2
    <3>4. QED
      BY <3>1, <3>2, <3>3
  <2>3. Solves(g, n + 1)
    <3>1. g = [k \in 0..(n + 1) |-> g[k]]
      OBVIOUS
    <3> HIDE DEF g
    <3>2. QED
      BY <2>2, <3>1
  <2> HIDE DEF g, Solves
  <2>4. QED
    BY <2>3
<1> HIDE DEF S
<1>3. N \in S
  BY <1>1, <1>2, NaturalSteps
<1>4. \E f : Solves(f, N)
  BY <1>3 DEF S
<1>5. Reference!Performed(m, e, r, c) = (CHOOSE f : Solves(f, N))
  BY DEF Reference!Performed
<1> DEFINE h == Reference!Performed(m, e, r, c)
<1> HIDE DEF Solves
<1>6. Solves(h, N)
  BY <1>4, <1>5
<1>7. h = [k \in 0..N |-> IF k = 0 THEN r ELSE Reference!Perform(m, e.actions[k], h[k - 1], c)]
  BY <1>6 DEF Solves
<1> HIDE DEF h
<1>8. h[0] = r
  BY <1>7
<1>9. ASSUME NEW k \in 1..N PROVE h[k] = Reference!Perform(m, e.actions[k], h[k - 1], c)
  <2>1. k \in 0..N /\ k # 0
    OBVIOUS
  <2>2. QED
    BY <1>7, <2>1
<1>10. QED
  BY <1>8, <1>9 DEF h

LEMMA VisitedSteps ==
  ASSUME NEW p, NEW m, NEW r, NEW c, Len(p.events) \in Nat
  PROVE  /\ Reference!Visited(p, m, r, c)[0] = r
         /\ \A k \in 1..Len(p.events) :
              Reference!Visited(p, m, r, c)[k]
                = Reference!Visit(p, m, k, Reference!Visited(p, m, r, c)[k - 1], c)
<1> DEFINE N == Len(p.events)
           Solves(f, n) == f = [k \in 0..n |->
                                  IF k = 0 THEN r ELSE Reference!Visit(p, m, k, f[k - 1], c)]
           S == {n \in Nat : \E f : Solves(f, n)}
<1>1. 0 \in S
  <2>1. Solves([k \in 0..0 |-> r], 0)
    OBVIOUS
  <2>2. QED
    BY <2>1
<1>2. ASSUME NEW n \in Nat, n \in S PROVE n + 1 \in S
  <2>1. PICK f : Solves(f, n)
    BY <1>2
  <2> DEFINE g == [k \in 0..(n + 1) |->
                     IF k \in 0..n THEN f[k] ELSE Reference!Visit(p, m, n + 1, f[n], c)]
  <2>2. ASSUME NEW k \in 0..(n + 1)
        PROVE  g[k] = IF k = 0 THEN r ELSE Reference!Visit(p, m, k, g[k - 1], c)
    <3>1. CASE k = 0
      BY <2>1, <3>1
    <3>2. CASE k \in 1..n
      <4>1. g[k] = f[k] /\ g[k - 1] = f[k - 1]
        BY <3>2
      <4>2. QED
        BY <2>1, <3>2, <4>1
    <3>3. CASE k = n + 1
      <4>1. k \notin 0..n /\ k - 1 = n /\ n \in 0..n /\ n \in 0..(n + 1) /\ k # 0
        BY <3>3
      <4>2. g[k] = Reference!Visit(p, m, n + 1, f[n], c) /\ g[k - 1] = f[n]
        BY <4>1
      <4>3. QED
        BY <3>3, <4>1, <4>2
    <3>4. QED
      BY <3>1, <3>2, <3>3
  <2>3. Solves(g, n + 1)
    <3>1. g = [k \in 0..(n + 1) |-> g[k]]
      OBVIOUS
    <3> HIDE DEF g
    <3>2. QED
      BY <2>2, <3>1
  <2> HIDE DEF g, Solves
  <2>4. QED
    BY <2>3
<1> HIDE DEF S
<1>3. N \in S
  BY <1>1, <1>2, NaturalSteps
<1>4. \E f : Solves(f, N)
  BY <1>3 DEF S
<1>5. Reference!Visited(p, m, r, c) = (CHOOSE f : Solves(f, N))
  BY DEF Reference!Visited
<1> DEFINE h == Reference!Visited(p, m, r, c)
<1> HIDE DEF Solves
<1>6. Solves(h, N)
  BY <1>4, <1>5
<1>7. h = [k \in 0..N |-> IF k = 0 THEN r ELSE Reference!Visit(p, m, k, h[k - 1], c)]
  BY <1>6 DEF Solves
<1> HIDE DEF h
<1>8. h[0] = r
  BY <1>7
<1>9. ASSUME NEW k \in 1..N PROVE h[k] = Reference!Visit(p, m, k, h[k - 1], c)
  <2>1. k \in 0..N /\ k # 0
    OBVIOUS
  <2>2. QED
    BY <1>7, <2>1
<1>10. QED
  BY <1>8, <1>9 DEF h

-----------------------------------------------------------------------------
(* Weeks.                                                                  *)

LEMMA WeekRolls ==
  ASSUME NEW m \in Markets, NEW b \in Nat
  PROVE  /\ Reference!LastCompletedWeek(m, 1) = Missing
         /\ b > 0 => Reference!LastCompletedWeek(m, b + 1)
                       = IF m.week[b + 1] # m.week[b] THEN b
                         ELSE Reference!LastCompletedWeek(m, b)
<1> DEFINE Earlier(c) == {i \in 1..(c - 1) : m.week[i] # m.week[c]}
           Last(S) == IF S = {} THEN Missing ELSE CHOOSE i \in S : \A j \in S : j <= i
<1>1. ASSUME NEW c PROVE Reference!LastCompletedWeek(m, c) = Last(Earlier(c))
  BY DEF Reference!LastCompletedWeek
<1>2. Last(Earlier(1)) = Missing
  <2>1. Earlier(1) = {}
    OBVIOUS
  <2>2. QED
    BY <2>1
<1>3. CASE b > 0 /\ m.week[b + 1] = m.week[b]
  <2>1. Earlier(b + 1) = Earlier(b)
    BY <1>3
  <2> HIDE DEF Earlier, Last
  <2>2. QED
    BY <1>1, <1>2, <1>3, <2>1
<1>4. CASE b > 0 /\ m.week[b + 1] # m.week[b]
  <2>1. b \in Earlier(b + 1) /\ Earlier(b + 1) \subseteq 1..b
    BY <1>4
  <2> DEFINE S == Earlier(b + 1)
  <2> HIDE DEF Earlier
  <2>2. \A i \in S : (\A j \in S : j <= i) => i = b
    BY <2>1
  <2>3. \A j \in S : j <= b
    BY <2>1
  <2>4. Last(S) = b
    BY <2>1, <2>2, <2>3
  <2> HIDE DEF Last
  <2>5. QED
    BY <1>1, <1>2, <1>4, <2>4
<1> HIDE DEF Earlier, Last
<1>5. QED
  BY <1>1, <1>2, <1>3, <1>4

(* The close of the last week that was complete at a session.              *)
CompletedClose(m, asset, b) ==
  LET l == Reference!LastCompletedWeek(m, b)
  IN  IF l = Missing THEN Missing ELSE m.close[asset][l]

(* The weekly fields say of the anchor what the snapshot says.             *)
WeekOf(c) ==
  Multiclock(program) =>
    IF c.boundary = 0 THEN c.week = Missing /\ c.completed = Missing
    ELSE /\ c.week = market.week[c.boundary]
         /\ c.weekClose = market.close[program.anchor][c.boundary]
         /\ c.completed = CompletedClose(market, program.anchor, c.boundary)

LEMMA WeekNextBar ==
  ASSUME RuntimeTypeOK, WeekOf(runtime), NextBar
  PROVE  WeekOf(runtime)'
<1> DEFINE b == runtime.boundary
           week == market.week[b + 1]
           close == market.close[program.anchor][b + 1]
<1>1. /\ market \in Markets
      /\ runtime \in RuntimeRecords(program)
      /\ b \in {0} \cup Sessions(market)
      /\ b \in Nat
      /\ UNCHANGED <<program, market>>
      /\ runtime' = [RollWeek(week, close) EXCEPT !.boundary = b + 1]
  BY MarketShape DEF RuntimeTypeOK, FieldsTypeOK, RuntimeRecords, NextBar
<1> SUFFICES ASSUME Multiclock(program) PROVE WeekOf(runtime)'
  BY <1>1 DEF WeekOf
<1>2. /\ runtime'.boundary = b + 1
      /\ runtime'.week = week
      /\ runtime'.weekClose = close
      /\ runtime'.completed = IF runtime.week \notin {Missing, week} THEN runtime.weekClose
                              ELSE runtime.completed
  BY <1>1 DEF RollWeek, RuntimeRecords
<1>3. runtime'.completed = CompletedClose(market, program.anchor, b + 1)
  <2>1. CASE b = 0
    BY <1>1, <1>2, <2>1, WeekRolls DEF WeekOf, CompletedClose
  <2>2. CASE b # 0
    <3>1. b > 0 /\ b \in Sessions(market) /\ market.week[b] \in Nat
      BY <1>1, <2>2, MarketShape
    <3>2. market.week[b] # Missing /\ b # Missing
      BY <1>1, <3>1, MissingAssumption
    <3>3. /\ runtime.week = market.week[b]
          /\ runtime.weekClose = market.close[program.anchor][b]
          /\ runtime.completed = CompletedClose(market, program.anchor, b)
      BY <2>2 DEF WeekOf
    <3>4. QED
      BY <1>1, <1>2, <3>1, <3>2, <3>3, WeekRolls DEF CompletedClose
  <2>3. QED
    BY <2>1, <2>2
<1>4. b + 1 # 0 /\ UNCHANGED <<program, market>>
  BY <1>1
<1> HIDE DEF b
<1>5. QED
  BY <1>2, <1>3, <1>4 DEF WeekOf

(* What the weekly fields say is not disturbed by other assignments.        *)
LEMMA WeekUntouched ==
  ASSUME NEW c, NEW d, WeekOf(c), d.boundary = c.boundary, d.week = c.week,
         d.weekClose = c.weekClose, d.completed = c.completed
  PROVE  WeekOf(d)
BY DEF WeekOf

LEMMA FreshWeek == WeekOf(Fresh(program))
BY DEF WeekOf, Fresh

-----------------------------------------------------------------------------
(* Values and conditions.                                                  *)

LEMMA ValueMeans ==
  ASSUME RuntimeTypeOK, visit > 0, WeekOf(runtime), NEW d, NEW v \in Values,
         v.kind = "completed_weekly_price" => v.asset = program.anchor /\ Multiclock(program)
  PROVE  Reference!ValueAt(market, v, ResultOf(runtime, d), runtime.boundary) = ValueOf(v)
<1>1. v.kind \in {"current_price", "literal", "remembered", "bars_since_event",
                  "completed_weekly_price"}
  BY DEF Values
<1>2. runtime.boundary # 0
  BY DEF RuntimeTypeOK, PositionTypeOK
<1>3. CASE v.kind = "completed_weekly_price"
  <2>1. runtime.completed = CompletedClose(market, v.asset, runtime.boundary)
    BY <1>2, <1>3 DEF WeekOf
  <2>2. QED
    BY <1>3, <2>1 DEF Reference!ValueAt, ValueOf, CompletedClose
<1>4. CASE v.kind # "completed_weekly_price"
  BY <1>1, <1>4 DEF Reference!ValueAt, ValueOf, BarsSince, ResultOf
<1>5. QED
  BY <1>3, <1>4

LEMMA ComparisonMeans ==
  ASSUME RuntimeTypeOK, visit > 0, WeekOf(runtime), AnchoredWeeks, NEW d,
         NEW i \in EventsOf(program)
  PROVE  Reference!ComparisonHolds(market, program.events[i], ResultOf(runtime, d),
                                   runtime.boundary)
           = ComparisonTruth(program.events[i])
<1> DEFINE e == program.events[i]
<1>1. e.left \in Values /\ e.right \in Values
  BY ProgramShape DEF RuntimeTypeOK, FieldsTypeOK, Events
<1>2. e.left \in ValuesOf(program) /\ e.right \in ValuesOf(program)
  BY DEF ValuesOf
<1>3. program \in Programs
  BY DEF RuntimeTypeOK, FieldsTypeOK
<1>4. /\ Reference!ValueAt(market, e.left, ResultOf(runtime, d), runtime.boundary)
           = ValueOf(e.left)
      /\ Reference!ValueAt(market, e.right, ResultOf(runtime, d), runtime.boundary)
           = ValueOf(e.right)
  BY <1>1, <1>2, <1>3, ValueMeans DEF AnchoredWeeks
<1> DEFINE l == ValueOf(e.left)
           n == ValueOf(e.right)
<1>5. Reference!ComparisonHolds(market, e, ResultOf(runtime, d), runtime.boundary)
        = CASE Missing \in {l, n} -> "unknown"
            [] Missing \notin {l, n} /\ Compares(e.operator, l, n) -> "true"
            [] OTHER -> "false"
  BY <1>4 DEF Reference!ComparisonHolds
<1>6. ComparisonTruth(e) = IF l = Missing \/ n = Missing THEN "unknown"
                           ELSE IF Compares(e.operator, l, n) THEN "true" ELSE "false"
  BY DEF ComparisonTruth, Truth
<1> HIDE DEF l, n, e
<1>7. QED
  BY <1>5, <1>6 DEF e

LEMMA GuardMeans ==
  ASSUME NEW e, NEW d
  PROVE  Reference!GuardHolds(e, ResultOf(runtime, d)) = StateTruth(e)
BY DEF Reference!GuardHolds, StateTruth, Truth, ResultOf

(* Only in the session in which it opens is a window open for the          *)
(* evaluator and not for the algorithm.                                    *)
LEMMA WindowMeans ==
  ASSUME RuntimeTypeOK, visit > 0, NEW d, NEW i \in EventsOf(program)
  PROVE  LET e == program.events[i]
         IN  \/ Reference!WindowHolds(e, ResultOf(runtime, d), runtime.boundary)
                  = WindowTruth(e)
             \/ /\ e.window # Missing
                /\ runtime.cutoffs[e.window.event] = runtime.boundary
                /\ WindowTruth(e) = "false"
                /\ Reference!WindowHolds(e, ResultOf(runtime, d), runtime.boundary) = "true"
<1> DEFINE e == program.events[i]
           cutoff == runtime.cutoffs[e.window.event]
           b == runtime.boundary
<1>1. CASE e.window = Missing
  BY <1>1 DEF Reference!WindowHolds, WindowTruth
<1>2. CASE e.window # Missing
  <2>1. e.window \in [event : Nat, within : Nat] /\ ReferencesResolve(program)
        /\ program \in Programs /\ market \in Markets
        /\ runtime \in RuntimeRecords(program)
    BY <1>2, ProgramShape, ProgramsAssumption DEF RuntimeTypeOK, FieldsTypeOK, Events, Optional
  <2>2. e.window.within \in Nat /\ e.window.event \in EventsOf(program)
    BY <1>2, <2>1 DEF ReferencesResolve
  <2>3. cutoff \in Optional(Sessions(market)) /\ b \in Nat
    BY <2>1, <2>2, MarketShape DEF RuntimeRecords
  <2>4. CASE cutoff = Missing
    BY <1>2, <2>4 DEF Reference!WindowHolds, WindowTruth, ResultOf
  <2>5. CASE cutoff # Missing
    <3>1. cutoff \in Nat
      BY <2>1, <2>3, <2>5, MarketShape DEF Optional
    <3>2. WindowTruth(e) = IF b > cutoff /\ b - cutoff <= e.window.within
                           THEN "true" ELSE "false"
      BY <1>2, <2>5 DEF WindowTruth, Truth
    <3>3. Reference!WindowHolds(e, ResultOf(runtime, d), b)
            = IF b - cutoff \in 0..e.window.within THEN "true" ELSE "false"
      BY <1>2, <2>5 DEF Reference!WindowHolds, ResultOf
    <3>4. QED
      BY <1>2, <2>2, <2>3, <3>1, <3>2, <3>3
  <2>6. QED
    BY <2>4, <2>5
<1>3. QED
  BY <1>1, <1>2

LEMMA ConditionMeans ==
  ASSUME RuntimeTypeOK, WeekOf(runtime), AnchoredWeeks, WindowsOpenLater, NEW d,
         visit \in EventsOf(program), act = 0
  PROVE  Reference!ConditionHolds(market, program.events[visit], ResultOf(runtime, d),
                                  runtime.boundary)
           = ConditionTruth(program.events[visit])
<1> DEFINE e == program.events[visit]
           r == ResultOf(runtime, d)
           b == runtime.boundary
<1>1. visit > 0
  BY ProgramShape DEF RuntimeTypeOK, FieldsTypeOK
<1>2. /\ Reference!ComparisonHolds(market, e, r, b) = ComparisonTruth(e)
      /\ Reference!GuardHolds(e, r) = StateTruth(e)
  BY <1>1, ComparisonMeans, GuardMeans
<1>3. \/ Reference!WindowHolds(e, r, b) = WindowTruth(e)
      \/ /\ "false" \in {ComparisonTruth(e), StateTruth(e)}
         /\ WindowTruth(e) = "false"
         /\ Reference!WindowHolds(e, r, b) = "true"
  BY <1>1, WindowMeans DEF WindowsOpenLater
<1>4. /\ ComparisonTruth(e) \in Truths /\ StateTruth(e) \in Truths
      /\ WindowTruth(e) \in Truths
  BY DEF ComparisonTruth, StateTruth, WindowTruth, Truth, Truths
<1>5. QED
  BY <1>2, <1>3, <1>4 DEF Reference!ConditionHolds, ConditionTruth, AllTruth, Truths

-----------------------------------------------------------------------------
(* Within a session.                                                       *)

(* The result a session starts from.                                       *)
Before(k) == IF k = 1 THEN Reference!NoResult(program) ELSE Logged[k - 1]

(* The evaluator's result before the i-th event, and what it makes of it.   *)
Standing(i) ==
  Reference!Visited(program, market, Before(runtime.boundary), runtime.boundary)[i - 1]

Due(i) == Reference!Observed(program, market, i, Standing(i), runtime.boundary)

(* The fields of the algorithm in the terms of the evaluator, which keeps  *)
(* the decision of the session before until the next one.                  *)
Current == ResultOf(runtime, Before(runtime.boundary).decision)

(* At every statement of a session the fields are what the evaluator has    *)
(* there; between sessions they are a logged checkpoint, or none.           *)
InStep ==
  /\ visit = 0 => \/ runtime = Fresh(program)
                  \/ /\ runtime.boundary \in DOMAIN emitted
                     /\ runtime = emitted[runtime.boundary].checkpoint
  /\ visit > 0 => runtime.boundary = 1 \/ runtime.boundary - 1 \in DOMAIN emitted
  /\ visit > 0 /\ act = 0 => Current = Standing(visit)
  /\ visit > 0 /\ act # 0 =>
       /\ Due(visit).triggered
       /\ Current = Reference!Performed(market, program.events[visit], Due(visit).result,
                                        runtime.boundary)[act - 1]

LogInv ==
  /\ \E n \in Nat : DOMAIN emitted = 1..n
  /\ \A k \in DOMAIN emitted :
       /\ Logged[k] = Reference!Execute(program, market, Before(k), k)
       /\ WeekOf(emitted[k].checkpoint)

ReferenceInv == WeekOf(runtime) /\ LogInv /\ InStep

LEMMA LogKept ==
  ASSUME LogInv, UNCHANGED <<program, market, emitted>>
  PROVE  LogInv' /\ Logged' = Logged /\ \A k : Before(k)' = Before(k)
<1>1. Logged' = Logged
  BY DEF Logged
<1>2. \A k : Before(k)' = Before(k)
  BY <1>1 DEF Before
<1>3. ASSUME NEW c, WeekOf(c) PROVE WeekOf(c)'
  BY <1>3 DEF WeekOf
<1>4. LogInv'
  BY <1>1, <1>2, <1>3 DEF LogInv
<1>5. QED
  BY <1>1, <1>2, <1>4

LEMMA SameSession ==
  ASSUME LogInv, UNCHANGED <<program, market, emitted>>, runtime'.boundary = runtime.boundary
  PROVE  /\ Before(runtime.boundary)' = Before(runtime.boundary)
         /\ \A i : Standing(i)' = Standing(i)
         /\ \A i : Due(i)' = Due(i)
<1>1. Before(runtime.boundary)' = Before(runtime.boundary)
  BY LogKept DEF Before
<1>2. \A i : Standing(i)' = Standing(i)
  BY <1>1 DEF Standing
<1>3. \A i : Due(i)' = Due(i)
  BY <1>2 DEF Due
<1>4. QED
  BY <1>1, <1>2, <1>3

(* After an event the next one is up.                                       *)
LEMMA EventDone ==
  ASSUME RuntimeTypeOK, LogInv, InStep, UNCHANGED <<program, market, emitted>>,
         runtime'.boundary = runtime.boundary, visit \in EventsOf(program),
         visit' = visit + 1, act' = 0,
         Current' = Reference!Visit(program, market, visit, Standing(visit), runtime.boundary)
  PROVE  InStep'
<1> DEFINE b == runtime.boundary
           before == Before(b)
<1>1. visit \in 1..Len(program.events) /\ Len(program.events) \in Nat
  BY ProgramShape DEF RuntimeTypeOK, FieldsTypeOK
<1>2. runtime'.boundary = 1 \/ runtime'.boundary - 1 \in DOMAIN emitted'
  BY <1>1 DEF InStep
<1>3. Reference!Visited(program, market, before, b)[visit]
        = Reference!Visit(program, market, visit, Standing(visit), b)
  BY <1>1, VisitedSteps DEF Standing
<1>4. Standing(visit)' = Reference!Visited(program, market, before, b)[visit]
  BY <1>1, SameSession DEF Standing
<1>5. QED
  BY <1>1, <1>2, <1>3, <1>4 DEF InStep

(* After the last action of an event that is due, the next event is up.     *)
LEMMA NextUp ==
  ASSUME RuntimeTypeOK, LogInv, InStep, UNCHANGED <<program, market, emitted>>,
         runtime'.boundary = runtime.boundary, visit \in EventsOf(program),
         NEW k \in Nat \ {0}, k <= Len(program.events[visit].actions) + 1, Proceed(k),
         Due(visit).triggered,
         Current' = Reference!Performed(market, program.events[visit], Due(visit).result,
                                        runtime.boundary)[k - 1]
  PROVE  InStep'
<1> DEFINE e == program.events[visit]
           b == runtime.boundary
<1>1. /\ visit \in 1..Len(program.events) /\ Len(program.events) \in Nat
      /\ Len(e.actions) \in Nat
  BY ProgramShape DEF RuntimeTypeOK, FieldsTypeOK
<1>2. CASE k <= Len(e.actions)
  <2>1. act' = k /\ visit' = visit
    BY <1>2 DEF Proceed
  <2>2. runtime'.boundary = 1 \/ runtime'.boundary - 1 \in DOMAIN emitted'
    BY <1>1 DEF InStep
  <2>3. Due(visit)' = Due(visit)
    BY <2>1, SameSession DEF Due, Standing
  <2>4. QED
    BY <1>1, <2>1, <2>2, <2>3 DEF InStep
<1>3. CASE k = Len(e.actions) + 1
  <2>1. act' = 0 /\ visit' = visit + 1 /\ k - 1 = Len(e.actions)
    <3>1. ~(k <= Len(e.actions)) /\ k - 1 = Len(e.actions)
      BY <1>1, <1>3
    <3>2. QED
      BY <3>1 DEF Proceed
  <2>2. Current' = Reference!Visit(program, market, visit, Standing(visit), b)
    BY <2>1 DEF Reference!Visit, Due
  <2>3. QED
    BY <2>1, <2>2, EventDone
<1>4. QED
  BY <1>1, <1>2, <1>3

LEMMA NextBarInStep ==
  ASSUME RuntimeTypeOK, ReferenceInv, NextBar
  PROVE  ReferenceInv'
<1> DEFINE b == runtime.boundary
<1>1. /\ program \in Programs
      /\ runtime \in RuntimeRecords(program)
      /\ b \in Nat
      /\ visit = 0 /\ act = 0 /\ visit' = 1 /\ act' = 0
      /\ UNCHANGED <<program, market, emitted>>
  BY MarketShape, ProgramShape DEF RuntimeTypeOK, FieldsTypeOK, PositionTypeOK,
       RuntimeRecords, NextBar
<1>2. /\ runtime'.boundary = b + 1
      /\ \A d : ResultOf(runtime', d) = ResultOf(runtime, d)
  BY <1>1 DEF NextBar, RollWeek, RuntimeRecords, ResultOf
<1>3. LogInv' /\ Logged' = Logged
  BY <1>1, LogKept DEF ReferenceInv
<1>4. Before(runtime.boundary)' = IF b = 0 THEN Reference!NoResult(program) ELSE Logged[b]
  BY <1>1, <1>2, <1>3 DEF Before
<1>5. /\ Current' = Before(runtime.boundary)'
      /\ b = 0 \/ b \in DOMAIN emitted
  <2>1. CASE runtime = Fresh(program)
    <3>1. b = 0
      BY <2>1 DEF Fresh
    <3>2. ResultOf(runtime, Retain) = Reference!NoResult(program)
      <4>1. /\ runtime.state = program.initial
            /\ runtime.entered = [k \in Keys |-> Missing]
            /\ runtime.truths = [i \in EventsOf(program) |-> "false"]
            /\ runtime.counts = [i \in EventsOf(program) |-> 0]
            /\ runtime.cutoffs = [i \in EventsOf(program) |-> Missing]
            /\ runtime.memory = [m \in Memories |-> Missing]
        BY <2>1, Zenon DEF Fresh
      <4>2. QED
        BY <4>1, Zenon DEF ResultOf, Reference!NoResult, EventsOf, Reference!EventsOf
    <3>3. Reference!NoResult(program).decision = Retain
      BY DEF Reference!NoResult
    <3>4. QED
      BY <1>2, <1>4, <3>1, <3>2, <3>3 DEF Current
  <2>2. CASE b \in DOMAIN emitted /\ runtime = emitted[b].checkpoint
    <3>1. b # 0
      BY <2>2 DEF ReferenceInv, LogInv
    <3>2. Logged[b] = ResultOf(runtime, emitted[b].decision)
      BY <2>2 DEF Logged
    <3>3. Logged[b].decision = emitted[b].decision
      BY <3>2 DEF ResultOf
    <3>4. QED
      BY <1>2, <1>4, <2>2, <3>1, <3>2, <3>3 DEF Current
  <2>3. QED
    BY <1>1, <2>1, <2>2 DEF ReferenceInv, InStep
<1>6. Standing(visit)' = Before(runtime.boundary)'
  <2>1. Len(program.events) \in Nat
    BY <1>1, ProgramShape
  <2>2. Standing(visit)'
          = Reference!Visited(program, market, Before(runtime.boundary)', b + 1)[0]
    BY <1>1, <1>2 DEF Standing
  <2>3. QED
    BY <2>1, <2>2, VisitedSteps
<1>7. InStep'
  <2>1. runtime'.boundary = 1 \/ runtime'.boundary - 1 \in DOMAIN emitted'
    BY <1>1, <1>2, <1>5
  <2>2. QED
    BY <1>1, <1>5, <1>6, <2>1 DEF InStep
<1>8. WeekOf(runtime)'
  BY WeekNextBar DEF ReferenceInv
<1>9. QED
  BY <1>3, <1>7, <1>8 DEF ReferenceInv

LEMMA OccursMeans ==
  ASSUME NEW trigger \in Triggers, NEW truth, NEW previous
  PROVE  Reference!Occurred(trigger, truth, previous) = Occurs(trigger, truth, previous)
BY DEF Triggers, Reference!Occurred, Occurs

(* What the algorithm notes of an event is what the evaluator notes.        *)
LEMMA EventMeans ==
  ASSUME RuntimeTypeOK, ReferenceInv, AnchoredWeeks, WindowsOpenLater, EvaluateEvent
  PROVE  /\ Current' = Due(visit).result
         /\ runtime'.boundary = runtime.boundary
         /\ WeekOf(runtime)'
         /\ IF Due(visit).triggered THEN Proceed(1) ELSE act' = 0 /\ visit' = visit + 1
<1> DEFINE e == program.events[visit]
           b == runtime.boundary
           d == Before(b).decision
           r == ResultOf(runtime, d)
           truth == ConditionTruth(e)
           occurs == Occurs(e.trigger, truth, runtime.truths[visit])
           count == runtime.counts[visit] + 1
           triggered == occurs /\ (e.occurrence = "first" => count = 1)
<1>1. /\ runtime \in RuntimeRecords(program)
      /\ visit \in EventsOf(program) /\ visit > 0 /\ act = 0
      /\ e.trigger \in Triggers
      /\ UNCHANGED <<program, market, emitted>>
  BY ProgramShape DEF RuntimeTypeOK, FieldsTypeOK, EvaluateEvent, Events
<1>2. /\ runtime' = [runtime EXCEPT
            !.truths[visit] = truth,
            !.counts[visit] = IF occurs THEN count ELSE @,
            !.cutoffs[visit] = IF triggered THEN b ELSE @]
      /\ IF triggered THEN Proceed(1) ELSE act' = 0 /\ visit' = visit + 1
  BY DEF EvaluateEvent
<1>3. Standing(visit) = r
  BY <1>1 DEF ReferenceInv, InStep, Current
<1>4. Reference!ConditionHolds(market, e, r, b) = truth
  BY <1>1, ConditionMeans DEF ReferenceInv
<1>5. Reference!Occurred(e.trigger, truth, runtime.truths[visit]) = occurs
  BY <1>1, OccursMeans
<1>6. /\ r.truths = runtime.truths /\ r.counts = runtime.counts /\ r.cutoffs = runtime.cutoffs
  BY DEF ResultOf
<1>7. runtime.counts[visit] \in Nat
  BY <1>1 DEF RuntimeRecords
<1> DEFINE n == runtime.counts[visit] + (IF occurs THEN 1 ELSE 0)
           t == occurs /\ (e.occurrence = "first" => n = 1)
           noted == [r EXCEPT !.truths[visit] = truth, !.counts[visit] = n,
                              !.cutoffs[visit] = IF t THEN b ELSE @]
<1>8. Due(visit) = [triggered |-> t, result |-> noted]
  BY <1>3, <1>4, <1>5, <1>6 DEF Due, Reference!Observed
<1>9. n = (IF occurs THEN count ELSE runtime.counts[visit]) /\ (t <=> triggered)
  <2>1. CASE occurs
    BY <2>1
  <2>2. CASE ~occurs
    BY <1>7, <2>2
  <2>3. QED
    BY <2>1, <2>2
<1> HIDE DEF truth, occurs, e, d, r, n, t, noted, triggered, count
<1>10. /\ Due(visit).triggered <=> triggered
       /\ Due(visit).result
            = [r EXCEPT !.truths[visit] = truth,
                        !.counts[visit] = IF occurs THEN count ELSE runtime.counts[visit],
                        !.cutoffs[visit] = IF triggered THEN b ELSE @]
  <2>1. Due(visit).triggered = t /\ Due(visit).result = noted
    BY <1>8
  <2>2. (IF t THEN b ELSE r.cutoffs[visit]) = (IF triggered THEN b ELSE r.cutoffs[visit])
    BY <1>9
  <2>3. QED
    BY <1>9, <2>1, <2>2 DEF noted
<1>11. Due(visit).result = ResultOf(runtime', d)
  <2>1. /\ runtime'.truths = [runtime.truths EXCEPT ![visit] = truth]
        /\ runtime'.counts = [runtime.counts EXCEPT
                                ![visit] = IF occurs THEN count ELSE runtime.counts[visit]]
        /\ runtime'.cutoffs = [runtime.cutoffs EXCEPT ![visit] = IF triggered THEN b ELSE @]
    BY <1>1, <1>2 DEF RuntimeRecords
  <2>2. /\ runtime'.state = runtime.state /\ runtime'.entered = runtime.entered
        /\ runtime'.memory = runtime.memory
    BY <1>1, <1>2 DEF RuntimeRecords
  <2>3. QED
    BY <1>10, <2>1, <2>2 DEF r, ResultOf
<1>12. /\ runtime'.boundary = b /\ runtime'.week = runtime.week
       /\ runtime'.weekClose = runtime.weekClose /\ runtime'.completed = runtime.completed
  BY <1>1, <1>2 DEF RuntimeRecords
<1>13. Current' = ResultOf(runtime', d)
  BY <1>1, <1>12, SameSession DEF Current, d, ReferenceInv
<1>14. WeekOf(runtime)'
  <2>1. WeekOf(runtime')
    BY <1>12, WeekUntouched DEF ReferenceInv
  <2>2. QED
    BY <1>1, <2>1 DEF WeekOf
<1>15. QED
  BY <1>2, <1>10, <1>11, <1>12, <1>13, <1>14

LEMMA EventInStep ==
  ASSUME RuntimeTypeOK, ReferenceInv, AnchoredWeeks, WindowsOpenLater, EvaluateEvent
  PROVE  ReferenceInv'
<1> DEFINE e == program.events[visit]
           b == runtime.boundary
<1>1. /\ visit \in EventsOf(program)
      /\ Len(e.actions) \in Nat
      /\ UNCHANGED <<program, market, emitted>>
      /\ LogInv /\ InStep
  BY ProgramShape DEF RuntimeTypeOK, FieldsTypeOK, EvaluateEvent, ReferenceInv
<1>2. /\ Current' = Due(visit).result
      /\ runtime'.boundary = b
      /\ WeekOf(runtime)'
      /\ IF Due(visit).triggered THEN Proceed(1) ELSE act' = 0 /\ visit' = visit + 1
  BY EventMeans
<1>3. CASE Due(visit).triggered
  <2>1. Current' = Reference!Performed(market, e, Due(visit).result, b)[1 - 1]
    BY <1>1, <1>2, PerformedSteps
  <2>2. InStep'
    BY <1>1, <1>2, <1>3, <2>1, NextUp
  <2>3. QED
    BY <1>1, <1>2, <2>2, LogKept DEF ReferenceInv
<1>4. CASE ~Due(visit).triggered
  <2>1. Current' = Reference!Visit(program, market, visit, Standing(visit), b)
    BY <1>2, <1>4 DEF Reference!Visit, Due
  <2>2. InStep'
    BY <1>1, <1>2, <1>4, <2>1, EventDone
  <2>3. QED
    BY <1>1, <1>2, <2>2, LogKept DEF ReferenceInv
<1>5. QED
  BY <1>3, <1>4

(* An action that the algorithm performs as the evaluator does.             *)
LEMMA ActionInStep ==
  ASSUME RuntimeTypeOK, ReferenceInv, NEW kind, Performing(kind),
         \A d : ResultOf(runtime', d)
                  = Reference!Perform(market, program.events[visit].actions[act],
                                      ResultOf(runtime, d), runtime.boundary),
         runtime'.boundary = runtime.boundary, runtime'.week = runtime.week,
         runtime'.weekClose = runtime.weekClose, runtime'.completed = runtime.completed
  PROVE  ReferenceInv'
<1> DEFINE e == program.events[visit]
           b == runtime.boundary
           chain == Reference!Performed(market, e, Due(visit).result, b)
<1>1. /\ visit \in EventsOf(program) /\ visit > 0
      /\ Len(e.actions) \in Nat
      /\ act \in 1..Len(e.actions)
      /\ Proceed(act + 1)
      /\ UNCHANGED <<program, market, emitted>>
      /\ LogInv /\ InStep /\ WeekOf(runtime)
  BY ProgramShape DEF RuntimeTypeOK, FieldsTypeOK, Performing, ReferenceInv
<1>2. Due(visit).triggered /\ Current = chain[act - 1]
  BY <1>1 DEF InStep
<1>3. Current' = Reference!Perform(market, e.actions[act], Current, b)
  BY <1>1, SameSession DEF Current
<1>4. chain[act] = Reference!Perform(market, e.actions[act], chain[act - 1], b)
  BY <1>1, PerformedSteps
<1>5. Current' = chain[(act + 1) - 1]
  BY <1>1, <1>2, <1>3, <1>4
<1>6. act + 1 \in Nat \ {0} /\ act + 1 <= Len(e.actions) + 1
  BY <1>1
<1>7. InStep'
  BY <1>1, <1>2, <1>5, <1>6, NextUp
<1>8. WeekOf(runtime)'
  <2>1. WeekOf(runtime')
    BY <1>1, WeekUntouched
  <2>2. QED
    BY <1>1, <2>1 DEF WeekOf
<1>9. QED
  BY <1>1, <1>7, <1>8, LogKept DEF ReferenceInv

LEMMA RememberInStep ==
  ASSUME RuntimeTypeOK, ReferenceInv, AnchoredWeeks, Remember
  PROVE  ReferenceInv'
<1> DEFINE a == program.events[visit].actions[act]
           value == ValueOf(a.value)
<1>1. /\ runtime \in RuntimeRecords(program)
      /\ program \in Programs
      /\ visit \in EventsOf(program) /\ visit > 0
      /\ act \in DOMAIN program.events[visit].actions
      /\ a \in Actions
      /\ Performing("remember") /\ a.kind = "remember"
  BY ProgramShape DEF RuntimeTypeOK, FieldsTypeOK, Remember, Performing
<1>2. a.memory \in Memories /\ a.value \in Values
  BY <1>1 DEF Actions
<1>3. a.value \in ValuesOf(program)
  BY <1>1 DEF ValuesOf
<1>4. \A d : Reference!ValueAt(market, a.value, ResultOf(runtime, d), runtime.boundary) = value
  BY <1>1, <1>2, <1>3, ValueMeans DEF AnchoredWeeks, ReferenceInv
<1>5. runtime' = IF value = Missing THEN runtime
                 ELSE [runtime EXCEPT !.memory[a.memory] = value,
                                      !.captures[a.memory] = runtime.boundary]
  BY DEF Remember
<1> HIDE DEF a, value
<1>6. ASSUME NEW d
      PROVE  ResultOf(runtime', d)
               = Reference!Perform(market, a, ResultOf(runtime, d), runtime.boundary)
  BY <1>1, <1>2, <1>4, <1>5 DEF Reference!Perform, ResultOf, RuntimeRecords
<1>7. /\ runtime'.boundary = runtime.boundary /\ runtime'.week = runtime.week
      /\ runtime'.weekClose = runtime.weekClose /\ runtime'.completed = runtime.completed
  BY <1>1, <1>5 DEF RuntimeRecords
<1>8. QED
  BY <1>1, <1>6, <1>7, ActionInStep DEF a

LEMMA TransitionInStep ==
  ASSUME RuntimeTypeOK, ReferenceInv, MovingTransitions, Transition
  PROVE  ReferenceInv'
<1> DEFINE a == program.events[visit].actions[act]
<1>1. /\ runtime \in RuntimeRecords(program)
      /\ program \in Programs
      /\ visit \in EventsOf(program)
      /\ act \in DOMAIN program.events[visit].actions
      /\ a \in Actions
      /\ Performing("transition") /\ a.kind = "transition"
  BY ProgramShape DEF RuntimeTypeOK, FieldsTypeOK, Transition, Performing
<1>2. a.key \in Keys /\ a.from # a.to
  BY <1>1 DEF Actions, MovingTransitions
<1>3. runtime' = IF runtime.state[a.key] # a.from THEN runtime
                 ELSE [runtime EXCEPT !.state[a.key] = a.to,
                                      !.entered[a.key] = runtime.boundary]
  BY DEF Transition
<1> HIDE DEF a
<1>4. ASSUME NEW d
      PROVE  ResultOf(runtime', d)
               = Reference!Perform(market, a, ResultOf(runtime, d), runtime.boundary)
  BY <1>1, <1>2, <1>3 DEF Reference!Perform, ResultOf, RuntimeRecords
<1>5. /\ runtime'.boundary = runtime.boundary /\ runtime'.week = runtime.week
      /\ runtime'.weekClose = runtime.weekClose /\ runtime'.completed = runtime.completed
  BY <1>1, <1>3 DEF RuntimeRecords
<1>6. QED
  BY <1>1, <1>4, <1>5, ActionInStep DEF a

LEMMA StartInStep ==
  ASSUME RuntimeTypeOK, ReferenceInv, NEW c \in RuntimeRecords(program), Start(c), WeekOf(c),
         \/ c = Fresh(program)
         \/ c.boundary \in DOMAIN emitted /\ c = emitted[c.boundary].checkpoint
  PROVE  ReferenceInv'
<1>1. /\ runtime' = c /\ visit' = 0
      /\ UNCHANGED <<program, market, emitted>>
  BY ImportIsWhole DEF Start
<1>2. InStep'
  BY <1>1 DEF InStep
<1>3. WeekOf(runtime)'
  BY <1>1 DEF WeekOf
<1>4. QED
  BY <1>1, <1>2, <1>3, LogKept DEF ReferenceInv

LEMMA RestartInStep ==
  ASSUME RuntimeTypeOK, ReferenceInv, Restart
  PROVE  ReferenceInv'
<1>1. CASE Start(Fresh(program))
  BY <1>1, FreshType, FreshWeek, StartInStep DEF RuntimeTypeOK, FieldsTypeOK
<1>2. ASSUME NEW k \in DOMAIN emitted, Start(emitted[k].checkpoint)
      PROVE  ReferenceInv'
  <2>1. /\ emitted[k].checkpoint \in RuntimeRecords(program)
        /\ emitted[k].checkpoint.boundary = k
        /\ WeekOf(emitted[k].checkpoint)
    BY DEF RuntimeTypeOK, LogTypeOK, ReferenceInv, LogInv
  <2>2. QED
    BY <1>2, <2>1, StartInStep
<1>3. QED
  BY <1>1, <1>2 DEF Restart

(* The first override that matches is the one of the highest priority.      *)
LEMMA DecisionMeans ==
  ASSUME program \in Programs, NEW d, Policy(d), NEW r, r.state = runtime.state
  PROVE  Reference!Decision(program, r) = d
<1> DEFINE overrides == program.overrides
           holding == {j \in DOMAIN overrides : r.state[overrides[j].key] = overrides[j].value}
<1>1. \E n \in Nat : DOMAIN overrides = 1..n
  <2>1. overrides \in Seq([key : Keys, value : Phases, target : Targets])
    BY ProgramShape DEF ProgramRecords
  <2>2. Len(overrides) \in Nat /\ DOMAIN overrides = 1..Len(overrides)
    BY <2>1
  <2>3. QED
    BY <2>2
<1>2. holding = {j \in DOMAIN overrides : Matches(j)}
  BY DEF Matches
<1>3. Reference!Decision(program, r)
        = IF holding = {} THEN program.primary
          ELSE overrides[CHOOSE j \in holding : \A k \in holding : j <= k].target
  BY DEF Reference!Decision
<1> HIDE DEF holding
<1>4. ASSUME NEW j \in DOMAIN overrides, Matches(j), \A k \in 1..(j - 1) : ~Matches(k),
             d = overrides[j].target
      PROVE  Reference!Decision(program, r) = d
  <2>1. j \in holding /\ holding \subseteq Int
    BY <1>1, <1>2, <1>4
  <2>2. \A k \in holding : j <= k
    BY <1>1, <1>2, <1>4
  <2>3. \A i \in holding : (\A k \in holding : i <= k) => i = j
    BY <2>1, <2>2
  <2>4. (CHOOSE i \in holding : \A k \in holding : i <= k) = j
    BY <2>1, <2>2, <2>3
  <2>5. QED
    BY <1>3, <1>4, <2>1, <2>4
<1>5. ASSUME \A j \in DOMAIN overrides : ~Matches(j), d = program.primary
      PROVE  Reference!Decision(program, r) = d
  BY <1>2, <1>3, <1>5
<1>6. QED
  BY <1>4, <1>5 DEF Policy

(* A decision logs the next session, or one again that was logged before.   *)
LEMMA DecideLogs ==
  ASSUME RuntimeTypeOK, ReferenceInv, Decide
  PROVE  /\ runtime.boundary \in Sessions(market)
         /\ UNCHANGED <<program, market>>
         /\ visit' = 0
         /\ WeekOf(runtime')
         /\ runtime'.boundary = runtime.boundary
         /\ \E d : /\ ResultOf(runtime', d) = Reference!Execute(program, market,
                                                Before(runtime.boundary), runtime.boundary)
                   /\ Emit([checkpoint |-> runtime', decision |-> d])
<1> DEFINE b == runtime.boundary
           N == Len(program.events)
           last == Reference!Visited(program, market, Before(b), b)[N]
           ordered(d) == d \notin {Retain, runtime.target}
<1>1. /\ runtime \in RuntimeRecords(program)
      /\ program \in Programs
      /\ N \in Nat
      /\ visit = N + 1 /\ visit > 0 /\ visit \notin EventsOf(program) /\ act = 0
      /\ visit' = 0
      /\ UNCHANGED <<program, market>>
      /\ InStep /\ WeekOf(runtime)
  BY ProgramShape DEF RuntimeTypeOK, FieldsTypeOK, PositionTypeOK, Decide, ReferenceInv
<1>2. b \in Sessions(market)
  BY <1>1 DEF RuntimeTypeOK, PositionTypeOK, RuntimeRecords
<1>3. Current = last
  BY <1>1 DEF InStep, Standing
<1>4. PICK d \in Targets :
        /\ Policy(d)
        /\ runtime' = [runtime EXCEPT !.target = IF ordered(d) THEN d ELSE @]
        /\ Emit([checkpoint |-> runtime', decision |-> d])
  BY DEF Decide
<1>5. last.state = runtime.state
  BY <1>3 DEF Current, ResultOf
<1>6. Reference!Decision(program, last) = d
  BY <1>1, <1>4, <1>5, DecisionMeans
<1>7. Reference!Execute(program, market, Before(b), b) = [last EXCEPT !.decision = d]
  BY <1>6 DEF Reference!Execute
<1>8. [last EXCEPT !.decision = d] = ResultOf(runtime, d)
  BY <1>3 DEF Current, ResultOf
<1> HIDE DEF ordered
<1>9. /\ ResultOf(runtime', d) = ResultOf(runtime, d)
      /\ runtime'.boundary = b /\ runtime'.week = runtime.week
      /\ runtime'.weekClose = runtime.weekClose /\ runtime'.completed = runtime.completed
  BY <1>1, <1>4 DEF RuntimeRecords, ResultOf
<1>10. WeekOf(runtime')
  BY <1>1, <1>9, WeekUntouched
<1>11. QED
  BY <1>1, <1>2, <1>4, <1>7, <1>8, <1>9, <1>10

(* An appended element stands behind the others.                           *)
LEMMA Appended ==
  ASSUME NEW S, NEW s \in Seq(S), NEW x \in S
  PROVE  LET longer == Append(s, x)
         IN  /\ longer = [k \in 1..(Len(s) + 1) |-> longer[k]]
             /\ \A k \in 1..Len(s) : longer[k] = s[k]
             /\ longer[Len(s) + 1] = x
<1> DEFINE longer == Append(s, x)
<1>1. longer \in Seq(S) /\ Len(longer) = Len(s) + 1
  OBVIOUS
<1>2. \A k \in 1..Len(s) : longer[k] = s[k]
  OBVIOUS
<1>3. longer[Len(s) + 1] = x
  OBVIOUS
<1> HIDE DEF longer
<1>4. longer = [k \in 1..Len(longer) |-> longer[k]]
  BY <1>1
<1>5. QED
  BY <1>1, <1>2, <1>3, <1>4 DEF longer

LEMMA LogExtends ==
  ASSUME RuntimeTypeOK, ReferenceInv, Decide
  PROVE  ReferenceInv' /\ (UNCHANGED <<program, market, Logged>> \/ Reference!ExecuteSession)
<1> DEFINE b == runtime.boundary
<1>1. /\ b \in Sessions(market) /\ b \in Nat /\ b > 0
      /\ UNCHANGED <<program, market>>
      /\ visit' = 0
      /\ WeekOf(runtime')
      /\ runtime'.boundary = b
      /\ LogInv
      /\ b = 1 \/ b - 1 \in DOMAIN emitted
  <2>1. b \in Sessions(market) /\ Sessions(market) \subseteq Nat \ {0}
    BY DecideLogs, MarketShape DEF RuntimeTypeOK, FieldsTypeOK
  <2>2. visit > 0
    BY ProgramShape DEF Decide, RuntimeTypeOK, FieldsTypeOK
  <2>3. QED
    BY <2>1, <2>2, DecideLogs DEF ReferenceInv, InStep
<1> DEFINE session == Reference!Execute(program, market, Before(b), b)
<1>2. PICK d : ResultOf(runtime', d) = session /\ Emit([checkpoint |-> runtime', decision |-> d])
  BY DecideLogs
<1>3. PICK n \in Nat : DOMAIN emitted = 1..n
  BY <1>1 DEF LogInv
<1>4. /\ DOMAIN emitted' = DOMAIN emitted \cup {b}
      /\ emitted'[b] = [checkpoint |-> runtime', decision |-> d]
      /\ \A k \in DOMAIN emitted : k # b => emitted'[k] = emitted[k]
  BY <1>2 DEF Emit
<1> HIDE DEF session
<1>5. /\ DOMAIN Logged = DOMAIN emitted /\ DOMAIN Logged' = DOMAIN emitted'
      /\ Logged'[b] = session
      /\ \A k \in DOMAIN emitted : k # b => Logged'[k] = Logged[k]
  BY <1>2, <1>4 DEF Logged
<1>6. b \in DOMAIN emitted => Logged[b] = session
  BY <1>1 DEF LogInv, session
<1>7. \A k \in DOMAIN emitted : Logged'[k] = Logged[k]
  BY <1>5, <1>6
<1>8. ASSUME NEW k \in DOMAIN emitted' PROVE Before(k)' = Before(k)
  <2>1. k = 1 \/ k - 1 \in DOMAIN emitted
    BY <1>1, <1>3, <1>4
  <2>2. QED
    BY <1>1, <1>7, <2>1 DEF Before
<1>9. LogInv'
  <2>1. b \in 1..(n + 1)
    BY <1>1, <1>3
  <2>2. \E h \in Nat : DOMAIN emitted' = 1..h
    <3>1. CASE b \in 1..n
      BY <1>3, <1>4, <3>1
    <3>2. CASE b = n + 1
      <4>1. DOMAIN emitted' = 1..(n + 1)
        BY <1>3, <1>4, <3>2
      <4>2. QED
        BY <4>1
    <3>3. QED
      BY <2>1, <3>1, <3>2
  <2>3. ASSUME NEW c, WeekOf(c) PROVE WeekOf(c)'
    BY <1>1, <2>3 DEF WeekOf
  <2>4. ASSUME NEW k \in DOMAIN emitted'
        PROVE  /\ Logged'[k] = Reference!Execute(program, market, Before(k)', k)
               /\ WeekOf(emitted'[k].checkpoint)
    <3>1. CASE k = b
      BY <1>1, <1>4, <1>5, <1>8, <3>1 DEF session
    <3>2. CASE k # b
      BY <1>1, <1>4, <1>7, <1>8, <3>2 DEF LogInv
    <3>3. QED
      BY <3>1, <3>2
  <2>5. ASSUME NEW k \in DOMAIN emitted' PROVE WeekOf(emitted[k].checkpoint)'
    BY <1>1, <2>4 DEF WeekOf
  <2>6. QED
    BY <1>1, <2>2, <2>4, <2>5 DEF LogInv
<1>10. InStep'
  BY <1>1, <1>4 DEF InStep
<1>11. WeekOf(runtime)'
  BY <1>1 DEF WeekOf
<1>12. UNCHANGED <<program, market, Logged>> \/ Reference!ExecuteSession
  <2>1. CASE b \in DOMAIN emitted
    <3>1. DOMAIN Logged' = DOMAIN Logged
      BY <1>4, <1>5, <2>1
    <3>2. /\ Logged' = [k \in DOMAIN Logged' |-> Logged'[k]]
          /\ Logged = [k \in DOMAIN Logged |-> Logged[k]]
      BY DEF Logged
    <3>3. Logged' = Logged
      BY <1>5, <1>7, <3>1, <3>2
    <3>4. QED
      BY <1>1, <3>3
  <2>2. CASE b \notin DOMAIN emitted
    <3>1. b = n + 1
      BY <1>1, <1>3, <2>2
    <3> DEFINE S == {Logged[k] : k \in 1..n} \cup {session}
               longer == Append(Logged, session)
    <3>2. Logged \in Seq(S) /\ Len(Logged) = n
      <4>1. Logged = [k \in 1..n |-> Logged[k]]
        BY <1>3 DEF Logged
      <4>2. \A k \in 1..n : Logged[k] \in S
        OBVIOUS
      <4> HIDE DEF S
      <4>3. QED
        BY <4>1, <4>2
    <3>3. session \in S
      OBVIOUS
    <3> HIDE DEF S
    <3>4. /\ longer = [k \in 1..(n + 1) |-> longer[k]]
          /\ \A k \in 1..n : longer[k] = Logged[k]
          /\ longer[n + 1] = session
      BY <3>2, <3>3, Appended
    <3>5. Logged' = [k \in 1..(n + 1) |-> Logged'[k]]
      <4>1. DOMAIN emitted' = 1..(n + 1)
        BY <1>3, <1>4, <3>1
      <4>2. QED
        BY <4>1 DEF Logged
    <3>6. \A k \in 1..(n + 1) : Logged'[k] = longer[k]
      BY <1>3, <1>5, <1>7, <3>1, <3>4
    <3>7. Logged' = longer
      BY <3>4, <3>5, <3>6
    <3>8. n < Len(market.week)
      BY <1>1, <3>1, MarketsAssumption DEF Sessions, RuntimeTypeOK, FieldsTypeOK, MarketRecords
    <3>9. Before(b) = IF n = 0 THEN Reference!NoResult(program) ELSE Logged[n]
      BY <3>1 DEF Before
    <3>10. QED
      BY <1>1, <3>1, <3>2, <3>7, <3>8, <3>9 DEF session, Reference!ExecuteSession
  <2>3. QED
    BY <2>1, <2>2
<1>13. QED
  BY <1>9, <1>10, <1>11, <1>12 DEF ReferenceInv

LEMMA ReferenceStart ==
  ASSUME RuntimeInit
  PROVE  ReferenceInv /\ Reference!ReferenceInit
<1>1. /\ program \in Programs /\ market \in Markets
      /\ runtime = Fresh(program) /\ visit = 0 /\ emitted = <<>>
  BY DEF RuntimeInit
<1>2. DOMAIN emitted = {}
  BY <1>1
<1>3. LogInv
  <2>1. 0 \in Nat /\ DOMAIN emitted = 1..0
    BY <1>2
  <2>2. QED
    BY <1>2, <2>1 DEF LogInv
<1>4. WeekOf(runtime) /\ InStep
  BY <1>1, FreshWeek DEF InStep
<1>5. Logged = <<>>
  <2>1. Logged = [k \in {} |-> ResultOf(emitted[k].checkpoint, emitted[k].decision)]
    BY <1>2 DEF Logged
  <2>2. QED
    BY <2>1
<1>6. QED
  BY <1>1, <1>3, <1>4, <1>5 DEF ReferenceInv, Reference!ReferenceInit

LEMMA ReferenceStep ==
  ASSUME RuntimeTypeOK, ReferenceInv, AnchoredWeeks, MovingTransitions, WindowsOpenLater,
         [RuntimeNext]_runtimeVars
  PROVE  ReferenceInv' /\ [Reference!ExecuteSession]_Reference!referenceVars
<1>1. ASSUME UNCHANGED <<program, market, emitted>>
      PROVE  UNCHANGED Reference!referenceVars
  BY <1>1, LogKept DEF ReferenceInv, Reference!referenceVars
<1>2. CASE NextBar
  BY <1>1, <1>2, NextBarInStep DEF NextBar
<1>3. CASE EvaluateEvent
  BY <1>1, <1>3, EventInStep DEF EvaluateEvent
<1>4. CASE Remember
  BY <1>1, <1>4, RememberInStep DEF Remember, Performing
<1>5. CASE Transition
  BY <1>1, <1>5, TransitionInStep DEF Transition, Performing
<1>6. CASE Decide
  BY <1>6, LogExtends DEF Reference!referenceVars
<1>7. CASE Restart
  BY <1>1, <1>7, RestartInStep DEF Restart, Start
<1>8. CASE UNCHANGED runtimeVars
  <2>1. UNCHANGED <<program, market, runtime, visit, act, emitted>>
    BY <1>8 DEF runtimeVars
  <2>2. WeekOf(runtime)'
    BY <2>1 DEF ReferenceInv, WeekOf
  <2>3. /\ LogInv'
        /\ Current' = Current
        /\ \A i : Standing(i)' = Standing(i)
    <3>1. LogInv' /\ \A k : Before(k)' = Before(k)
      BY <2>1, LogKept DEF ReferenceInv
    <3>2. Current' = Current
      BY <2>1, <3>1 DEF Current, ResultOf
    <3>3. QED
      BY <2>1, <3>1, <3>2 DEF Standing
  <2>4. InStep'
    BY <2>1, <2>3 DEF ReferenceInv, InStep, Due
  <2>5. QED
    BY <1>1, <2>1, <2>2, <2>3, <2>4 DEF ReferenceInv
<1>9. QED
  BY <1>2, <1>3, <1>4, <1>5, <1>6, <1>7, <1>8 DEF RuntimeNext

(* The generated algorithm means what the Program Core evaluator means: in *)
(* any chain of processes, ended and resumed at whatever checkpoint is     *)
(* accepted, the sessions it logs are those of execute_program_v2, replays *)
(* included.  It holds of programs in which the two agree by construction  *)
(* (AnchoredWeeks, MovingTransitions), and of runs in which a window never *)
(* opens for the evaluator in a session that would trigger the event it    *)
(* bounds: there they do differ, as ContestedPrograms.cfg shows.           *)
THEOREM RuntimeImplementsReference ==
  ASSUME AnchoredWeeks, MovingTransitions
  PROVE  RuntimeSpec /\ []WindowsOpenLater => ImplementsReference
<1>1. RuntimeInit => ReferenceInv /\ Reference!ReferenceInit
  BY ReferenceStart
<1>2. RuntimeTypeOK /\ ReferenceInv /\ WindowsOpenLater /\ [RuntimeNext]_runtimeVars
        => ReferenceInv' /\ [Reference!ExecuteSession]_Reference!referenceVars
  BY ReferenceStep
<1>3. QED
  BY <1>1, <1>2, RuntimeTypeCorrect, PTL
  DEF RuntimeSpec, ImplementsReference, Reference!ReferenceSpec

=============================================================================
