---------------------------- MODULE PlantProofs ----------------------------
(***************************************************************************)
(* Proofs about PlantDetection, for every set of valid configurations,     *)
(* requests, losses and strays, and for runs of any duration: the plant    *)
(* stays within its physical limits and no liquid appears or vanishes.     *)
(***************************************************************************)
EXTENDS PlantDetection, FiniteSetTheorems, WellFoundedInduction, TLAPS

\* What a selected sample is, the foreign one included.
SampleType ==
  [run : {"run", "other"}, config : {"cfg", "other"},
   version : {SupportedVersion, "2.0.0"}, time : Nat, seq : Nat, simtime : Nat,
   valve : 0..FullScale, flow : 0..MaxFlow, pressure : 0..MaxPressure,
   source : 0..TankCapacity, receiving : 0..TankCapacity, running : BOOLEAN]

\* The inductive invariant.  To conserve, the flow must be one that both
\* tanks can give and take, which is known of contents within their ranges;
\* and they stay there because what leaves the one tank enters the other.
PlantInv ==
  /\ TypeOK
  /\ InventoryConserved
  /\ telemetry \subseteq SampleType /\ IsFiniteSet(telemetry)
  /\ \A s \in telemetry : s.time \in 1..clock /\ s.seq = s.time

-----------------------------------------------------------------------------
(***************************************************************************)
(* Lemmas about the operators of the simulator                             *)
(***************************************************************************)
\* The parameters of the default configuration are natural numbers, and the
\* divisors among them are not zero.
LEMMA ParameterTypes ==
  /\ TankCapacity \in Nat /\ MaxFlow \in Nat /\ MaxPressure \in Nat
  /\ MaxTemperature \in Nat /\ MaxDuration \in Nat
  /\ MaxFlowChange \in Nat /\ MaxPressureChange \in Nat
  /\ BaselinePressure \in Nat /\ PumpPressureGain \in Nat
  /\ RestrictionPressureGain \in Nat /\ AmbientTemperature \in Nat
  /\ PumpTemperatureGain \in Nat /\ NoiseAmplitude \in Nat
  /\ FullScale \in Nat \ {0} /\ FlowTimeConstant \in Nat \ {0}
  /\ PressureTimeConstant \in Nat \ {0} /\ TemperatureTimeConstant \in Nat \ {0}
  BY SMT DEF TankCapacity, MaxFlow, MaxPressure, MaxTemperature, MaxDuration,
             MaxFlowChange, MaxPressureChange, BaselinePressure,
             PumpPressureGain, RestrictionPressureGain, AmbientTemperature,
             PumpTemperatureGain, NoiseAmplitude, FullScale, FlowTimeConstant,
             PressureTimeConstant, TemperatureTimeConstant

\* What ConfigsAreValid says of a configuration.
LEMMA ConfigType ==
  ASSUME NEW c \in Configs
  PROVE  /\ c.duration \in Nat
         /\ c.initial \in ProcessState
         /\ \A s \in c.scenarios : s.id \in Scenarios
  BY ConfigsAreValid, ParameterTypes DEF ValidConfig, ValidSchedule

\* A value clamped between zero and a limit.
LEMMA ClampFromZero ==
  ASSUME NEW x \in Int, NEW upper \in Nat
  PROVE  Clamp(x, 0, upper) \in 0..upper
  BY DEF Clamp

\* A change limited to either side is an integer.
LEMMA ChangeType ==
  ASSUME NEW x \in Int, NEW limit \in Nat
  PROVE  Clamp(x, -limit, limit) \in Int
  BY DEF Clamp

\* Division by a positive number gives an integer.
LEMMA QuotientType ==
  ASSUME NEW x \in Int, NEW y \in Nat \ {0}
  PROVE  x \div y \in Int
  OBVIOUS

\* The product of two integers is one.
LEMMA ProductType ==
  ASSUME NEW x \in Int, NEW y \in Int
  PROVE  x * y \in Int
  OBVIOUS

\* The flow asked for is within the range of the pipeline.
LEMMA DynamicFlowRange ==
  ASSUME NEW p \in ProcessState, NEW effort \in 0..FullScale,
         NEW valve \in 0..FullScale, NEW path \in {0, 1}, NEW noise \in Int
  PROVE  DynamicFlow(p, effort, valve, path, noise) \in 0..MaxFlow
  <1> DEFINE capacity == (MaxFlow * effort) \div FullScale
             asked == (capacity * valve * path) \div FullScale + noise
             target == Clamp(asked, 0, MaxFlow)
             change == Clamp((target - p.flow) \div FlowTimeConstant,
                             -MaxFlowChange, MaxFlowChange)
  <1>1. capacity \in Int
    BY ParameterTypes, ProductType, QuotientType
  <1>2. asked \in Int
    <2> HIDE DEF capacity
    <2>1. capacity * valve * path \in Int
      BY <1>1, ParameterTypes, ProductType
    <2>2. (capacity * valve * path) \div FullScale \in Int
      BY <2>1, ParameterTypes, QuotientType
    <2> QED
      BY <2>2
  <1>3. target \in 0..MaxFlow
    <2> HIDE DEF asked
    <2> QED
      BY <1>2, ClampFromZero, ParameterTypes
  <1>4. change \in Int
    <2> HIDE DEF target
    <2>1. target - p.flow \in Int
      BY <1>3, ParameterTypes DEF ProcessState
    <2>2. (target - p.flow) \div FlowTimeConstant \in Int
      BY <2>1, QuotientType, ParameterTypes
    <2> QED
      BY <2>2, ChangeType, ParameterTypes
  <1>5. DynamicFlow(p, effort, valve, path, noise) = Clamp(p.flow + change, 0, MaxFlow)
    BY DEF DynamicFlow
  <1> HIDE DEF change
  <1>6. p.flow + change \in Int
    BY <1>4, ParameterTypes DEF ProcessState
  <1> QED
    BY <1>5, <1>6, ClampFromZero, ParameterTypes

\* The flow that passes is no more than the source has, no more than the
\* receiving tank can take, and no more than was asked for.
LEMMA TransferredFlowRange ==
  ASSUME NEW p \in ProcessState, NEW wanted \in 0..MaxFlow
  PROVE  /\ TransferredFlow(p, wanted) \in 0..MaxFlow
         /\ TransferredFlow(p, wanted) <= p.source
         /\ p.receiving + TransferredFlow(p, wanted) <= TankCapacity
  BY ParameterTypes DEF TransferredFlow, ProcessState

\* Pressure and temperature are clamped.
LEMMA NextPressureRange ==
  ASSUME NEW p \in ProcessState, NEW effort \in 0..FullScale,
         NEW valve \in 0..FullScale, NEW path \in {0, 1}, NEW flow \in 0..MaxFlow
  PROVE  NextPressure(p, effort, valve, path, flow) \in 0..MaxPressure
  <1> DEFINE driven == (PumpPressureGain * effort) \div FullScale
             strength == (RestrictionPressureGain * effort) \div FullScale
             restriction == FullScale - valve * path
             restricted == (strength * restriction) \div FullScale
             target == BaselinePressure + driven + restricted - flow
             change == Clamp((target - p.pressure) \div PressureTimeConstant,
                             -MaxPressureChange, MaxPressureChange)
  <1>1. driven \in Int /\ strength \in Int
    BY ParameterTypes, ProductType, QuotientType
  <1>2. restricted \in Int
    <2>1. restriction \in Int
      BY ParameterTypes, ProductType
    <2> HIDE DEF strength, restriction
    <2>2. strength * restriction \in Int
      BY <1>1, <2>1, ProductType
    <2> QED
      BY <2>2, QuotientType, ParameterTypes
  <1>3. target - p.pressure \in Int
    <2> HIDE DEF driven, restricted
    <2> QED
      BY <1>1, <1>2, ParameterTypes DEF ProcessState
  <1>4. change \in Int
    <2> HIDE DEF target
    <2>1. (target - p.pressure) \div PressureTimeConstant \in Int
      BY <1>3, QuotientType, ParameterTypes
    <2> QED
      BY <2>1, ChangeType, ParameterTypes
  <1>5. NextPressure(p, effort, valve, path, flow) =
          Clamp(p.pressure + change, 0, MaxPressure)
    BY DEF NextPressure
  <1> HIDE DEF change
  <1>6. p.pressure + change \in Int
    BY <1>4, ParameterTypes DEF ProcessState
  <1> QED
    BY <1>5, <1>6, ClampFromZero, ParameterTypes

LEMMA NextTemperatureRange ==
  ASSUME NEW p \in ProcessState, NEW effort \in 0..FullScale
  PROVE  NextTemperature(p, effort) \in 0..MaxTemperature
  <1> DEFINE driven == (PumpTemperatureGain * effort) \div FullScale
             target == AmbientTemperature + driven
             change == (target - p.temperature) \div TemperatureTimeConstant
  <1>1. driven \in Int
    BY ParameterTypes, ProductType, QuotientType
  <1>2. target - p.temperature \in Int
    <2> HIDE DEF driven
    <2> QED
      BY <1>1, ParameterTypes DEF ProcessState
  <1>3. change \in Int
    <2> HIDE DEF target
    <2> QED
      BY <1>2, QuotientType, ParameterTypes
  <1>4. NextTemperature(p, effort) = Clamp(p.temperature + change, 0, MaxTemperature)
    BY DEF NextTemperature
  <1> HIDE DEF change
  <1>5. p.temperature + change \in Int
    BY <1>3, ParameterTypes DEF ProcessState
  <1> QED
    BY <1>4, <1>5, ClampFromZero, ParameterTypes

\* One second of _advance: the plant stays within its limits and the tanks
\* hold together what they held before.
LEMMA AdvanceConserves ==
  ASSUME NEW p \in ProcessState, NEW command \in 0..FullScale,
         NEW valve \in 0..FullScale, NEW path \in {0, 1}, NEW noise \in Int
  PROVE  /\ Advance(p, command, valve, path, noise) \in ProcessState
         /\ Advance(p, command, valve, path, noise).source
              + Advance(p, command, valve, path, noise).receiving
              = p.source + p.receiving
  <1> DEFINE q == Advance(p, command, valve, path, noise)
             effort == IF Running(command) THEN command ELSE 0
             flow == TransferredFlow(p, DynamicFlow(p, effort, valve, path, noise))
  <1>1. effort \in 0..FullScale
    BY ParameterTypes
  <1>2. q = [source |-> p.source - flow, receiving |-> p.receiving + flow,
             pump |-> command, valve |-> valve, flow |-> flow,
             pressure |-> NextPressure(p, effort, valve, path, flow),
             temperature |-> NextTemperature(p, effort)]
    BY DEF Advance
  <1> HIDE DEF effort
  <1>3. /\ flow \in 0..MaxFlow
        /\ flow <= p.source
        /\ p.receiving + flow <= TankCapacity
    BY <1>1, DynamicFlowRange, TransferredFlowRange
  <1> HIDE DEF flow, q
  <1>4. /\ NextPressure(p, effort, valve, path, flow) \in 0..MaxPressure
        /\ NextTemperature(p, effort) \in 0..MaxTemperature
    BY <1>1, <1>3, NextPressureRange, NextTemperatureRange
  <1>5. /\ p.source - flow \in 0..TankCapacity
        /\ p.receiving + flow \in 0..TankCapacity
        /\ (p.source - flow) + (p.receiving + flow) = p.source + p.receiving
    BY <1>3, ParameterTypes DEF ProcessState
  <1>6. /\ q \in ProcessState
        /\ q.source + q.receiving = p.source + p.receiving
    BY <1>2, <1>3, <1>4, <1>5 DEF ProcessState
  <1> QED
    BY <1>6 DEF q

-----------------------------------------------------------------------------
(***************************************************************************)
(* The invariant                                                           *)
(***************************************************************************)
\* The inputs of a step are what _advance expects.
LEMMA InputTypes ==
  ASSUME NEW c \in Configs, NEW now
  PROVE  /\ ValveInput(c, now) \in 0..FullScale
         /\ PathInput(now) \in {0, 1}
         /\ c.initial.pump \in 0..FullScale
         /\ \A noise \in Noises(c) : noise \in Int
         /\ \A t \in Nat : ActiveAt(c, t) \subseteq Scenarios
  <1>1. S3Valve \in 0..FullScale
    BY SMT DEF S3Valve, FullScale
  <1>2. /\ c.initial.valve \in 0..FullScale
        /\ c.initial.pump \in 0..FullScale
    BY ConfigType DEF ProcessState
  <1> QED
    BY <1>1, <1>2, ConfigType, ParameterTypes
    DEF ValveInput, PathInput, Noises, ActiveAt

\* Whatever the evaluator decides has one of the four statuses.
LEMMA StatusType ==
  ASSUME NEW reason
  PROVE  StatusByReason(reason) \in
           {"CORRELATED", "NOT_CORRELATED", "INSUFFICIENT_EVIDENCE", "INDETERMINATE"}
  BY DEF StatusByReason

LEMMA DecisionType ==
  ASSUME NEW reason, NEW anchor, NEW minimum, NEW inventory
  PROVE  Decision(reason, anchor, minimum, inventory).status \in
           {"CORRELATED", "NOT_CORRELATED", "INSUFFICIENT_EVIDENCE", "INDETERMINATE"}
  BY StatusType DEF Decision

LEMMA VerdictType ==
  ASSUME NEW r, NEW samples
  PROVE  EvaluateCorrelation(r, samples).status \in
           {"CORRELATED", "NOT_CORRELATED", "INSUFFICIENT_EVIDENCE", "INDETERMINATE"}
  <1>1. ASSUME NEW reason, NEW anchor
        PROVE  ReasonDecision(reason, anchor).status \in
                 {"CORRELATED", "NOT_CORRELATED", "INSUFFICIENT_EVIDENCE", "INDETERMINATE"}
    BY DecisionType DEF ReasonDecision
  <1>2. ASSUME NEW tel, NEW anchor, NEW points
        PROVE  EvaluateS3(tel, anchor, points).status \in
                 {"CORRELATED", "NOT_CORRELATED", "INSUFFICIENT_EVIDENCE", "INDETERMINATE"}
    BY <1>1, DecisionType DEF EvaluateS3
  <1>3. ASSUME NEW tel, NEW points
        PROVE  EvaluateS4(tel, points).status \in
                 {"CORRELATED", "NOT_CORRELATED", "INSUFFICIENT_EVIDENCE", "INDETERMINATE"}
    BY <1>1, DecisionType DEF EvaluateS4
  <1> QED
    BY <1>1, <1>2, <1>3 DEF EvaluateCorrelation

\* The sample of a plant within its limits, whole or foreign.
LEMMA TelemetryType ==
  ASSUME NEW p \in ProcessState, NEW t \in Nat
  PROVE  /\ Telemetry(p, t, t) \in SampleType
         /\ Foreign(Telemetry(p, t, t)) \in SampleType
         /\ Telemetry(p, t, t).time = t /\ Telemetry(p, t, t).seq = t
         /\ Foreign(Telemetry(p, t, t)).time = t /\ Foreign(Telemetry(p, t, t)).seq = t
         /\ Telemetry(p, t, t).valve = p.valve /\ Foreign(Telemetry(p, t, t)).valve = p.valve
  <1>1. /\ Telemetry(p, t, t) \in SampleType
        /\ Telemetry(p, t, t).time = t /\ Telemetry(p, t, t).seq = t
        /\ Telemetry(p, t, t).valve = p.valve
    BY DEF Telemetry, SampleType, ProcessState, Running
  <1>2. ASSUME NEW s \in SampleType
        PROVE  /\ Foreign(s) \in SampleType /\ Foreign(s).time = s.time
               /\ Foreign(s).seq = s.seq /\ Foreign(s).valve = s.valve
    BY DEF Foreign, SampleType
  <1> QED
    BY <1>1, <1>2

\* The constructor establishes the invariant.
LEMMA InitPlantInv == Init => PlantInv
  <1> SUFFICES ASSUME Init PROVE PlantInv
    OBVIOUS
  <1> USE DEF Init, SimInit
  <1>1. cfg.duration \in Nat /\ cfg.initial \in ProcessState
    BY ConfigType
  <1>2. TypeOK
    BY <1>1, VerdictType, FS_EmptySet DEF TypeOK, SimTypeOK
  <1>3. InventoryConserved
    BY <1>1, ParameterTypes DEF InventoryConserved, ProcessState
  <1> QED
    BY <1>2, <1>3, FS_EmptySet DEF PlantInv

\* One second of the run, sampled and evaluated, preserves it.
LEMMA SamplePreserves ==
  ASSUME PlantInv, Sample
  PROVE  PlantInv'
  <1> USE DEF PlantInv, Sample, Step, TypeOK, SimTypeOK
  <1> DEFINE now == ActiveAt(cfg, clock + 1)
  <1>1. /\ cfg \in Configs /\ cfg' = cfg
        /\ cfg.duration \in Nat /\ cfg.initial \in ProcessState
    BY ConfigType
  <1>2. PICK noise \in Noises(cfg) :
          plant' = Advance(plant, cfg.initial.pump, ValveInput(cfg, now),
                           PathInput(now), noise)
    OBVIOUS
  <1>3. /\ plant' \in ProcessState
        /\ plant'.source + plant'.receiving = plant.source + plant.receiving
    <2>1. /\ ValveInput(cfg, now) \in 0..FullScale /\ PathInput(now) \in {0, 1}
          /\ cfg.initial.pump \in 0..FullScale /\ noise \in Int
      BY <1>1, <1>2, InputTypes
    <2>2. plant \in ProcessState
      OBVIOUS
    <2> HIDE DEF now, PlantInv, Sample, Step, TypeOK, SimTypeOK
    <2> QED
      BY <1>2, <2>1, <2>2, AdvanceConserves
  <1>4. /\ clock' \in 0..cfg.duration /\ clock' = clock + 1
        /\ clock' \in Nat /\ sequence' = clock'
    BY <1>1
  <1>5. active' \subseteq Scenarios
    BY <1>1, <1>4, InputTypes
  <1>6. /\ telemetry' \subseteq SampleType /\ IsFiniteSet(telemetry')
        /\ Cardinality(telemetry') <= clock'
        /\ \A s \in telemetry' : s.time \in 1..clock' /\ s.seq = s.time
    <2>1. CASE clock' \in lost
      BY <1>4, <2>1, FS_CardinalityType
    <2>2. CASE clock' \notin lost
      <3>1. PICK s \in SampleType : /\ telemetry' = telemetry \cup {s}
                                   /\ s.time = clock' /\ s.seq = clock'
        BY <1>3, <1>4, <2>2, TelemetryType
      <3>2. /\ IsFiniteSet(telemetry')
            /\ Cardinality(telemetry') \in {Cardinality(telemetry), Cardinality(telemetry) + 1}
        BY <3>1, FS_AddElement
      <3>3. Cardinality(telemetry) \in Nat /\ Cardinality(telemetry) <= clock
        BY FS_CardinalityType
      <3> QED
        BY <3>1, <3>2, <3>3, <1>4
    <2> QED
      BY <2>1, <2>2
  <1>7. TypeOK'
    <2>1. SimTypeOK'
      BY <1>1, <1>3, <1>4, <1>5
    <2>2. verdict'.status \in
            {"CORRELATED", "NOT_CORRELATED", "INSUFFICIENT_EVIDENCE", "INDETERMINATE"}
      BY VerdictType
    <2> QED
      BY <1>6, <2>1, <2>2
  <1>8. InventoryConserved'
    <2>0. plant \in ProcessState /\ InventoryConserved
      OBVIOUS
    <2>1. ASSUME NEW p \in ProcessState
          PROVE  p.source \in Int /\ p.receiving \in Int
      BY ParameterTypes DEF ProcessState
    <2> HIDE DEF PlantInv, Sample, Step, TypeOK, SimTypeOK
    <2>2. cfg.initial.source - plant.source = plant.receiving - cfg.initial.receiving
      BY <2>0 DEF InventoryConserved
    <2>3. cfg.initial.source - plant'.source = plant'.receiving - cfg.initial.receiving
      <3>1. /\ plant.source \in Int /\ plant.receiving \in Int
            /\ plant'.source \in Int /\ plant'.receiving \in Int
            /\ cfg.initial.source \in Int /\ cfg.initial.receiving \in Int
        BY <1>1, <1>3, <2>0, <2>1
      <3> QED
        BY <1>3, <2>2, <3>1
    <2> QED
      BY <1>1, <2>3 DEF InventoryConserved
  <1> QED
    BY <1>6, <1>7, <1>8

\* The finished run, and every step that leaves the variables alone.
LEMMA FinishedPreserves ==
  ASSUME PlantInv, UNCHANGED vars
  PROVE  PlantInv'
  BY DEF vars, simVars, PlantInv, TypeOK, SimTypeOK, InventoryConserved

-----------------------------------------------------------------------------
(***************************************************************************)
(* A correlation found stays found: what a later sample can change.        *)
(***************************************************************************)
\* The windows of the two rules are whole seconds.
LEMMA WindowTypes ==
  ASSUME NEW rule \in {S3Rule, S4Rule}
  PROVE  rule.baseline \in Nat /\ rule.effect \in Nat
  BY DEF S3Rule, S4Rule

\* decisions.py: only a match is CORRELATED.
LEMMA OnlyMatchesCorrelate ==
  ASSUME NEW reason, NEW anchor, NEW minimum, NEW inventory,
         Decision(reason, anchor, minimum, inventory).status = "CORRELATED"
  PROVE  reason = "CORRELATION_MATCH"
  BY DEF Decision, StatusByReason

LEMMA OtherReasons ==
  ASSUME NEW reason, NEW anchor, reason # "CORRELATION_MATCH"
  PROVE  ReasonDecision(reason, anchor).status # "CORRELATED"
  BY OnlyMatchesCorrelate DEF ReasonDecision

\* A sample s that is later than those of a selection.
LaterThan(s, tel) ==
  /\ s.time \in Int
  /\ \A t \in tel : t.time \in Int /\ t.time < s.time

\* select_window: a later sample is not in the baseline of a sample there is.
LEMMA BaselineStays ==
  ASSUME NEW tel, NEW s, LaterThan(s, tel), NEW rule, NEW anchor \in Int,
         anchor <= s.time
  PROVE  BaselineOf(tel \cup {s}, anchor, rule) = BaselineOf(tel, anchor, rule)
  BY DEF LaterThan, BaselineOf

\* select_window: once the windows are final, a later sample is in neither.
LEMMA WindowsStay ==
  ASSUME NEW tel, NEW s, LaterThan(s, tel), NEW rule \in {S3Rule, S4Rule},
         NEW anchor \in Int, Finalized(tel, anchor, rule)
  PROVE  /\ BaselineOf(tel \cup {s}, anchor, rule) = BaselineOf(tel, anchor, rule)
         /\ EffectOf(tel \cup {s}, anchor, rule) = EffectOf(tel, anchor, rule)
         /\ Finalized(tel \cup {s}, anchor, rule)
  <1>1. PICK t \in tel : t.time >= anchor + rule.effect
    BY DEF Finalized
  <1>2. s.time > anchor + rule.effect /\ anchor <= s.time
    BY <1>1, WindowTypes DEF LaterThan
  <1>3. BaselineOf(tel \cup {s}, anchor, rule) = BaselineOf(tel, anchor, rule)
    BY <1>2, BaselineStays
  <1>4. EffectOf(tel \cup {s}, anchor, rule) = EffectOf(tel, anchor, rule)
    BY <1>2, WindowTypes DEF LaterThan, EffectOf
  <1>5. Finalized(tel \cup {s}, anchor, rule)
    BY <1>1 DEF Finalized
  <1> QED
    BY <1>3, <1>4, <1>5

\* evaluate_s3: what a match rests on.
LEMMA S3Rests ==
  ASSUME NEW tel, NEW anchor, NEW points,
         EvaluateS3(tel, anchor, points).status = "CORRELATED"
  PROVE  LET baseline == BaselineOf(tel, anchor, S3Rule)
             effect == EffectOf(tel, anchor, S3Rule)
         IN  /\ Finalized(tel, anchor, S3Rule)
             /\ ~S3PointsMissing(points)
             /\ ~(\/ Cardinality(baseline) < S3Rule.minBaseline
               \/ Cardinality(effect) < S3Rule.minEffect)
             /\ ~(GapExceeded(baseline, S3Rule) \/ GapExceeded(effect, S3Rule))
             /\ ~S3BaselineUnstable(baseline, points)
             /\ S3Match(effect, baseline, points)
  BY OnlyMatchesCorrelate, OtherReasons DEF EvaluateS3

\* evaluate_s3: a match stays one, with the same decision.
LEMMA S3Stays ==
  ASSUME NEW tel, NEW s, LaterThan(s, tel), NEW anchor \in Int, NEW points,
         EvaluateS3(tel, anchor, points).status = "CORRELATED"
  PROVE  EvaluateS3(tel \cup {s}, anchor, points) = EvaluateS3(tel, anchor, points)
  BY S3Rests, WindowsStay DEF EvaluateS3

\* _find_anchor: whether a sample is an anchor is settled by those before it.
LEMMA AnchorsStay ==
  ASSUME NEW tel, NEW s, LaterThan(s, tel), NEW t \in tel
  PROVE  IsAnchor(tel \cup {s}, t) <=> IsAnchor(tel, t)
  <1>1. t.time \in Int /\ t.time <= s.time
    BY DEF LaterThan
  <1>2. BaselineOf(tel \cup {s}, t.time, S4Rule) = BaselineOf(tel, t.time, S4Rule)
    BY <1>1, BaselineStays
  <1> QED
    BY <1>2 DEF IsAnchor

\* The least of a set of natural numbers, and that a greater one does not
\* change it.
LEMMA MinStays ==
  ASSUME NEW S \in SUBSET Nat, S # {}
  PROVE  /\ Min(S) \in S
         /\ \A n \in Nat : (\A m \in S : m < n) => Min(S \cup {n}) = Min(S)
  <1>0. PICK x \in S : \A y \in S : ~(<<y, x>> \in OpToRel(<, Nat))
    BY WFMin, NatLessThanWellFounded
  <1>1. \A y \in S : ~(y < x)
    BY <1>0 DEF OpToRel
  <1>2. \A y \in S : x <= y
    BY <1>1
  <1>3. /\ Min(S) \in S
        /\ \A y \in S : Min(S) <= y
    BY <1>2 DEF Min
  <1>4. ASSUME NEW n \in Nat, \A m \in S : m < n
        PROVE  Min(S \cup {n}) = Min(S)
    <2>0. Min(S) \in Nat /\ Min(S) < n
      BY <1>3, <1>4
    <2>1. \A y \in S \cup {n} : Min(S) <= y
      BY <1>3, <2>0
    <2>2. /\ Min(S \cup {n}) \in S \cup {n}
          /\ \A y \in S \cup {n} : Min(S \cup {n}) <= y
      BY <1>3, <2>1 DEF Min
    <2>3. /\ Min(S \cup {n}) \in Nat
          /\ Min(S \cup {n}) <= Min(S) /\ Min(S) <= Min(S \cup {n})
      BY <1>3, <2>1, <2>2
    <2> QED
      BY <2>0, <2>3
  <1> QED
    BY <1>3, <1>4

\* _find_anchor: an anchor that was found stays the first.
LEMMA FirstAnchorStays ==
  ASSUME NEW tel, NEW s, LaterThan(s, tel), s.time \in Nat,
         \A t \in tel : t.time \in Nat,
         NEW a \in tel, IsAnchor(tel, a)
  PROVE  /\ FindAnchor(tel) \in Nat
         /\ FindAnchor(tel \cup {s}) = FindAnchor(tel)
  <1> DEFINE Anchors(u) == {t.time : t \in {t \in u : IsAnchor(u, t)}}
  <1>1. /\ Anchors(tel) \in SUBSET Nat /\ Anchors(tel) # {}
        /\ \A m \in Anchors(tel) : m < s.time
    BY DEF LaterThan
  <1>2. Anchors(tel \cup {s}) \in {Anchors(tel), Anchors(tel) \cup {s.time}}
    <2>1. \A t \in tel : IsAnchor(tel \cup {s}, t) <=> IsAnchor(tel, t)
      BY AnchorsStay
    <2>2. CASE IsAnchor(tel \cup {s}, s)
      <3>1. Anchors(tel \cup {s}) = Anchors(tel) \cup {s.time}
        BY <2>1, <2>2
      <3> QED
        BY <3>1
    <2>3. CASE ~IsAnchor(tel \cup {s}, s)
      <3>1. Anchors(tel \cup {s}) = Anchors(tel)
        BY <2>1, <2>3
      <3> QED
        BY <3>1
    <2> QED
      BY <2>2, <2>3
  <1>3. \A u : FindAnchor(u) = IF Anchors(u) = {} THEN NoAnchor ELSE Min(Anchors(u))
    BY DEF FindAnchor
  <1> HIDE DEF Anchors
  <1>4. Min(Anchors(tel)) \in Nat
    BY <1>1, MinStays
  <1>5. Min(Anchors(tel \cup {s})) = Min(Anchors(tel))
    BY <1>1, <1>2, MinStays
  <1>6. Anchors(tel \cup {s}) # {}
    BY <1>1, <1>2
  <1> QED
    BY <1>1, <1>3, <1>4, <1>5, <1>6

\* evaluate_s4: what a match rests on.
LEMMA S4Rests ==
  ASSUME NEW tel, NEW points, EvaluateS4(tel, points).status = "CORRELATED"
  PROVE  /\ FindAnchor(tel) # NoAnchor
         /\ Finalized(tel, FindAnchor(tel), S4Rule)
  BY OtherReasons DEF EvaluateS4

\* evaluate_s4: a match stays one, with the same anchor and decision.
LEMMA S4Stays ==
  ASSUME NEW tel, NEW s, LaterThan(s, tel), s.time \in Nat,
         \A t \in tel : t.time \in Nat, NEW points,
         EvaluateS4(tel, points).status = "CORRELATED"
  PROVE  EvaluateS4(tel \cup {s}, points) = EvaluateS4(tel, points)
  <1>1. FindAnchor(tel) # NoAnchor /\ Finalized(tel, FindAnchor(tel), S4Rule)
    BY S4Rests
  <1>2. PICK a \in tel : IsAnchor(tel, a)
    BY <1>1 DEF FindAnchor
  <1>3. /\ FindAnchor(tel) \in Int
        /\ FindAnchor(tel \cup {s}) = FindAnchor(tel)
    BY <1>2, FirstAnchorStays
  <1>4. /\ BaselineOf(tel \cup {s}, FindAnchor(tel), S4Rule)
             = BaselineOf(tel, FindAnchor(tel), S4Rule)
        /\ EffectOf(tel \cup {s}, FindAnchor(tel), S4Rule)
             = EffectOf(tel, FindAnchor(tel), S4Rule)
        /\ Finalized(tel \cup {s}, FindAnchor(tel), S4Rule)
    BY <1>1, <1>3, WindowsStay
  <1> QED
    BY <1>1, <1>3, <1>4 DEF EvaluateS4

\* A sample of the run, the configuration, the version and the clock of the
\* simulator that PlantDetection composes.
Own(s) ==
  /\ s.run = "run" /\ s.config = "cfg" /\ s.version = SupportedVersion
  /\ s.simtime = s.time

\* A finite set of one value.
LEMMA OneValue ==
  ASSUME NEW S, IsFiniteSet(S), S # {}
  PROVE  Cardinality(S) = 1 <=> \A x, y \in S : x = y
  <1>1. Cardinality(S) = 1 => \A x, y \in S : x = y
    BY FS_Singleton
  <1>2. ASSUME \A x, y \in S : x = y PROVE Cardinality(S) = 1
    <2>1. PICK x : x \in S
      OBVIOUS
    <2>2. S = {x}
      BY <1>2, <2>1
    <2> QED
      BY <2>2, FS_Singleton
  <1> QED
    BY <1>1, <1>2

\* The values of a function on a finite set.
LEMMA FiniteRange ==
  ASSUME NEW S, IsFiniteSet(S), NEW f, f = [x \in S |-> f[x]]
  PROVE  IsFiniteSet({f[x] : x \in S})
  <1> DEFINE T == {f[x] : x \in S}
  <1>1. f \in Surjection(S, T)
    BY DEF Surjection
  <1> QED
    BY <1>1, FS_Surjection

\* What validate_run_consistency counts: the values of a field, the origins.
LEMMA ValuesAreFinite ==
  ASSUME NEW tel, IsFiniteSet(tel), NEW field
  PROVE  IsFiniteSet({s[field] : s \in tel})
  <1> DEFINE f == [s \in tel |-> s[field]]
  <1>1. /\ {f[s] : s \in tel} = {s[field] : s \in tel}
        /\ f = [s \in tel |-> f[s]]
    OBVIOUS
  <1> HIDE DEF f
  <1>2. IsFiniteSet({f[s] : s \in tel})
    BY <1>1, FiniteRange
  <1> QED
    BY <1>1, <1>2

LEMMA OneValueOfField ==
  ASSUME NEW tel, IsFiniteSet(tel), tel # {}, NEW field
  PROVE  Distinct(tel, field) = 1 <=> \A s, t \in tel : s[field] = t[field]
  <1> DEFINE values == {s[field] : s \in tel}
  <1>1. IsFiniteSet(values) /\ values # {}
    BY ValuesAreFinite
  <1>2. (\A x, y \in values : x = y) <=> \A s, t \in tel : s[field] = t[field]
    OBVIOUS
  <1>3. Distinct(tel, field) = Cardinality(values)
    BY DEF Distinct
  <1> HIDE DEF values
  <1> QED
    BY <1>1, <1>2, <1>3, OneValue

LEMMA OneOrigin ==
  ASSUME NEW tel, IsFiniteSet(tel), tel # {}
  PROVE  Cardinality({s.time - s.simtime : s \in tel}) = 1
           <=> \A s, t \in tel : s.time - s.simtime = t.time - t.simtime
  <1> DEFINE f == [s \in tel |-> s.time - s.simtime]
             values == {s.time - s.simtime : s \in tel}
  <1>1. /\ {f[s] : s \in tel} = values /\ values # {}
        /\ f = [s \in tel |-> f[s]]
        /\ (\A x, y \in values : x = y)
             <=> \A s, t \in tel : s.time - s.simtime = t.time - t.simtime
    OBVIOUS
  <1> HIDE DEF f
  <1>2. IsFiniteSet({f[s] : s \in tel})
    BY <1>1, FiniteRange
  <1> HIDE DEF values
  <1>3. Cardinality(values) = 1
          <=> \A s, t \in tel : s.time - s.simtime = t.time - t.simtime
    BY <1>1, <1>2, OneValue
  <1> QED
    BY <1>3 DEF values

\* One field more, of a value that is not among the others.
LEMMA DistinctGrows ==
  ASSUME NEW tel, IsFiniteSet(tel), NEW s, NEW field,
         Distinct(tel, field) = Cardinality(tel),
         \A t \in tel : t[field] # s[field]
  PROVE  Distinct(tel \cup {s}, field) = Cardinality(tel \cup {s})
  <1> DEFINE values == {t[field] : t \in tel}
  <1>1. /\ IsFiniteSet(values) /\ s[field] \notin values /\ s \notin tel
        /\ Cardinality(values) = Cardinality(tel)
    BY ValuesAreFinite DEF Distinct
  <1>2. {t[field] : t \in tel \cup {s}} = values \cup {s[field]}
    OBVIOUS
  <1> HIDE DEF values
  <1>3. /\ Cardinality(values \cup {s[field]}) = Cardinality(values) + 1
        /\ Cardinality(tel \cup {s}) = Cardinality(tel) + 1
    BY <1>1, FS_AddElement
  <1> QED
    BY <1>1, <1>2, <1>3 DEF Distinct

\* validate_run_consistency: one more sample of the same run and origin, with
\* a later time and number, leaves a consistent selection consistent.
LEMMA ConsistencyStays ==
  ASSUME NEW tel, IsFiniteSet(tel), tel # {}, NEW s, LaterThan(s, tel), Own(s),
         \A t \in tel : Own(t) /\ t.seq \in Int /\ t.seq < s.seq, s.seq \in Int,
         RunConsistency(tel) = "NONE"
  PROVE  RunConsistency(tel \cup {s}) = "NONE"
  <1> DEFINE more == tel \cup {s}
  <1>1. more # {} /\ IsFiniteSet(more)
    BY FS_AddElement
  <1>2. /\ Distinct(tel, "time") = Cardinality(tel)
        /\ Distinct(tel, "seq") = Cardinality(tel)
    BY DEF RunConsistency
  <1>3. Distinct(more, "time") = Cardinality(more)
    <2>1. \A t \in tel : t["time"] # s["time"]
      BY DEF LaterThan
    <2> QED
      BY <1>2, <2>1, DistinctGrows
  <1>4. Distinct(more, "seq") = Cardinality(more)
    <2>1. \A t \in tel : t["seq"] # s["seq"]
      OBVIOUS
    <2> QED
      BY <1>2, <2>1, DistinctGrows
  <1>5. \A t \in more : Own(t) /\ t.time - t.simtime = 0
    BY DEF Own, LaterThan
  <1> HIDE DEF more
  <1>6. Distinct(more, "run") = 1
    <2>1. \A x, y \in more : x["run"] = y["run"]
      BY <1>5 DEF Own
    <2> QED
      BY <1>1, <2>1, OneValueOfField
  <1>7. Distinct(more, "config") = 1
    <2>1. \A x, y \in more : x["config"] = y["config"]
      BY <1>5 DEF Own
    <2> QED
      BY <1>1, <2>1, OneValueOfField
  <1>8. Cardinality({t.time - t.simtime : t \in more}) = 1
    <2>1. \A x, y \in more : x.time - x.simtime = y.time - y.simtime
      BY <1>5
    <2> QED
      BY <1>1, <2>1, OneOrigin
  <1>9. \A t \in more : t.version = SupportedVersion
    BY <1>5 DEF Own
  <1>10. RunConsistency(more) = "NONE"
    BY <1>1, <1>3, <1>4, <1>6, <1>7, <1>8, <1>9 DEF RunConsistency
  <1> QED
    BY <1>10 DEF more

\* validate_run_consistency: a sample of another origin does not pass beside
\* one of this run.
LEMMA MixturesAreFound ==
  ASSUME NEW tel, IsFiniteSet(tel), NEW a \in tel, NEW b \in tel, Own(a), ~Own(b),
         a.time \in Int, b.time \in Int, b.simtime \in Int
  PROVE  RunConsistency(tel) # "NONE"
  <1> SUFFICES ASSUME RunConsistency(tel) = "NONE" PROVE FALSE
    OBVIOUS
  <1>1. /\ Distinct(tel, "run") = 1 /\ Distinct(tel, "config") = 1
        /\ b.version = SupportedVersion
        /\ Cardinality({t.time - t.simtime : t \in tel}) = 1
    BY DEF RunConsistency
  <1>2. a.run = b.run
    <2>1. \A x, y \in tel : x["run"] = y["run"]
      BY <1>1, OneValueOfField
    <2> QED
      BY <2>1
  <1>3. a.config = b.config
    <2>1. \A x, y \in tel : x["config"] = y["config"]
      BY <1>1, OneValueOfField
    <2> QED
      BY <2>1
  <1>4. a.time - a.simtime = b.time - b.simtime
    BY <1>1, OneOrigin
  <1>5. b.simtime = b.time
    BY <1>4 DEF Own
  <1> QED
    BY <1>1, <1>2, <1>3, <1>5 DEF Own

\* evaluate_correlation: what a correlation rests on.
LEMMA CorrelationRests ==
  ASSUME NEW r, NEW tel, EvaluateCorrelation(r, tel).status = "CORRELATED"
  PROVE  /\ tel # {} /\ RunConsistency(tel) = "NONE"
         /\ r.versionKnown /\ r.digestMatches /\ r.rule \in {"S3", "S4"}
         /\ r.rule = "S3" =>
              /\ r.cyber \notin {"NONE", "UNVERIFIED", "MISMATCH"}
              /\ r.points \subseteq S3Rule.points
              /\ EvaluateS3(tel, r.command, r.points).status = "CORRELATED"
         /\ r.rule = "S4" =>
              /\ r.cyber = "NONE"
              /\ r.points \subseteq S4Rule.points
              /\ EvaluateS4(tel, r.points).status = "CORRELATED"
  <1>1. RunConsistency(tel) # "CORRELATION_MATCH"
    BY DEF RunConsistency
  <1> QED
    BY <1>1, OtherReasons DEF EvaluateCorrelation

\* evaluate_correlation: a correlation is not taken back.
LEMMA CorrelationStays ==
  ASSUME NEW r, r.command \in Int, NEW tel, IsFiniteSet(tel), NEW s,
         LaterThan(s, tel), s.time \in Nat, \A t \in tel : t.time \in Nat, Own(s),
         \A t \in tel : Own(t) /\ t.seq \in Int /\ t.seq < s.seq, s.seq \in Int,
         EvaluateCorrelation(r, tel).status = "CORRELATED"
  PROVE  EvaluateCorrelation(r, tel \cup {s}) = EvaluateCorrelation(r, tel)
  <1>1. RunConsistency(tel) = "NONE" /\ RunConsistency(tel \cup {s}) = "NONE"
    BY CorrelationRests, ConsistencyStays
  <1>2. r.rule = "S3" =>
          EvaluateS3(tel \cup {s}, r.command, r.points) = EvaluateS3(tel, r.command, r.points)
    BY CorrelationRests, S3Stays
  <1>3. r.rule = "S4" => EvaluateS4(tel \cup {s}, r.points) = EvaluateS4(tel, r.points)
    BY CorrelationRests, S4Stays
  <1> QED
    BY <1>1, <1>2, <1>3, CorrelationRests DEF EvaluateCorrelation

\* The windows of one sample: neither rule finds a baseline before it.
LEMMA OneSampleIsNotEnough ==
  ASSUME NEW r, r.command \in Int, NEW a, a.time \in Int
  PROVE  EvaluateCorrelation(r, {a}).status # "CORRELATED"
  <1> SUFFICES ASSUME EvaluateCorrelation(r, {a}).status = "CORRELATED" PROVE FALSE
    OBVIOUS
  <1>1. /\ Cardinality({}) = 0
        /\ S3Rule.minBaseline = 8 /\ S4Rule.minBaseline = 8
    BY FS_EmptySet DEF S3Rule, S4Rule
  <1>2. CASE r.rule = "S3"
    <2>1. EvaluateS3({a}, r.command, r.points).status = "CORRELATED"
      BY <1>2, CorrelationRests
    <2>2. /\ a.time >= r.command + S3Rule.effect
          /\ ~(Cardinality(BaselineOf({a}, r.command, S3Rule)) < S3Rule.minBaseline)
      BY <2>1, S3Rests DEF Finalized
    <2>3. BaselineOf({a}, r.command, S3Rule) = {}
      BY <2>2, WindowTypes DEF BaselineOf
    <2> QED
      BY <1>1, <2>2, <2>3
  <1>3. CASE r.rule = "S4"
    <2>1. FindAnchor({a}) # NoAnchor
      BY <1>3, CorrelationRests, S4Rests
    <2>2. Cardinality(BaselineOf({a}, a.time, S4Rule)) >= S4Rule.minBaseline
      BY <2>1 DEF FindAnchor, IsAnchor
    <2>3. BaselineOf({a}, a.time, S4Rule) = {}
      BY DEF BaselineOf
    <2> QED
      BY <1>1, <2>2, <2>3
  <1> QED
    BY <1>2, <1>3, CorrelationRests

-----------------------------------------------------------------------------
(***************************************************************************)
(* The selection                                                           *)
(***************************************************************************)
\* Where the samples of a selection come from, and what the verdict is: all
\* are the simulator's own but the stray one, which is the first; beside it
\* the second is there too, so that the two do not fit.  Only while the stray
\* sample is alone nothing is inconsistent, and one sample is not enough.
SelectionInv ==
  /\ \A s \in telemetry : (stray # "NONE" /\ s.time = StrayTime) \/ Own(s)
  /\ stray # "NONE" =>
       /\ lost = {}
       /\ clock >= StrayTime => \E s \in telemetry : s.time = StrayTime /\ ~Own(s)
       /\ clock > StrayTime => \E s \in telemetry : Own(s)
       /\ clock = 0 => telemetry = {}
       /\ verdict.status # "CORRELATED"
  /\ verdict = EvaluateCorrelation(request, telemetry)

\* _telemetry's sample is its own; whatever makes it stray shows.
LEMMA StrayIsForeign ==
  ASSUME NEW p, NEW t \in Nat, stray \in Strays
  PROVE  /\ Own(Telemetry(p, t, t))
         /\ stray # "NONE" => ~Own(Foreign(Telemetry(p, t, t)))
         /\ stray = "NONE" => Foreign(Telemetry(p, t, t)) = Telemetry(p, t, t)
  <1> DEFINE s == Telemetry(p, t, t)
  <1>1. /\ Own(s)
        /\ s = [run |-> "run", config |-> "cfg", version |-> SupportedVersion,
                time |-> t, seq |-> t, simtime |-> t,
                valve |-> p.valve, flow |-> p.flow, pressure |-> p.pressure,
                source |-> p.source, receiving |-> p.receiving, running |-> Running(p.pump)]
    BY DEF Telemetry, Own
  <1>2. stray \in {"NONE", "RUN", "CONFIG", "VERSION", "ORIGIN"}
    BY StraysAssumption
  <1> HIDE DEF s
  <1>3. stray # "NONE" => ~Own(Foreign(s))
    BY <1>1, <1>2 DEF Own, Foreign, SupportedVersion
  <1>4. stray = "NONE" => Foreign(s) = s
    BY DEF Foreign
  <1> QED
    BY <1>1, <1>3, <1>4 DEF s

\* The sample a second adds to the selection, if it is not lost.
LEMMA SampleIsLater ==
  ASSUME PlantInv, Sample, clock' \notin lost
  PROVE  \E s \in SampleType :
           /\ telemetry' = telemetry \cup {s}
           /\ s.time = clock' /\ s.seq = clock' /\ LaterThan(s, telemetry)
           /\ s.valve = plant'.valve
           /\ stray = "NONE" \/ clock' # StrayTime => Own(s)
           /\ stray # "NONE" /\ clock' = StrayTime => ~Own(s)
  <1> USE DEF PlantInv, TypeOK, SimTypeOK
  <1> DEFINE own == Telemetry(plant', clock', sequence')
             s == IF clock' = StrayTime THEN Foreign(own) ELSE own
  <1>1. clock \in Nat /\ clock' = clock + 1 /\ clock' \in Nat /\ sequence' = clock'
    BY ConfigType DEF Sample, Step
  <1>2. plant' \in ProcessState
    BY SamplePreserves
  <1>3. telemetry' = telemetry \cup {s}
    BY DEF Sample
  <1>4. s \in SampleType /\ s.time = clock' /\ s.seq = clock' /\ s.valve = plant'.valve
    BY <1>1, <1>2, TelemetryType
  <1>5. /\ stray = "NONE" \/ clock' # StrayTime => Own(s)
        /\ stray # "NONE" /\ clock' = StrayTime => ~Own(s)
    BY <1>1, StrayIsForeign
  <1> HIDE DEF s
  <1>6. LaterThan(s, telemetry)
    BY <1>1, <1>4 DEF LaterThan
  <1> QED
    BY <1>3, <1>4, <1>5, <1>6

LEMMA InitSelectionInv == Init => SelectionInv
  <1> SUFFICES ASSUME Init PROVE SelectionInv
    OBVIOUS
  <1>1. EvaluateCorrelation(request, {}).status # "CORRELATED"
    BY CorrelationRests
  <1> QED
    BY <1>1 DEF Init, SimInit, SelectionInv, StrayTime

LEMMA SampleKeepsSelection ==
  ASSUME PlantInv, SelectionInv, Sample
  PROVE  SelectionInv'
  <1>1. /\ clock \in Nat /\ clock' = clock + 1 /\ StrayTime = 1
        /\ stray' = stray /\ lost' = lost /\ request' = request
        /\ request.command \in Int
        /\ verdict' = EvaluateCorrelation(request, telemetry')
    BY ConfigType, RequestsAssumption
    DEF PlantInv, TypeOK, SimTypeOK, Sample, Step, StrayTime
  <1>2. CASE stray = "NONE"
    <2>1. CASE clock' \in lost
      <3>1. telemetry' = telemetry
        BY <2>1 DEF Sample
      <3> QED
        BY <1>1, <1>2, <3>1 DEF SelectionInv
    <2>2. CASE clock' \notin lost
      <3>1. PICK s \in SampleType : telemetry' = telemetry \cup {s} /\ Own(s)
        BY <1>2, <2>2, SampleIsLater
      <3> QED
        BY <1>1, <1>2, <3>1 DEF SelectionInv
    <2> QED
      BY <2>1, <2>2
  <1>3. CASE stray # "NONE"
    <2>1. PICK s \in SampleType :
            /\ telemetry' = telemetry \cup {s}
            /\ s.time = clock'
            /\ clock' # StrayTime => Own(s)
            /\ clock' = StrayTime => ~Own(s)
      <3>1. clock' \notin lost
        BY <1>3 DEF SelectionInv
      <3> QED
        BY <1>3, <3>1, SampleIsLater
    <2>2. CASE clock = 0
      <3>1. telemetry' = {s} /\ clock' = StrayTime /\ s.time = StrayTime /\ ~Own(s)
        BY <1>1, <1>3, <2>1, <2>2 DEF SelectionInv
      <3>2. verdict'.status # "CORRELATED"
        BY <1>1, <3>1, OneSampleIsNotEnough
      <3> QED
        BY <1>1, <1>3, <2>2, <3>1, <3>2 DEF SelectionInv
    <2>3. CASE clock # 0
      <3>1. clock >= StrayTime /\ clock' > StrayTime /\ Own(s)
        BY <1>1, <2>1, <2>3
      <3>2. PICK b \in telemetry : b.time = StrayTime /\ ~Own(b)
        BY <1>3, <3>1 DEF SelectionInv
      <3>3. /\ s \in telemetry' /\ b \in telemetry'
            /\ s.time \in Int /\ b.time \in Int /\ b.simtime \in Int
        BY <2>1 DEF PlantInv, SampleType
      <3>4. RunConsistency(telemetry') # "NONE"
        BY <3>1, <3>2, <3>3, SamplePreserves, MixturesAreFound DEF PlantInv
      <3>5. verdict'.status # "CORRELATED"
        BY <1>1, <3>4, CorrelationRests
      <3> QED
        BY <1>1, <1>3, <2>1, <2>3, <3>1, <3>2, <3>5 DEF SelectionInv
    <2> QED
      BY <2>2, <2>3
  <1> QED
    BY <1>2, <1>3

\* A step from a correlation: the same verdict.
LEMMA SampleKeepsCorrelation ==
  ASSUME PlantInv, SelectionInv, Sample, verdict.status = "CORRELATED"
  PROVE  verdict' = verdict
  <1>1. /\ stray = "NONE" /\ request.command \in Int
        /\ verdict = EvaluateCorrelation(request, telemetry)
        /\ verdict' = EvaluateCorrelation(request, telemetry')
    BY RequestsAssumption DEF PlantInv, TypeOK, SelectionInv, Sample
  <1>2. CASE clock' \in lost
    <2>1. telemetry' = telemetry
      BY <1>2 DEF Sample
    <2> QED
      BY <1>1, <2>1
  <1>3. CASE clock' \notin lost
    <2>1. PICK s \in SampleType :
            /\ telemetry' = telemetry \cup {s} /\ LaterThan(s, telemetry) /\ Own(s)
            /\ s.time = clock' /\ s.seq = clock'
      BY <1>1, <1>3, SampleIsLater
    <2>2. s.time \in Nat /\ s.seq \in Nat
      BY DEF SampleType
    <2>3. \A t \in telemetry : Own(t)
      BY <1>1 DEF SelectionInv
    <2>4. \A t \in telemetry : t.time \in Nat /\ t.seq \in Int /\ t.seq < s.seq
      <3>1. \A t \in telemetry : t.time \in Nat /\ t.seq = t.time
        BY DEF PlantInv, SampleType
      <3> QED
        BY <2>1, <3>1 DEF LaterThan
    <2>5. EvaluateCorrelation(request, telemetry \cup {s})
            = EvaluateCorrelation(request, telemetry)
      BY <1>1, <2>1, <2>2, <2>3, <2>4, CorrelationStays DEF PlantInv
    <2> QED
      BY <1>1, <2>1, <2>5
  <1> QED
    BY <1>2, <1>3

-----------------------------------------------------------------------------
(***************************************************************************)
(* The ground truth                                                        *)
(***************************************************************************)
\* S3 held the valve at a second, by the ground truth: the last event about
\* it until then says that it started.
Held(t) ==
  \E on \in truths :
    /\ on.scenario = "S3" /\ on.active /\ on.at <= t
    /\ ~\E off \in truths : off.scenario = "S3" /\ ~off.active /\ on.at < off.at /\ off.at <= t

\* No event is of a later time; S3 is active only while it is held, and a
\* sample with another valve position than the plant's own was taken then.
TruthInv ==
  /\ \A e \in truths : e.at \in Nat /\ e.at <= clock
  /\ "S3" \in active => Held(clock)
  /\ \A s \in telemetry : s.valve # cfg.initial.valve => Held(s.time)

LEMMA InitTruthInv == Init => TruthInv
  BY DEF Init, SimInit, TruthInv

\* What a second adds to the ground truth is of that second.
LEMMA TruthsGrow ==
  ASSUME PlantInv, TruthInv, Sample
  PROVE  /\ truths \subseteq truths'
         /\ \A e \in truths' \ truths : e.at = clock' /\ e.active = (e.scenario \in active')
         /\ "S3" \in active' \ active =>
              \E e \in truths' : e.scenario = "S3" /\ e.active /\ e.at = clock'
  <1>1. /\ truths' = truths \cup TruthTransitions(active', active, clock')
        /\ \A e \in TruthTransitions(active', active, clock') :
             e.at = clock' /\ e.active = (e.scenario \in active')
    BY DEF Sample, Step, TruthTransitions
  <1>2. ASSUME "S3" \in active' \ active
        PROVE  \E e \in truths' : e.scenario = "S3" /\ e.active /\ e.at = clock'
    <2> DEFINE started == [scenario |-> "S3", at |-> clock', active |-> "S3" \in active']
    <2>0. started \in TruthTransitions(active', active, clock')
      BY <1>2, Zenon DEF TruthTransitions
    <2>1. PICK e \in TruthTransitions(active', active, clock') : e.scenario = "S3"
      BY <2>0
    <2> QED
      BY <1>1, <1>2, <2>1
  <1> QED
    BY <1>1, <1>2

LEMMA SampleKeepsTruth ==
  ASSUME PlantInv, TruthInv, Sample
  PROVE  TruthInv'
  <1>1. /\ clock \in Nat /\ clock' = clock + 1 /\ clock' \in Nat /\ cfg' = cfg
        /\ active' = ActiveAt(cfg, clock')
    BY ConfigType DEF PlantInv, TypeOK, SimTypeOK, Sample, Step
  <1>2. \A e \in truths' : e.at \in Nat /\ e.at <= clock'
    BY <1>1, TruthsGrow DEF TruthInv
  <1>3. ASSUME NEW t \in Nat, t <= clock, Held(t)
        PROVE  Held(t)'
    <2>1. PICK on \in truths :
            /\ on.scenario = "S3" /\ on.active /\ on.at <= t
            /\ ~\E off \in truths :
                  off.scenario = "S3" /\ ~off.active /\ on.at < off.at /\ off.at <= t
      BY <1>3 DEF Held
    <2>2. \A e \in truths' \ truths : ~(e.at <= t)
      BY <1>1, <1>3, TruthsGrow
    <2>3. on \in truths'
      BY TruthsGrow
    <2>4. ~\E off \in truths' :
            off.scenario = "S3" /\ ~off.active /\ on.at < off.at /\ off.at <= t
      BY <2>1, <2>2
    <2> QED
      BY <2>1, <2>3, <2>4 DEF Held
  <1>4. ASSUME "S3" \in active'
        PROVE  Held(clock)'
    <2>1. CASE "S3" \notin active
      <3>1. PICK on \in truths' : on.scenario = "S3" /\ on.active /\ on.at = clock'
        BY <1>4, <2>1, TruthsGrow
      <3>2. \A off \in truths' : ~(on.at < off.at)
        BY <1>1, <1>2, <3>1
      <3> QED
        BY <1>1, <3>1, <3>2 DEF Held
    <2>2. CASE "S3" \in active
      <3>1. PICK on \in truths :
              /\ on.scenario = "S3" /\ on.active /\ on.at <= clock
              /\ ~\E off \in truths :
                    off.scenario = "S3" /\ ~off.active /\ on.at < off.at /\ off.at <= clock
        BY <2>2 DEF TruthInv, Held
      <3>2. ASSUME NEW off \in truths', off.scenario = "S3", ~off.active, on.at < off.at
            PROVE  FALSE
        <4>1. off \in truths
          BY <1>4, <3>2, TruthsGrow
        <4> QED
          BY <3>1, <3>2, <4>1 DEF TruthInv
      <3>3. on \in truths' /\ on.at \in Nat /\ on.at <= clock'
        BY <1>1, <3>1, TruthsGrow DEF TruthInv
      <3> QED
        BY <3>1, <3>2, <3>3 DEF Held
    <2> QED
      BY <2>1, <2>2
  <1>5. plant'.valve # cfg.initial.valve => "S3" \in active'
    BY DEF Sample, Step, Advance, ValveInput
  <1>6. ASSUME NEW s \in telemetry', s.valve # cfg.initial.valve
        PROVE  Held(s.time)'
    <2>1. CASE s \in telemetry
      <3>1. s.time \in Nat /\ s.time <= clock /\ Held(s.time)
        BY <1>1, <1>6, <2>1 DEF PlantInv, TruthInv
      <3> QED
        BY <1>3, <3>1
    <2>2. CASE s \notin telemetry
      <3>1. clock' \notin lost
        BY <2>2 DEF Sample
      <3>2. s.time = clock' /\ s.valve = plant'.valve
        BY <2>2, <3>1, SampleIsLater
      <3> QED
        BY <1>4, <1>5, <1>6, <3>2 DEF Held
    <2> QED
      BY <2>1, <2>2
  <1> QED
    BY <1>1, <1>2, <1>4, <1>6 DEF TruthInv

\* evaluate_s3: a match on the valve is a sample of the effect window with the
\* valve at the forced position.
LEMMA ValveMatchIsSeen ==
  ASSUME NEW r, NEW tel, EvaluateCorrelation(r, tel).status = "CORRELATED",
         EvaluateCorrelation(r, tel).minimum = "VALVE_AND_DOWNSTREAM"
  PROVE  \E s \in tel :
           /\ EvaluateCorrelation(r, tel).anchor = r.command
           /\ r.command <= s.time /\ s.time <= r.command + S3Rule.effect
           /\ Abs(s.valve - S3Rule.valveTarget) <= S3Rule.valveTolerance
  <1>1. r.rule # "S4"
    <2>1. ASSUME r.rule = "S4" PROVE FALSE
      <3>1. /\ EvaluateCorrelation(r, tel) = EvaluateS4(tel, r.points)
            /\ EvaluateS4(tel, r.points).status = "CORRELATED"
        BY <2>1, CorrelationRests DEF EvaluateCorrelation
      <3>2. EvaluateS4(tel, r.points).minimum # "VALVE_AND_DOWNSTREAM"
        BY DEF EvaluateS4, ReasonDecision, Decision
      <3> QED
        BY <3>1, <3>2
    <2> QED
      BY <2>1
  <1>2. /\ EvaluateCorrelation(r, tel) = EvaluateS3(tel, r.command, r.points)
        /\ EvaluateS3(tel, r.command, r.points).status = "CORRELATED"
    BY <1>1, CorrelationRests DEF EvaluateCorrelation
  <1> DEFINE effect == EffectOf(tel, r.command, S3Rule)
             baseline == BaselineOf(tel, r.command, S3Rule)
  <1>3. S3Match(effect, baseline, r.points)
    BY <1>2, S3Rests
  <1>4. EvaluateS3(tel, r.command, r.points).anchor = r.command
    BY DEF EvaluateS3, ReasonDecision, Decision
  <1>5. Valve \in r.points
    BY <1>2, S3Rests DEF EvaluateS3, Decision
  <1>6. Persists(effect, ValveReached(effect), S3Rule.valveSamples)
    BY <1>3, <1>5 DEF S3Match
  <1>7. PICK s \in ValveReached(effect) : TRUE
    BY <1>6 DEF Persists
  <1> QED
    BY <1>2, <1>4, <1>7 DEF ValveReached, EffectOf

LEMMA ValveCause ==
  ASSUME PlantInv, SelectionInv, TruthInv
  PROVE  ValveFindingHasCause
  <1> SUFFICES ASSUME verdict.status = "CORRELATED",
                      verdict.minimum = "VALVE_AND_DOWNSTREAM", OwnValveDiffers
               PROVE  TrueDuring("S3", verdict.anchor, verdict.anchor + S3Rule.effect)
    BY DEF ValveFindingHasCause
  <1>1. verdict = EvaluateCorrelation(request, telemetry)
    BY DEF SelectionInv
  <1>2. PICK s \in telemetry :
          /\ verdict.anchor = request.command
          /\ request.command <= s.time /\ s.time <= request.command + S3Rule.effect
          /\ Abs(s.valve - S3Rule.valveTarget) <= S3Rule.valveTolerance
    BY <1>1, ValveMatchIsSeen
  <1>3. s.valve # cfg.initial.valve
    <2>1. /\ s.valve \in Int /\ cfg.initial.valve \in Int
          /\ S3Rule.valveTarget \in Int /\ S3Rule.valveTolerance \in Int
      BY ConfigType, ParameterTypes
      DEF PlantInv, TypeOK, SimTypeOK, SampleType, ProcessState, S3Rule
    <2> QED
      BY <1>2, <2>1 DEF OwnValveDiffers, Abs
  <1>4. Held(s.time)
    BY <1>3 DEF TruthInv
  <1>5. PICK on \in truths :
          /\ on.scenario = "S3" /\ on.active /\ on.at <= s.time
          /\ ~\E off \in truths :
                off.scenario = "S3" /\ ~off.active /\ on.at < off.at /\ off.at <= s.time
    BY <1>4 DEF Held
  <1>6. /\ request.command \in Int /\ s.time \in Int /\ S3Rule.effect \in Nat
        /\ \A e \in truths : e.at \in Nat
    BY RequestsAssumption, WindowTypes DEF PlantInv, TypeOK, SampleType, TruthInv
  <1>7. /\ on.at <= request.command + S3Rule.effect
        /\ ~\E off \in truths :
              /\ off.scenario = "S3" /\ ~off.active
              /\ on.at < off.at /\ off.at <= request.command
    BY <1>2, <1>5, <1>6
  <1> QED
    BY <1>2, <1>5, <1>7 DEF TrueDuring

-----------------------------------------------------------------------------
(***************************************************************************)
(* The theorems                                                            *)
(***************************************************************************)
\* What conservation and the ranges need of each other, at every second of a
\* run: run_steps.
THEOREM PlantInvariant == Spec => []PlantInv
  <1>1. PlantInv /\ [Next]_vars => PlantInv'
    BY SamplePreserves, FinishedPreserves DEF Next, Finished
  <1> QED
    BY InitPlantInv, <1>1, PTL DEF Spec

\* The plant of every run stays within its physical limits, its clock and
\* sequence number within the configured duration, and every evaluation ends
\* in one of the four statuses: _advance and evaluate_correlation.
THEOREM PlantTypeCorrect == Spec => []TypeOK
  <1>1. PlantInv => TypeOK
    BY DEF PlantInv
  <1> QED
    BY <1>1, PlantInvariant, PTL

\* No liquid appears or vanishes, for every configuration, schedule, noise
\* and duration, also in the step that empties or fills a tank: _advance.
THEOREM InventoryTheorem == Spec => []InventoryConserved
  <1>1. PlantInv => InventoryConserved
    BY DEF PlantInv
  <1> QED
    BY <1>1, PlantInvariant, PTL

\* The telemetry of every evaluation is the plant's own samples of the seconds
\* that were not lost, but for the foreign one: validate_run_consistency.
THEOREM SelectionInvariant == Spec => []SelectionInv
  <1>1. PlantInv /\ SelectionInv /\ [Next]_vars => SelectionInv'
    <2>1. ASSUME SelectionInv, UNCHANGED vars PROVE SelectionInv'
      BY <2>1 DEF SelectionInv, vars, simVars
    <2> QED
      BY <2>1, SampleKeepsSelection DEF Next, Finished
  <1> QED
    BY InitSelectionInv, <1>1, PlantInvariant, PTL DEF Spec

\* A selection with one sample of another run, configuration or simulator
\* version, or of a run that started at another time, is never CORRELATED:
\* validate_run_consistency.
THEOREM MixtureTheorem == Spec => []MixturesNeverCorrelate
  <1>1. SelectionInv => MixturesNeverCorrelate
    BY DEF SelectionInv, MixturesNeverCorrelate
  <1> QED
    BY <1>1, SelectionInvariant, PTL

\* A correlation is final, for every plant, schedule, request and set of lost
\* seconds: select_window closes the windows, and _find_anchor's first anchor
\* is settled by the samples before it.
THEOREM FinalityTheorem == Spec => CorrelationIsFinal
  <1>1. PlantInv /\ SelectionInv /\ [Next]_vars
          => [verdict.status = "CORRELATED" => verdict' = verdict]_vars
    BY SampleKeepsCorrelation DEF Next, Finished, vars
  <1> QED
    BY <1>1, PlantInvariant, SelectionInvariant, PTL DEF Spec, CorrelationIsFinal

\* A sample in which the valve is not where the plant has it was taken while S3
\* was on: _scenario_inputs.
THEOREM TruthInvariant == Spec => []TruthInv
  <1>1. PlantInv /\ TruthInv /\ [Next]_vars => TruthInv'
    <2>1. ASSUME TruthInv, UNCHANGED vars PROVE TruthInv'
      BY <2>1 DEF TruthInv, Held, vars, simVars
    <2> QED
      BY <2>1, SampleKeepsTruth DEF Next, Finished
  <1> QED
    BY InitTruthInv, <1>1, PlantInvariant, PTL DEF Spec

\* Whatever the plant, the schedule, the losses and the request: if evaluate_s3
\* finds a correlation on the position of the valve, S3 did hold it within the
\* effect window, by the ground truth the evaluator does not see.
THEOREM ValveCauseTheorem == Spec => []ValveFindingHasCause
  <1> QED
    BY ValveCause, PlantInvariant, SelectionInvariant, TruthInvariant, PTL

\* Both together: no correlation on telemetry that is not the plant's own, and
\* none on a valve that S3 did not hold.
THEOREM CauseTheorem == Spec => []CorrelationHasCause
  <1> QED
    BY MixtureTheorem, ValveCauseTheorem, PTL DEF CorrelationHasCause

=============================================================================
