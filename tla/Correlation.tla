----------------------------- MODULE Correlation -----------------------------
(***************************************************************************)
(* The offline correlation evaluator (app/correlation): given a request    *)
(* that names a rule, the verified cyber parents and a selection of stored *)
(* telemetry, decide whether the process observations are consistent with  *)
(* the rule.  Everything here is a function of the request: the evaluator  *)
(* keeps no state.                                                         *)
(*                                                                         *)
(* A sample is a record with the run, configuration and simulator version  *)
(* it came from, its observed time, sequence number and simulation time,   *)
(* and the process values in the units of PlantSimulator.  Means are       *)
(* compared by cross-multiplication, so no precision is lost.              *)
(***************************************************************************)
EXTENDS Integers, FiniteSets, FiniteSetsExt

CONSTANTS NoAnchor   \* no anchor time

(* The points a correlation rule may read.                                  *)
Valve == "control_valve_position_percent"
Flow == "pipeline_flow_rate_m3h"
Pressure == "pipeline_pressure_bar"
SourceLevel == "source_tank_level_percent"
ReceivingLevel == "receiving_tank_level_percent"
PumpRunning == "transfer_pump_running"

(* The two rules of the frozen profile, thresholds in plant units.          *)
S3Rule ==
  [baseline |-> 10, effect |-> 30, minBaseline |-> 8, minEffect |-> 24, maxGap |-> 2,
   points |-> {Valve, Flow, Pressure, SourceLevel, ReceivingLevel},
   valveTarget |-> 250, valveTolerance |-> 5, valveStability |-> 5, valveSamples |-> 3,
   flowDecrease |-> 200, flowDeadband |-> 40, flowStability |-> 40, flowSamples |-> 5,
   pressureIncrease |-> 1000, pressureDeadband |-> 500, pressureStability |-> 500,
   pressureSamples |-> 5, rateReduction |-> 288]

S4Rule ==
  [baseline |-> 10, effect |-> 60, minBaseline |-> 8, minEffect |-> 50, maxGap |-> 2,
   points |-> {PumpRunning, Flow, Pressure, SourceLevel, ReceivingLevel},
   flowDecrease |-> 200, lowFlow |-> 40, flowStability |-> 40, flowSamples |-> 10,
   pressureIncrease |-> 5000, pressureStability |-> 500, pressureSamples |-> 10,
   stagnation |-> 144, terminal |-> 20]

(* The only simulator version the dependencies of the profile allow.        *)
SupportedVersion == "3.0.0"

StatusByReason(reason) ==
  CASE reason = "CORRELATION_MATCH" -> "CORRELATED"
    [] reason \in {"PROCESS_CHANGE_OUTSIDE_WINDOW", "NO_PROCESS_CHANGE",
                   "PROCESS_EFFECT_DIRECTION_MISMATCH"} -> "NOT_CORRELATED"
    [] reason \in {"WINDOW_NOT_FINALIZED", "MISSING_TELEMETRY", "INSUFFICIENT_SAMPLES",
                   "TELEMETRY_GAP_EXCEEDED", "BASELINE_NOT_STABLE"} -> "INSUFFICIENT_EVIDENCE"
    [] OTHER -> "INDETERMINATE"

(* A decision: its reason and anchor, the set of conditions a match rests   *)
(* on, and whether the tank levels support or contradict it.                *)
Decision(reason, anchor, minimum, inventory) ==
  [status |-> StatusByReason(reason), reason |-> reason, anchor |-> anchor,
   minimum |-> minimum, inventory |-> inventory]

ReasonDecision(reason, anchor) == Decision(reason, anchor, "NONE", "NONE")

-----------------------------------------------------------------------------
(* temporal.py                                                              *)

(* A selection is the set of its samples: canonical_telemetry drops what is *)
(* given twice.                                                             *)
Distinct(tel, field) == Cardinality({s[field] : s \in tel})

(* validate_run_consistency: the first inconsistency, or "NONE".            *)
RunConsistency(tel) ==
  IF tel = {} THEN "NONE"
  ELSE IF Distinct(tel, "run") # 1 THEN "RUN_ID_MISMATCH"
  ELSE IF Distinct(tel, "config") # 1 THEN "CONFIGURATION_MISMATCH"
  ELSE IF \E s \in tel : s.version # SupportedVersion
       THEN "SIMULATOR_VERSION_MISMATCH"
  ELSE IF \/ Distinct(tel, "time") # Cardinality(tel)
          \/ Distinct(tel, "seq") # Cardinality(tel)
          \/ Cardinality({s.time - s.simtime : s \in tel}) # 1
       THEN "CLOCK_SEQUENCE_MISMATCH"
  ELSE "NONE"

(* select_window: the baseline precedes the anchor, the effect starts with  *)
(* it; both ends of the effect are included.                                *)
BaselineOf(tel, anchor, rule) ==
  {s \in tel : anchor - rule.baseline <= s.time /\ s.time < anchor}
\* Mutants: the effect window without an end, and without its last second.
EffectOfUnbounded(tel, anchor, rule) == {s \in tel : anchor <= s.time}
EffectOfHalfOpen(tel, anchor, rule) ==
  {s \in tel : anchor <= s.time /\ s.time < anchor + rule.effect}
EffectOf(tel, anchor, rule) ==
  {s \in tel : anchor <= s.time /\ s.time <= anchor + rule.effect}
AfterOf(tel, anchor, rule) == {s \in tel : s.time > anchor + rule.effect}
\* Mutant: the window counts as final at its last second only.
FinalizedAtEnd(tel, anchor, rule) ==
  /\ \E s \in tel : s.time = anchor + rule.effect
  /\ \A s \in tel : s.time <= anchor + rule.effect
Finalized(tel, anchor, rule) == \E s \in tel : s.time >= anchor + rule.effect

(* canonical_telemetry orders the samples by their times, of which          *)
(* validate_run_consistency has found no two alike.                         *)
Earliest(part) == CHOOSE s \in part : \A t \in part : s.time <= t.time
Latest(part) == CHOOSE s \in part : \A t \in part : s.time >= t.time
Between(part, s, t) == {u \in part : s.time <= u.time /\ u.time <= t.time}

(* _adjacent_gaps, of one part of the window at a time.                     *)
GapExceeded(part, rule) ==
  \E s, t \in part :
    /\ s.time < t.time
    /\ ~\E u \in part : s.time < u.time /\ u.time < t.time
    /\ LET seconds == t.time - s.time
       IN  t.seq - s.seq # seconds \/ seconds > rule.maxGap

-----------------------------------------------------------------------------
(* baseline.py and process.py                                               *)

Sum(part, field) == MapThenSumSet(LAMBDA s : s[field], part)

ValueRange(part, field) ==
  LET values == {s[field] : s \in part}
  IN  Max(values) - Min(values)

Abs(x) == IF x < 0 THEN -x ELSE x

(* The level change of an endpoint slope and the seconds it took.           *)
LevelChange(part, field) == Abs(Latest(part)[field] - Earliest(part)[field])
Seconds(part) == Latest(part).time - Earliest(part).time

(* The samples from s to t all satisfy a condition, and are n or more; such *)
(* is the set of those that do.                                             *)
Run(part, such, s, t, n) ==
  LET run == Between(part, s, t)
  IN  run \subseteq such /\ Cardinality(run) >= n

(* maximum_persistence >= n.                                                *)
Persists(part, such, n) == \E s, t \in such : Run(part, such, s, t, n)

(* representative_value: the last n samples of the last run of n or more    *)
(* that satisfy a condition, or the last n samples.                         *)
Representative(part, such, n) ==
  LET runEnds == {t \in such : \E s \in such : Run(part, such, s, t, n)}
      end == Latest(IF runEnds = {} THEN part ELSE runEnds)
  IN  {s \in part : s.time <= end.time /\ Cardinality(Between(part, s, end)) <= n}

(* classify_delta of a representative value against a baseline mean.        *)
Unchanged(observed, baseline, field, deadband) ==
  Abs(Sum(observed, field) * Cardinality(baseline) - Sum(baseline, field) * Cardinality(observed))
     <= deadband * Cardinality(baseline) * Cardinality(observed)

-----------------------------------------------------------------------------
(* s3.py: a command to the valve followed by a process change.              *)

(* The samples at which each observation of the rule holds.                 *)
ValveReached(part) ==
  {s \in part : Abs(s.valve - S3Rule.valveTarget) <= S3Rule.valveTolerance}
FlowFell(part, baseline) ==
  {s \in part : s.flow * Cardinality(baseline)
                  <= Sum(baseline, "flow") - S3Rule.flowDecrease * Cardinality(baseline)}
PressureRose(part, baseline, rule) ==
  {s \in part : s.pressure * Cardinality(baseline)
                  >= Sum(baseline, "pressure") + rule.pressureIncrease * Cardinality(baseline)}

(* A match needs the valve and one downstream point, or both downstream     *)
(* points when the valve position is not available.                         *)
S3Match(part, baseline, points) ==
  LET valve == /\ Valve \in points
               /\ Persists(part, ValveReached(part), S3Rule.valveSamples)
      flow == /\ Flow \in points
              /\ Persists(part, FlowFell(part, baseline), S3Rule.flowSamples)
      pressure == /\ Pressure \in points
                  /\ Persists(part, PressureRose(part, baseline, S3Rule), S3Rule.pressureSamples)
  IN  (valve /\ (flow \/ pressure)) \/ (Valve \notin points /\ flow /\ pressure)

S3PointsMissing(points) ==
  IF Valve \in points THEN {Flow, Pressure} \cap points = {}
                      ELSE ~({Flow, Pressure} \subseteq points)

S3BaselineUnstable(baseline, points) ==
  \/ Valve \in points /\ ValueRange(baseline, "valve") > S3Rule.valveStability
  \/ Flow \in points /\ ValueRange(baseline, "flow") > S3Rule.flowStability
  \/ Pressure \in points /\ ValueRange(baseline, "pressure") > S3Rule.pressureStability

(* Every required observation is within its deadband.                       *)
S3NoChange(effect, baseline, points) ==
  /\ Valve \in points =>
       Unchanged(Representative(effect, ValveReached(effect), S3Rule.valveSamples), baseline,
                 "valve", S3Rule.valveTolerance)
  /\ Flow \in points =>
       Unchanged(Representative(effect, FlowFell(effect, baseline), S3Rule.flowSamples),
                 baseline, "flow", S3Rule.flowDeadband)
  /\ Pressure \in points =>
       Unchanged(Representative(effect, PressureRose(effect, baseline, S3Rule),
                                S3Rule.pressureSamples),
                 baseline, "pressure", S3Rule.pressureDeadband)

(* _s3_inventory_observations: both tank rates fell by the threshold and by *)
(* the same amount.                                                         *)
S3Inventory(baseline, effect) ==
  LET Slowed(field) ==
        LevelChange(baseline, field) * Seconds(effect) - LevelChange(effect, field) * Seconds(baseline)
          >= S3Rule.rateReduction * Seconds(baseline) * Seconds(effect)
  IN  IF /\ Slowed("source") /\ Slowed("receiving")
         /\ LevelChange(effect, "source") = LevelChange(effect, "receiving")
      THEN "SUPPORTING" ELSE "CONTRADICTING"

EvaluateS3(tel, anchor, points) ==
  LET baseline == BaselineOf(tel, anchor, S3Rule)
      effect == EffectOf(tel, anchor, S3Rule)
      Observed(reason, minimum) == Decision(reason, anchor, minimum, S3Inventory(baseline, effect))
  IN  IF ~Finalized(tel, anchor, S3Rule) THEN ReasonDecision("WINDOW_NOT_FINALIZED", anchor)
      ELSE IF S3PointsMissing(points) THEN ReasonDecision("MISSING_TELEMETRY", anchor)
      ELSE IF Cardinality(baseline) < S3Rule.minBaseline \/ Cardinality(effect) < S3Rule.minEffect
           THEN ReasonDecision("INSUFFICIENT_SAMPLES", anchor)
      ELSE IF GapExceeded(baseline, S3Rule) \/ GapExceeded(effect, S3Rule)
           THEN ReasonDecision("TELEMETRY_GAP_EXCEEDED", anchor)
      ELSE IF S3BaselineUnstable(baseline, points)
           THEN ReasonDecision("BASELINE_NOT_STABLE", anchor)
      ELSE IF S3Match(effect, baseline, points)
           THEN Observed("CORRELATION_MATCH",
                         IF Valve \in points THEN "VALVE_AND_DOWNSTREAM"
                                             ELSE "DUAL_DOWNSTREAM_WITHOUT_VALVE")
      ELSE IF S3Match(AfterOf(tel, anchor, S3Rule), baseline, points)
           THEN Observed("PROCESS_CHANGE_OUTSIDE_WINDOW", "NONE")
      ELSE IF S3NoChange(effect, baseline, points)
           THEN Observed("NO_PROCESS_CHANGE", "NONE")
      ELSE Observed("PROCESS_EFFECT_DIRECTION_MISMATCH", "NONE")

-----------------------------------------------------------------------------
(* s4.py: the pump runs, the flow is low, the pressure rises and the tanks  *)
(* stand still; the telemetry itself supplies the anchor.                   *)

IsAnchor(tel, s) ==
  LET baseline == BaselineOf(tel, s.time, S4Rule)
  IN  /\ Cardinality(baseline) >= S4Rule.minBaseline
      /\ s.running /\ \A t \in baseline : t.running
      /\ ValueRange(baseline, "flow") <= S4Rule.flowStability
      /\ s.flow * Cardinality(baseline)
           <= Sum(baseline, "flow") - S4Rule.flowDecrease * Cardinality(baseline)

(* _find_anchor: the first sample whose flow falls from a stable baseline.  *)
FindAnchor(tel) ==
  LET anchors == {s.time : s \in {s \in tel : IsAnchor(tel, s)}}
  IN  IF anchors = {} THEN NoAnchor ELSE Min(anchors)

(* Over the last twenty seconds of the window, none of them missing at the  *)
(* ends, both levels move no faster than the stagnation threshold.          *)
Stagnant(effect, anchor) ==
  LET terminal == {s \in effect : s.time >= anchor + S4Rule.effect - S4Rule.terminal}
  IN  /\ Cardinality(terminal) >= 2
      /\ Seconds(terminal) >= S4Rule.terminal
      /\ LevelChange(terminal, "source") <= S4Rule.stagnation * Seconds(terminal)
      /\ LevelChange(terminal, "receiving") <= S4Rule.stagnation * Seconds(terminal)
      /\ LevelChange(terminal, "source") = LevelChange(terminal, "receiving")

S4Match(effect, baseline, anchor) ==
  /\ Persists(effect, {s \in effect : s.running}, S4Rule.flowSamples)
  /\ Persists(effect, {s \in effect : s.flow <= S4Rule.lowFlow}, S4Rule.flowSamples)
  /\ Persists(effect, PressureRose(effect, baseline, S4Rule), S4Rule.pressureSamples)
  /\ Stagnant(effect, anchor)

EvaluateS4(tel, points) ==
  LET anchor == FindAnchor(tel)
      baseline == BaselineOf(tel, anchor, S4Rule)
      effect == EffectOf(tel, anchor, S4Rule)
  IN  IF anchor = NoAnchor
      THEN IF \/ Cardinality(tel) < S4Rule.minBaseline + S4Rule.minEffect
              \/ Seconds(tel) < S4Rule.baseline + S4Rule.effect
           THEN ReasonDecision("INSUFFICIENT_SAMPLES", NoAnchor)
           ELSE ReasonDecision("NO_PROCESS_CHANGE", NoAnchor)
      ELSE IF ~Finalized(tel, anchor, S4Rule) THEN ReasonDecision("WINDOW_NOT_FINALIZED", anchor)
      ELSE IF ~(S4Rule.points \subseteq points) THEN ReasonDecision("MISSING_TELEMETRY", anchor)
      ELSE IF Cardinality(baseline) < S4Rule.minBaseline \/ Cardinality(effect) < S4Rule.minEffect
           THEN ReasonDecision("INSUFFICIENT_SAMPLES", anchor)
      ELSE IF GapExceeded(baseline, S4Rule) \/ GapExceeded(effect, S4Rule)
           THEN ReasonDecision("TELEMETRY_GAP_EXCEEDED", anchor)
      ELSE IF \/ ValueRange(baseline, "flow") > S4Rule.flowStability
              \/ ValueRange(baseline, "pressure") > S4Rule.pressureStability
              \/ \E s \in baseline : ~s.running
           THEN ReasonDecision("BASELINE_NOT_STABLE", anchor)
      ELSE IF S4Match(effect, baseline, anchor)
           THEN Decision("CORRELATION_MATCH", anchor, "S4_PROCESS_INCONSISTENCY", "NONE")
      ELSE ReasonDecision("PROCESS_EFFECT_DIRECTION_MISMATCH", anchor)

-----------------------------------------------------------------------------
(* evaluator.py: evaluate_correlation.  A request names the profile and     *)
(* rule it expects, the points it supplies and its cyber context: "NONE",   *)
(* or whether the parents have the right types ("UNVERIFIED" if not) and    *)
(* map the command to CV-101 ("MISMATCH" if not); the command time anchors. *)
EvaluateCorrelation(request, tel) ==
  LET anchor == IF request.cyber = "NONE" THEN NoAnchor ELSE request.command
      consistency == RunConsistency(tel)
      rule == IF request.rule = "S3" THEN S3Rule ELSE S4Rule
  IN  IF ~request.versionKnown THEN ReasonDecision("PROFILE_VERSION_UNSUPPORTED", anchor)
      ELSE IF ~request.digestMatches THEN ReasonDecision("PROFILE_DIGEST_MISMATCH", anchor)
      ELSE IF request.rule \notin {"S3", "S4"}
           THEN ReasonDecision("UNSUPPORTED_CORRELATION_RULE", anchor)
      ELSE IF request.rule = "S3" /\ request.cyber \in {"NONE", "UNVERIFIED"}
           THEN ReasonDecision("PARENT_EVIDENCE_NOT_VERIFIED", anchor)
      ELSE IF consistency # "NONE" THEN ReasonDecision(consistency, anchor)
      ELSE IF request.rule = "S3" /\ request.cyber = "MISMATCH"
           THEN ReasonDecision("ASSET_RELATION_MISMATCH", anchor)
      ELSE IF request.rule = "S4" /\ request.cyber # "NONE"
           THEN ReasonDecision("ASSET_RELATION_MISMATCH", NoAnchor)
      ELSE IF ~(request.points \subseteq rule.points)
           THEN ReasonDecision("POINT_RELATION_NOT_DEFINED", anchor)
      ELSE IF tel = {} THEN ReasonDecision("MISSING_TELEMETRY", anchor)
      ELSE IF request.rule = "S3" THEN EvaluateS3(tel, anchor, request.points)
      ELSE EvaluateS4(tel, request.points)

=============================================================================
