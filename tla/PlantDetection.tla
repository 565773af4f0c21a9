--------------------------- MODULE PlantDetection ---------------------------
(***************************************************************************)
(* The simulator composed with the correlation evaluator: the plant runs,  *)
(* each second's telemetry is kept or lost, and the samples kept so far    *)
(* are evaluated.  The evaluator sees only telemetry; the ground truth the *)
(* simulator emits is used by the properties alone.  Evaluation is a       *)
(* function of the selection, so evaluating after every second covers an   *)
(* evaluation requested at any moment of the run.                          *)
(***************************************************************************)
EXTENDS PlantSimulator, Correlation

CONSTANTS
  Requests,     \* the evaluation requests explored
  Losses,       \* the sets of seconds whose sample is not in the selection
  Strays        \* how a sample of another origin enters the selection, or "NONE"

VARIABLES
  request,      \* the CorrelationEvaluationInput, without its telemetry
  lost,         \* the seconds missing from the selection
  stray,        \* the kind of foreign sample in the selection
  telemetry,    \* the selected samples
  verdict       \* the decision on the samples selected so far

vars == <<simVars, request, lost, stray, telemetry, verdict>>

\* The command that anchors a request is observed at some second, before the
\* run or after it too: an aware datetime of the parent evidence.
ASSUME RequestsAssumption == \A r \in Requests : r.command \in Int

\* The four checks of validate_run_consistency, or none of them, are met.
ASSUME StraysAssumption == Strays \subseteq {"NONE", "RUN", "CONFIG", "VERSION", "ORIGIN"}

-----------------------------------------------------------------------------
(* _telemetry: the sample of the present state.  observed_at is the start   *)
(* time of the run plus the simulation time.                                *)
Telemetry(p, t, n) ==
  [run |-> "run", config |-> "cfg", version |-> SupportedVersion,
   time |-> t, seq |-> n, simtime |-> t,
   valve |-> p.valve, flow |-> p.flow, pressure |-> p.pressure,
   source |-> p.source, receiving |-> p.receiving, running |-> Running(p.pump)]

(* A selection by evidence id may hold a sample of another run, another     *)
(* configuration or simulator version, or of a run that started later.      *)
Foreign(s) ==
  CASE stray = "RUN" -> [s EXCEPT !.run = "other"]
    [] stray = "CONFIG" -> [s EXCEPT !.config = "other"]
    [] stray = "VERSION" -> [s EXCEPT !.version = "2.0.0"]
    [] stray = "ORIGIN" -> [s EXCEPT !.simtime = @ + 1]
    [] OTHER -> s

(* The second whose sample is the foreign one.                              *)
StrayTime == 1

Init ==
  /\ SimInit
  /\ request \in Requests
  /\ lost \in Losses
  /\ stray \in Strays
  /\ stray # "NONE" => lost = {}
  /\ telemetry = {}
  /\ verdict = EvaluateCorrelation(request, {})

Sample ==
  /\ Step
  /\ LET s == Telemetry(plant', clock', sequence')
     IN  telemetry' = IF clock' \in lost THEN telemetry
                      ELSE telemetry \cup {IF clock' = StrayTime THEN Foreign(s) ELSE s}
  /\ verdict' = EvaluateCorrelation(request, telemetry')
  /\ UNCHANGED <<request, lost, stray>>

(* The run is over when run_steps has used the configured duration.         *)
Finished == clock = cfg.duration /\ UNCHANGED vars

Next == Sample \/ Finished

Spec == Init /\ [][Next]_vars

-----------------------------------------------------------------------------
(* Types of the composed state.                                             *)
TypeOK ==
  /\ SimTypeOK
  /\ request \in Requests /\ lost \in Losses /\ stray \in Strays
  /\ Cardinality(telemetry) <= clock
  /\ verdict.status \in {"CORRELATED", "NOT_CORRELATED", "INSUFFICIENT_EVIDENCE",
                         "INDETERMINATE"}

(* Was a scenario active at some second of an interval, by the ground       *)
(* truth: started before its end and not stopped before its beginning.      *)
TrueDuring(s, from, to) ==
  \E on \in truths :
    /\ on.scenario = s /\ on.active /\ on.at <= to
    /\ ~\E off \in truths : off.scenario = s /\ ~off.active /\ on.at < off.at /\ off.at <= from

RanDry == plant.source = 0 \/ plant.receiving = TankCapacity

(* A selection that mixes runs, configurations, versions or clocks is never *)
(* CORRELATED, whatever the foreign sample says of the process:             *)
(* validate_run_consistency.                                                *)
MixturesNeverCorrelate == stray # "NONE" => verdict.status # "CORRELATED"

(* The plant's own valve position is not the one S3 forces: the rule looks  *)
(* for that position and not for a change of it.                            *)
OwnValveDiffers == Abs(cfg.initial.valve - S3Rule.valveTarget) > S3Rule.valveTolerance

(* No false correlation, of the valve: whatever is lost and whichever       *)
(* scenarios run, a CORRELATED decision of evaluate_s3 that used the valve  *)
(* position means that S3 really held the valve inside the effect window.   *)
ValveFindingHasCause ==
  (/\ verdict.status = "CORRELATED" /\ verdict.minimum = "VALVE_AND_DOWNSTREAM"
   /\ OwnValveDiffers)
    => TrueDuring("S3", verdict.anchor, verdict.anchor + S3Rule.effect)

(* What is found correlated has a cause in this plant: its telemetry is the *)
(* plant's own, and a finding on the valve is a valve that S3 held.         *)
CorrelationHasCause == MixturesNeverCorrelate /\ ValveFindingHasCause

(* No false correlation, of the flow: a CORRELATED decision of evaluate_s3  *)
(* without the valve position means that some scenario or an exhausted tank *)
(* stopped the flow, and one of evaluate_s4, where S3 throttles the plant,  *)
(* that S4 closed the flow path or a tank ran out: a run dry behind a       *)
(* throttled valve looks like S4.  Where S3 opens a valve that is shut, its *)
(* end looks like S4 too, if the sample of that second is lost.             *)
FlowFindingHasCause ==
  verdict.status = "CORRELATED" =>
    CASE verdict.minimum = "DUAL_DOWNSTREAM_WITHOUT_VALVE" ->
           \/ \E s \in Scenarios : TrueDuring(s, verdict.anchor, verdict.anchor + S3Rule.effect)
           \/ RanDry
      [] verdict.minimum = "S4_PROCESS_INCONSISTENCY" /\ cfg.initial.valve > S3Valve ->
           TrueDuring("S4", verdict.anchor, verdict.anchor + S4Rule.effect) \/ RanDry
      [] OTHER -> TRUE

(* The initial plant is at rest: without a scenario nothing would change.   *)
AtRest ==
  LET next == Advance(cfg.initial, cfg.initial.pump, cfg.initial.valve, 1, 0)
  IN  next.flow = cfg.initial.flow /\ next.pressure = cfg.initial.pressure

(* Exactly one scenario ever ran, from a second on.                         *)
OnlyScenario(s, from) == truths = {[scenario |-> s, at |-> from, active |-> TRUE]}

(* A request the evaluator accepts, over a complete selection.              *)
Complete(rule, cyber, points) ==
  /\ request.rule = rule /\ request.cyber = cyber /\ request.points = points
  /\ request.versionKnown /\ request.digestMatches
  /\ lost = {} /\ stray = "NONE"
  /\ AtRest /\ ~RanDry

(* The last second of the effect window at which S3 may start and still     *)
(* show: the flow needs two seconds to fall by the threshold, then five     *)
(* samples, the last of them at the end of the window.                      *)
LatestS3Start == request.command + S3Rule.effect - 5

(* Nothing is missed: from a plant at rest, with a complete selection, a    *)
(* scenario that stays active is found CORRELATED as soon as its window is  *)
(* finalised (S3 wherever in the window it starts up to the last possible   *)
(* second, S4 anchored at the second it starts), and the tank levels        *)
(* support an S3 that starts on the command.                                *)
ScenariosAreDetected ==
  /\ \A at \in request.command..LatestS3Start :
       (/\ Complete("S3", "VERIFIED", S3Rule.points) /\ request.command > S3Rule.baseline
        /\ OnlyScenario("S3", at) /\ clock >= request.command + S3Rule.effect)
          => /\ verdict.status = "CORRELATED"
             /\ at = request.command => verdict.inventory = "SUPPORTING"
  /\ \A at \in S4Rule.baseline + 1..cfg.duration :
       (/\ Complete("S4", "NONE", S4Rule.points)
        /\ OnlyScenario("S4", at) /\ clock >= at + S4Rule.effect)
          => verdict.status = "CORRELATED" /\ verdict.anchor = at

(* The thresholds of the profile fit the dynamics of the plant: what they   *)
(* call a change of flow is none of the plant's own, and what a scenario    *)
(* does to the plant passes them.                                           *)
ThresholdsFitPlant == FlowFindingHasCause /\ ScenariosAreDetected

(* A finding of correlation is final: telemetry that arrives later never    *)
(* turns CORRELATED into anything else, nor moves its anchor.               *)
CorrelationIsFinal ==
  [][verdict.status = "CORRELATED" => verdict' = verdict]_vars

=============================================================================
