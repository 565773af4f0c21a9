--------------------------- MODULE PlantSimulator ---------------------------
(***************************************************************************)
(* The fixed-step liquid-transfer simulator (app/simulation): two tanks, a *)
(* pump, a control valve and a pipeline, advanced one second at a time,    *)
(* under a schedule of scenarios S3 (valve forced to 25 %) and S4 (flow    *)
(* path closed).                                                           *)
(*                                                                         *)
(* The floats of the code are fixed-point integers here, in units chosen   *)
(* so that every constant of the default configuration is exact:           *)
(*   flow         1/400 m3/h            pressure     1/10000 bar           *)
(*   tank content 1/400 m3/h for one second (1000 m3 = 1440000000)         *)
(*   valve, pump  1/10 percent          temperature  1/10000 degree        *)
(* With these units one second of flow f moves f units between the tanks,  *)
(* and the pressure relief of 0.04 bar per m3/h is one unit per unit.      *)
(* Divisions by a time constant round down, by less than one unit a step.  *)
(***************************************************************************)
EXTENDS Integers, FiniteSets

CONSTANTS
  Configs,    \* the simulation configurations explored
  NoEnd       \* end_time_seconds is None

VARIABLES
  cfg,        \* the SimulationConfig of the simulator, fixed at construction
  plant,      \* _state: the ProcessState
  clock,      \* _time_seconds
  sequence,   \* _sequence
  active,     \* _active_scenarios
  truths      \* the ground-truth events the steps have emitted

simVars == <<cfg, plant, clock, sequence, active, truths>>

-----------------------------------------------------------------------------
(* Fixed parameters of the default SimulationConfig, in the units above.    *)

TankCapacity == 1440000000
MaxFlow == 4800
MaxPressure == 40000
MaxTemperature == 800000
FlowTimeConstant == 8
PressureTimeConstant == 5
TemperatureTimeConstant == 900
MaxFlowChange == 1000
MaxPressureChange == 5000
BaselinePressure == 3000
PumpPressureGain == 14000
RestrictionPressureGain == 18000
AmbientTemperature == 240000
PumpTemperatureGain == 15000
NoiseAmplitude == 8
MaxDuration == 86400
\* 100 percent of a valve position or a pump command.
FullScale == 1000

(* The approved scenarios that act on the process; S1 and S2 are metadata   *)
(* only and a schedule that names them is rejected.                         *)
Scenarios == {"S3", "S4"}
S3Valve == 250

ProcessState ==
  [source: 0..TankCapacity, receiving: 0..TankCapacity, pump: 0..FullScale,
   valve: 0..FullScale, flow: 0..MaxFlow, pressure: 0..MaxPressure,
   temperature: 0..MaxTemperature]

(* ScenarioSchedule.validate.                                               *)
ValidSchedule(s) ==
  /\ s.id \in Scenarios
  /\ s.start >= 0
  /\ s.end # NoEnd => s.end > s.start

(* SimulationConfig.__post_init__.                                          *)
ValidConfig(c) ==
  /\ c.duration \in 1..MaxDuration
  /\ c.initial \in ProcessState
  /\ c.noise \in BOOLEAN
  /\ \A s \in c.scenarios : ValidSchedule(s)

ASSUME ConfigsAreValid == \A c \in Configs : ValidConfig(c)

-----------------------------------------------------------------------------
Clamp(x, lower, upper) ==
  IF x < lower THEN lower ELSE IF x > upper THEN upper ELSE x

ActiveAt(c, t) ==
  {s.id : s \in {s \in c.scenarios : s.start <= t /\ (s.end = NoEnd \/ t < s.end)}}

(* _truth_transitions: one event per scenario that starts or stops.         *)
TruthTransitions(now, before, t) ==
  {[scenario |-> s, at |-> t, active |-> s \in now] :
      s \in (now \ before) \cup (before \ now)}

ValveInput(c, now) == IF "S3" \in now THEN S3Valve ELSE c.initial.valve
PathInput(now) == IF "S4" \in now THEN 0 ELSE 1

(* A pump command of at most one percent counts as stopped.                 *)
Running(command) == command > 10

(* The flow the pump, the valve and the path ask for, approached with the   *)
(* flow time constant and a bounded slew rate.                              *)
DynamicFlow(p, effort, valve, path, noise) ==
  LET target == Clamp((((MaxFlow * effort) \div FullScale) * valve * path) \div FullScale + noise,
                      0, MaxFlow)
      change == Clamp((target - p.flow) \div FlowTimeConstant,
                      -MaxFlowChange, MaxFlowChange)
  IN  Clamp(p.flow + change, 0, MaxFlow)

\* Mutant: the inventory limit is forgotten.
TransferredFlowUnlimited(p, wanted) == wanted

(* No more than the source holds or the receiving tank can take.            *)
TransferredFlow(p, wanted) ==
  LET transferable == IF p.source < TankCapacity - p.receiving
                      THEN p.source ELSE TankCapacity - p.receiving
  IN  IF wanted < transferable THEN wanted ELSE transferable

NextPressure(p, effort, valve, path, flow) ==
  LET restriction == FullScale - valve * path
      target == BaselinePressure + (PumpPressureGain * effort) \div FullScale
                + (((RestrictionPressureGain * effort) \div FullScale) * restriction) \div FullScale
                - flow
      change == Clamp((target - p.pressure) \div PressureTimeConstant,
                      -MaxPressureChange, MaxPressureChange)
  IN  Clamp(p.pressure + change, 0, MaxPressure)

NextTemperature(p, effort) ==
  LET target == AmbientTemperature + (PumpTemperatureGain * effort) \div FullScale
  IN  Clamp(p.temperature + (target - p.temperature) \div TemperatureTimeConstant,
            0, MaxTemperature)

\* Mutant: the receiving tank is credited with the flow before the limit.
AdvanceUnlimitedArrival(p, command, valve, path, noise) ==
  LET effort == IF Running(command) THEN command ELSE 0
      wanted == DynamicFlow(p, effort, valve, path, noise)
      flow == TransferredFlow(p, wanted)
  IN  [source |-> p.source - flow, receiving |-> p.receiving + wanted,
       pump |-> command, valve |-> valve, flow |-> flow,
       pressure |-> NextPressure(p, effort, valve, path, flow),
       temperature |-> NextTemperature(p, effort)]

(* _advance.                                                                *)
Advance(p, command, valve, path, noise) ==
  LET effort == IF Running(command) THEN command ELSE 0
      flow == TransferredFlow(p, DynamicFlow(p, effort, valve, path, noise))
  IN  [source |-> p.source - flow,
       receiving |-> p.receiving + flow,
       pump |-> command,
       valve |-> valve,
       flow |-> flow,
       pressure |-> NextPressure(p, effort, valve, path, flow),
       temperature |-> NextTemperature(p, effort)]

(* rng.uniform(-amplitude, amplitude), drawn only with noise and a pump.    *)
Noises(c) ==
  IF c.noise /\ Running(c.initial.pump) THEN {-NoiseAmplitude, 0, NoiseAmplitude} ELSE {0}

-----------------------------------------------------------------------------
(* reset: the constructor's only effect on the state.                       *)
SimInit ==
  /\ cfg \in Configs
  /\ plant = cfg.initial
  /\ clock = 0
  /\ sequence = 0
  /\ active = {}
  /\ truths = {}

(* step, within the run_steps guard on the configured duration.             *)
Step ==
  /\ clock < cfg.duration
  /\ LET now == ActiveAt(cfg, clock + 1)
     IN  /\ truths' = truths \cup TruthTransitions(now, active, clock + 1)
         /\ \E noise \in Noises(cfg) :
               plant' = Advance(plant, cfg.initial.pump, ValveInput(cfg, now),
                                PathInput(now), noise)
         /\ active' = now
  /\ clock' = clock + 1
  /\ sequence' = sequence + 1
  /\ UNCHANGED cfg

-----------------------------------------------------------------------------
(* The simulator's state has its type: levels, flow and pressure stay in    *)
(* their physical range.                                                    *)
SimTypeOK ==
  /\ cfg \in Configs
  /\ plant \in ProcessState
  /\ clock \in 0..cfg.duration
  /\ sequence = clock
  /\ active \subseteq Scenarios

(* What leaves the source tank arrives in the receiving tank, also in the   *)
(* step that empties the one or fills the other.                            *)
InventoryConserved ==
  cfg.initial.source - plant.source = plant.receiving - cfg.initial.receiving

=============================================================================
