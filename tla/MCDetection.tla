---------------------------- MODULE MCDetection ----------------------------
(***************************************************************************)
(* Instances of PlantDetection: the default configuration at rest, from a  *)
(* cold start, with a source about to run dry, with a receiving tank about *)
(* to fill, and a short noisy run; scenarios that start on the command,    *)
(* before it, after the window, together, or for a few seconds only.       *)
(***************************************************************************)
EXTENDS PlantDetection

Steady == [source |-> 1036800000, receiving |-> 259200000, pump |-> 550, valve |-> 700,
           flow |-> 1848, pressure |-> 11822, temperature |-> 260000]
Cold == [Steady EXCEPT !.flow = 0, !.pressure = 3000]
AlmostEmpty == [Steady EXCEPT !.source = 1848 * 25 + 100]
AlmostFull == [Steady EXCEPT !.receiving = TankCapacity - 1848 * 25]

(* The second at which the command is observed.                             *)
Command == 12

From(s, t) == [id |-> s, start |-> t, end |-> NoEnd]

Config(initial, duration, noise, scenarios) ==
  [initial |-> initial, duration |-> duration, noise |-> noise, scenarios |-> scenarios]

MCConfigs ==
  {Config(Steady, 75, FALSE, s) :
     s \in {{}, {From("S3", Command)}, {From("S4", Command)},
            {From("S3", Command), From("S4", Command + 3)},
            {From("S3", Command - 4)}, {From("S3", Command + 25)}, {From("S3", Command + 32)},
            {[id |-> "S3", start |-> Command + 1, end |-> Command + 5]},
            {[id |-> "S4", start |-> Command, end |-> Command + 20]}}}
  \cup {Config(p, 75, FALSE, s) :
          p \in {AlmostEmpty, AlmostFull}, s \in {{}, {From("S3", Command)}}}
  \cup {Config(Cold, 60, FALSE, {From("S3", Command)}),
        Config(Steady, 5, TRUE, {})}

Request(rule, cyber, points) ==
  [rule |-> rule, cyber |-> cyber, points |-> points, command |-> Command,
   versionKnown |-> TRUE, digestMatches |-> TRUE]

MCRequests ==
  {Request("S3", "VERIFIED", p) :
     p \in {S3Rule.points, S3Rule.points \ {Valve}, {Valve, Flow}, {Valve}, {Flow}}}
  \cup {Request("S4", "NONE", p) : p \in {S4Rule.points, S4Rule.points \ {Pressure}}}
  \cup {Request("S3", "MISMATCH", S3Rule.points), Request("S3", "UNVERIFIED", S3Rule.points),
        Request("S4", "VERIFIED", S4Rule.points), Request("S4", "NONE", S3Rule.points),
        Request("S9", "NONE", {}),
        [Request("S3", "VERIFIED", S3Rule.points) EXCEPT !.versionKnown = FALSE],
        [Request("S3", "VERIFIED", S3Rule.points) EXCEPT !.digestMatches = FALSE]}

(* Nothing lost; two seconds around the command; too many in the baseline;  *)
(* a gap of three seconds in the effect; every second sample.               *)
MCLosses == {{}, {11, 12}, {3, 5, 7}, {30, 31}, {n \in 13..75 : n % 2 = 1}}

MCStrays == {"NONE", "RUN", "CONFIG", "VERSION", "ORIGIN"}

=============================================================================
