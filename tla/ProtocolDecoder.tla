--------------------------- MODULE ProtocolDecoder ---------------------------
(***************************************************************************)
(* The synthetic Modbus profile and the decoder (app/protocols/profile.py, *)
(* decoder.py): what a stored raw event means.  Values are in raw units;   *)
(* the scales of the profile are exact decimals, so the engineering range  *)
(* of a point is its raw range.  Wording is left out.                      *)
(***************************************************************************)
EXTENDS Integers, FiniteSets, Sequences

CONSTANT None   \* an absent value

Tables == {"discrete_input", "input_register", "holding_register"}
UnitId == 1
Register == 0..65535   \* what a register or an address can hold
ReadOnly == "READ_ONLY"
Commandable == "COMMANDABLE_SYNTHETIC"

InterpretationStatus == {"MAPPED", "UNMAPPED", "UNSUPPORTED", "MALFORMED"}
ReasonCode ==
  {"NONE", "ADDRESS_NOT_IN_PROFILE", "ADDRESS_INVALID", "FUNCTION_NOT_SUPPORTED",
   "FUNCTION_TABLE_MISMATCH", "POINT_NOT_COMMANDABLE", "RAW_VALUE_REQUIRED",
   "RAW_VALUE_TYPE_INVALID", "RAW_VALUE_OUT_OF_UINT16_RANGE", "ENGINEERING_VALUE_OUT_OF_RANGE",
   "PROTOCOL_ID_INVALID", "SOURCE_EVIDENCE_NOT_VERIFIED", "PROFILE_DIGEST_MISMATCH"}

SupportedFunction(category, semantic, table) ==
  [category |-> category, semantic |-> semantic, table |-> table]
Functions ==
  [code \in {2, 3, 4, 6} |->
    CASE code = 2 -> SupportedFunction("READ", "READ_DISCRETE_INPUTS", "discrete_input")
      [] code = 3 -> SupportedFunction("READ", "READ_HOLDING_REGISTERS", "holding_register")
      [] code = 4 -> SupportedFunction("READ", "READ_INPUT_REGISTERS", "input_register")
      [] code = 6 -> SupportedFunction("WRITE", "WRITE_SINGLE_REGISTER", "holding_register")]

(* The nine points: where they are, what they belong to, their raw maximum. *)
Command(id, component, address) ==
  [id |-> id, component |-> component, access |-> Commandable, table |-> "holding_register",
   address |-> address, functions |-> {3, 6}, max |-> 1000]
Measurement(id, component, address, max) ==
  [id |-> id, component |-> component, access |-> ReadOnly, table |-> "input_register",
   address |-> address, functions |-> {4}, max |-> max]
State(id, component, address) ==
  [id |-> id, component |-> component, access |-> ReadOnly, table |-> "discrete_input",
   address |-> address, functions |-> {2}, max |-> 1]
Points ==
  {Command("transfer_pump_command_percent", "P-101", 0),
   Command("control_valve_command_percent", "CV-101", 1),
   Measurement("source_tank_level_percent", "TK-101", 0, 1000),
   Measurement("receiving_tank_level_percent", "TK-102", 1, 1000),
   Measurement("pipeline_flow_rate_m3h", "PL-101", 2, 1200),
   Measurement("pipeline_pressure_bar", "PL-101", 3, 4000),
   Measurement("process_temperature_c", "PL-101", 4, 800),
   Measurement("control_valve_position_percent", "CV-101", 5, 1000),
   State("transfer_pump_running", "P-101", 0)}

(* PointDefinition.validate_representation and the checks of ModbusProfile. *)
ValidProfile ==
  /\ Cardinality(Points) = 9
  /\ Cardinality({p \in Points : p.access = Commandable}) = 2
  /\ \A p, q \in Points :
       p # q => p.id # q.id /\ <<p.table, p.address>> # <<q.table, q.address>>
  /\ \A p \in Points :
       /\ p.functions # {} /\ p.functions \subseteq DOMAIN Functions
       /\ p.access = Commandable <=> 6 \in p.functions
       /\ p.access = Commandable => p.table = "holding_register"
       /\ p.max \in Register

ASSUME ProfileIsValid == ValidProfile

-----------------------------------------------------------------------------
Known(code) == code \in DOMAIN Functions
Category(code) == IF Known(code) THEN Functions[code].category ELSE "UNSUPPORTED"
Semantic(code) == IF Known(code) THEN Functions[code].semantic ELSE None

PointAt(e) ==
  LET found == {p \in Points : e.unit = UnitId /\ p.table = e.table /\ p.address = e.address}
  IN  IF found = {} THEN None ELSE CHOOSE p \in found : TRUE

\* Mutant: the last raw value of the range is refused.
ValueErrorHalfOpen(raw, point) ==
  CASE raw.type = "none" -> "RAW_VALUE_REQUIRED"
    [] raw.type \in {"text", "boolean"} -> "RAW_VALUE_TYPE_INVALID"
    [] raw.type = "int" /\ raw.value \notin Register -> "RAW_VALUE_OUT_OF_UINT16_RANGE"
    [] raw.type = "int" /\ raw.value \in Register /\ raw.value >= point.max -> "ENGINEERING_VALUE_OUT_OF_RANGE"
    [] OTHER -> None

(* _decode_value: why a raw value has no meaning at a point, or None.       *)
ValueError(raw, point) ==
  CASE raw.type = "none" -> "RAW_VALUE_REQUIRED"
    [] raw.type \in {"text", "boolean"} -> "RAW_VALUE_TYPE_INVALID"
    [] raw.type = "int" /\ raw.value \notin Register -> "RAW_VALUE_OUT_OF_UINT16_RANGE"
    [] raw.type = "int" /\ raw.value \in Register /\ raw.value > point.max -> "ENGINEERING_VALUE_OUT_OF_RANGE"
    [] OTHER -> None

BuildResult(e, status, reason, compatibility, point, value) ==
  [category |-> Category(e.function), semantic |-> Semantic(e.function),
   status |-> status, reason |-> reason, compatibility |-> compatibility,
   point |-> IF point = None THEN None ELSE point.id,
   access |-> IF point = None THEN None ELSE point.access,
   component |-> IF point = None THEN None ELSE point.component,
   value |-> value]

NeutralResult(e, status, reason) == BuildResult(e, status, reason, "NOT_APPLICABLE", None, None)

(* Early returns: the result of a check that applies, and of a sequence of  *)
(* checks the first there is, or None.                                      *)
Check(applies, status, reason) == IF applies THEN <<status, reason>> ELSE None
FirstApplying(checks) ==
  LET applying == {i \in DOMAIN checks : checks[i] # None}
  IN  IF applying = {} THEN None
      ELSE checks[CHOOSE i \in applying : \A j \in applying : i <= j]

NotCommandable(e, point) ==
  point # None /\ Category(e.function) = "WRITE" /\ point.access = ReadOnly

(* The early returns of decode_event before and after the check for a write *)
(* to a read-only point.                                                    *)
Envelope(e) ==
  <<Check(~e.verified, "MALFORMED", "SOURCE_EVIDENCE_NOT_VERIFIED"),
    Check(~e.expectedProfile, "MALFORMED", "PROFILE_DIGEST_MISMATCH"),
    Check(e.protocol # 0, "MALFORMED", "PROTOCOL_ID_INVALID"),
    Check(~Known(e.function), "UNSUPPORTED", "FUNCTION_NOT_SUPPORTED"),
    Check(e.table \notin Tables, "UNSUPPORTED", "FUNCTION_TABLE_MISMATCH"),
    Check(e.address \notin Register, "MALFORMED", "ADDRESS_INVALID")>>

Target(e, point) ==
  LET error == IF point = None THEN None ELSE ValueError(e.raw, point) IN
  <<Check(Functions[e.function].table # e.table, "UNSUPPORTED", "FUNCTION_TABLE_MISMATCH"),
    Check(point = None, "UNMAPPED", "ADDRESS_NOT_IN_PROFILE"),
    Check(point # None /\ e.function \notin point.functions, "UNSUPPORTED", "FUNCTION_TABLE_MISMATCH"),
    Check(error # None, "MALFORMED", error)>>

DecodeEvent(e) ==
  LET point == PointAt(e)
      early == FirstApplying(Envelope(e))
      late == FirstApplying(Target(e, point))
  IN  IF early # None THEN NeutralResult(e, early[1], early[2])
      ELSE IF NotCommandable(e, point)
      THEN BuildResult(e, "MAPPED", "POINT_NOT_COMMANDABLE", "INCOMPATIBLE", point, None)
      ELSE IF late # None THEN NeutralResult(e, late[1], late[2])
      ELSE BuildResult(e, "MAPPED", "NONE", "COMPATIBLE", point, e.raw.value)

=============================================================================
