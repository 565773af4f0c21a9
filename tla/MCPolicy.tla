------------------------------ MODULE MCPolicy ------------------------------
(* PolicyContext over events at and around every boundary of the profile.   *)
EXTENDS PolicyContext

Raw(n) == [type |-> "int", value |-> n]
RawValues ==
  {Raw(-1), Raw(0), Raw(1), Raw(1000), Raw(1001), Raw(65536)}
  \cup {[type |-> t, value |-> 0] : t \in {"none", "text", "boolean"}}

Usual ==
  [verified |-> TRUE, semanticVerified |-> TRUE, expectedProfile |-> TRUE,
   protocol |-> 0, unit |-> 1, function |-> 6, table |-> "holding_register",
   address |-> 1, raw |-> Raw(250), source |-> "HMI-01", target |-> Endpoint]

Addressed ==
  {[Usual EXCEPT !.function = f, !.table = t, !.address = a, !.raw = r] :
     f \in {2, 3, 4, 5, 6}, t \in Tables \cup {"coil", None}, a \in {None, -1, 0, 1, 5, 6, 65536},
     r \in RawValues}
Unusual ==
  {[Usual EXCEPT !.verified = FALSE], [Usual EXCEPT !.semanticVerified = FALSE],
   [Usual EXCEPT !.expectedProfile = FALSE], [Usual EXCEPT !.protocol = 1],
   [Usual EXCEPT !.unit = 2], [Usual EXCEPT !.source = "GHOST"],
   [Usual EXCEPT !.target = "OTHER"], [Usual EXCEPT !.source = "SOC-01"]}
MCEvents == Addressed \cup Unusual

Logical(keys) == {<<"LOGICAL_ID", k>> : k \in keys}
MCSourceClaims ==
  {{}} \cup {Logical({k}) : k \in {"ENG-WS-01", "IT-WS-01", "SOC-01", "GHOST"}}
  \cup {Logical({"HMI-01", "ENG-WS-01"}), Logical({"HMI-01", "GHOST"})}
MCTargetClaims ==
  {{}, Logical({"PLC-01"}) \cup {<<"PROTOCOL_ENDPOINT_ID", Endpoint>>}, Logical({"MON-01"}),
   {<<"PROTOCOL_ENDPOINT_ID", "OTHER">>}}
=============================================================================
