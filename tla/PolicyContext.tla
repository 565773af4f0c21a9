---------------------------- MODULE PolicyContext ----------------------------
(***************************************************************************)
(* The asset inventory, the communication policy and the path of one event *)
(* through them (app/context): its identity claims are resolved to assets, *)
(* and the communication is judged.  One event per behaviour: it is        *)
(* decoded, put in context and judged in three transactions.               *)
(***************************************************************************)
EXTENDS ProtocolDecoder

CONSTANTS
  Events,         \* the raw events
  SourceClaims,   \* sets of identity claims an event may come with
  TargetClaims

(* An event says of its value which JSON type it has; a flag is a flag.      *)
ASSUME EventsAssumption ==
  \A e \in Events :
    /\ {e.verified, e.semanticVerified, e.expectedProfile} \subseteq BOOLEAN
    /\ e.raw.type \in {"none", "text", "boolean", "int"} /\ e.raw.value \in Int

VARIABLES
  stage,          \* what is stored: "raw", "semantic", "context" or "finding"
  event, claims,  \* the raw event; the claims about its two ends
  semantic, context, finding

vars == <<stage, event, claims, semantic, context, finding>>

-----------------------------------------------------------------------------
(* PolicyStatus, and PolicyReasonCode in the order of REASON_PRECEDENCE.      *)
PolicyStatus == {"APPROVED", "DENIED", "UNKNOWN"}
Match == "POLICY_MATCH_APPROVED"
ReasonPrecedence ==
  <<"SOURCE_EVIDENCE_NOT_VERIFIED", "SEMANTIC_EVIDENCE_NOT_VERIFIED",
    "PROFILE_VERSION_UNSUPPORTED", "POLICY_PROFILE_INVALID", "IDENTITY_CONFLICT",
    "SOURCE_UNKNOWN", "DESTINATION_UNKNOWN", "SOURCE_DISABLED", "DESTINATION_DISABLED",
    "SOURCE_ZONE_UNEXPECTED", "DESTINATION_ZONE_UNEXPECTED", "POINT_WRITE_NOT_APPROVED",
    "PROTOCOL_NOT_APPROVED", "OPERATION_NOT_APPROVED", "SOURCE_ROLE_NOT_APPROVED",
    "COMMUNICATION_NOT_APPROVED", "POLICY_NOT_CLASSIFIED", Match>>
PolicyReasonCode == {ReasonPrecedence[i] : i \in DOMAIN ReasonPrecedence}

(* oil_gas_asset_inventory_v1.json, as far as the resolver and the policy   *)
(* read it.  Every asset is enabled.                                        *)
Asset(key, role, zone) == [key |-> key, role |-> role, zone |-> zone, enabled |-> TRUE]
Process == {"TK-101", "P-101", "PL-101", "CV-101", "TK-102"}
Assets ==
  {Asset("PLC-01", "CONTROL_EXECUTION", "OT_CONTROL_ZONE"),
   Asset("HMI-01", "OPERATOR_INTERFACE", "OT_CONTROL_ZONE"),
   Asset("ENG-WS-01", "ENGINEERING_MAINTENANCE", "OT_CONTROL_ZONE"),
   Asset("IT-WS-01", "ENTERPRISE_USER", "IT_ZONE"),
   Asset("MON-01", "PASSIVE_MONITOR", "MONITORING_ZONE"),
   Asset("SOC-01", "ANALYST_PLATFORM", "SOC_ZONE")}
  \cup {Asset(key, "PROCESS", "PROCESS_ZONE") : key \in Process}

Endpoint == "OTSOC-MB-UNIT-01"
Identifiers(asset) ==
  IF asset.key \in Process THEN {<<"PROCESS_TAG", asset.key>>}
  ELSE {<<"LOGICAL_ID", asset.key>>}
       \cup IF asset.key = "PLC-01" THEN {<<"PROTOCOL_ENDPOINT_ID", Endpoint>>} ELSE {}

Relationships ==
  {<<"HOSTS_ENDPOINT", "PLC-01", Endpoint>>, <<"MONITORS", "MON-01", "PLC-01">>}
  \cup {<<"CONTROLS", "PLC-01", key>> : key \in {"P-101", "CV-101"}}
  \cup {<<"OBSERVES", "PLC-01", key>> : key \in Process}

(* oil_gas_communication_policy_v1.json                                     *)
Path(id, source, sourceZone) ==
  [id |-> id, source |-> source, sourceZone |-> sourceZone, target |-> "PLC-01",
   targetZone |-> "OT_CONTROL_ZONE", protocols |-> {"modbus_tcp"}]
GovernedPaths ==
  {Path("PATH-HMI-PLC", "HMI-01", "OT_CONTROL_ZONE"),
   Path("PATH-ENG-PLC", "ENG-WS-01", "OT_CONTROL_ZONE"),
   Path("PATH-IT-PLC", "IT-WS-01", "IT_ZONE")}

Rule(id, path, operations, points, decision, reason) ==
  [id |-> id, path |-> path, operations |-> operations, points |-> points,
   decision |-> decision, reason |-> reason]
AllPoints == {p.id : p \in Points}
Commands == {p.id : p \in {q \in Points : q.access = Commandable}}
Rules ==
  {Rule("ACP-001", "PATH-HMI-PLC", {"READ"}, AllPoints, "APPROVED", Match),
   Rule("ACP-002", "PATH-HMI-PLC", {"WRITE"}, {"transfer_pump_command_percent"}, "APPROVED", Match),
   Rule("ACP-003", "PATH-HMI-PLC", {"WRITE"}, {"control_valve_command_percent"}, "APPROVED", Match),
   Rule("ACP-004", "PATH-ENG-PLC", {"READ"}, AllPoints, "APPROVED", Match),
   Rule("ACP-005", "PATH-ENG-PLC", {"WRITE"}, Commands, "DENIED", "SOURCE_ROLE_NOT_APPROVED"),
   Rule("ACP-006", "PATH-IT-PLC", {"READ", "WRITE"}, AllPoints, "DENIED",
        "COMMUNICATION_NOT_APPROVED")}

(* validate_inventory_contract, validate_policy_structure and               *)
(* validate_policy_dependencies.                                            *)
AgreeingProfiles ==
  /\ Cardinality(Assets) = 11
  /\ \A a, b \in Assets : a # b => Identifiers(a) \cap Identifiers(b) = {}
  /\ \A r \in Relationships : /\ \E a \in Assets : a.key = r[2]
                              /\ r[3] = Endpoint \/ \E a \in Assets : a.key = r[3]
                              /\ r[2] # r[3]
  /\ \A p \in GovernedPaths :
       /\ \E a \in Assets : a.key = p.source /\ a.zone = p.sourceZone
       /\ \E a \in Assets : a.key = p.target /\ a.zone = p.targetZone
  /\ \A r \in Rules : r.path \in {p.id : p \in GovernedPaths} /\ r.points \subseteq AllPoints

ASSUME ProfilesAgree == AgreeingProfiles

(* An absent value is no value that could be there.                         *)
ASSUME NoneAssumption ==
  /\ None \notin ReasonCode /\ None \notin InterpretationStatus \X ReasonCode
  /\ None \notin PolicyReasonCode /\ None \notin PolicyStatus \X PolicyReasonCode
  /\ None \notin Points /\ None \notin AllPoints
  /\ None \notin GovernedPaths /\ None \notin Rules

-----------------------------------------------------------------------------
Unresolved(status) == [status |-> status, key |-> None, zone |-> None, enabled |-> None]

\* Mutant: claims that name no asset are ignored next to one that does.
ResolveIdentityLenient(claimed) ==
  LET named == {a \in Assets : Identifiers(a) \cap claimed # {}}
  IN  IF Cardinality(named) # 1
      THEN Unresolved(IF named = {} THEN "UNKNOWN" ELSE "CONFLICT")
      ELSE LET asset == CHOOSE a \in named : TRUE
           IN  [status |-> "RESOLVED", key |-> asset.key, zone |-> asset.zone,
                enabled |-> asset.enabled]

(* resolve_identity: every claim must name an asset, and the same one.      *)
ResolveIdentity(claimed) ==
  LET named == {a \in Assets : Identifiers(a) \cap claimed # {}}
      allKnown == claimed \subseteq UNION {Identifiers(a) : a \in Assets}
  IN  IF named = {} THEN Unresolved("UNKNOWN")
      ELSE IF ~allKnown \/ Cardinality(named) # 1 THEN Unresolved("CONFLICT")
      ELSE LET asset == CHOOSE a \in named : TRUE
           IN  [status |-> "RESOLVED", key |-> asset.key, zone |-> asset.zone,
                enabled |-> asset.enabled]

(* default_identity_claims stand in for an empty claim.                     *)
ClaimsOr(claimed, type, value) == IF claimed = {} THEN {<<type, value>>} ELSE claimed

(* The relationships of the target asset that concern the event.            *)
RelevantRelationships(target, endpoint, process) ==
  {r \in Relationships : r[2] = target.key /\ r[3] \in {endpoint, process}}

(* build_asset_context_event                                                *)
AssetContext(e, c, meaning) ==
  LET source == ResolveIdentity(ClaimsOr(c.source, "LOGICAL_ID", e.source))
      target == ResolveIdentity(ClaimsOr(c.target, "PROTOCOL_ENDPOINT_ID", e.target))
      process == IF meaning.component = None THEN None
                 ELSE ResolveIdentity({<<"PROCESS_TAG", meaning.component>>}).key
  IN  [source |-> source, target |-> target, process |-> process,
       relationships |-> RelevantRelationships(target, e.target, process)]

-----------------------------------------------------------------------------
(* _matching_rule: None if no rule matches, a denial before an approval.    *)
(* The function semantics and access classes a rule lists are those of its  *)
(* operations and points.                                                   *)
Ambiguous == [decision |-> "ERROR", reason |-> "PolicyProfileError"]
MatchingRules(meaning, path) ==
  {r \in Rules : /\ r.path = path.id
                 /\ meaning.category \in r.operations
                 /\ meaning.point \in r.points}
MatchingRule(meaning, path) ==
  LET matches == MatchingRules(meaning, path)
      denials == {r \in matches : r.decision = "DENIED"}
  IN  CASE matches = {} -> None
        [] Cardinality(matches) = 1 -> CHOOSE r \in matches : TRUE
        [] Cardinality(matches) > 1 /\ Cardinality(denials) = 1 -> CHOOSE r \in denials : TRUE
        [] OTHER -> Ambiguous

PathOf(c) ==
  LET found == {p \in GovernedPaths : p.source = c.source.key /\ p.target = c.target.key}
  IN  IF found = {} THEN None ELSE CHOOSE p \in found : TRUE

WriteRefused(meaning) ==
  meaning.category = "WRITE" /\ (meaning.access = ReadOnly \/ meaning.compatibility = "INCOMPATIBLE")

(* The early returns of evaluate_policy that do not need a path, and those  *)
(* that do.  The record of satisfied dimensions and the ids of the matched  *)
(* path and rule are left out.                                              *)
IdentityChecks(e, c) ==
  <<Check(~e.verified, "UNKNOWN", "SOURCE_EVIDENCE_NOT_VERIFIED"),
    Check(~e.semanticVerified, "UNKNOWN", "SEMANTIC_EVIDENCE_NOT_VERIFIED"),
    Check("CONFLICT" \in {c.source.status, c.target.status}, "UNKNOWN", "IDENTITY_CONFLICT"),
    Check(c.source.status = "UNKNOWN", "UNKNOWN", "SOURCE_UNKNOWN"),
    Check(c.target.status = "UNKNOWN", "UNKNOWN", "DESTINATION_UNKNOWN"),
    Check(c.source.enabled = FALSE, "DENIED", "SOURCE_DISABLED"),
    Check(c.target.enabled = FALSE, "DENIED", "DESTINATION_DISABLED"),
    Check(PathOf(c) = None, "UNKNOWN", "POLICY_NOT_CLASSIFIED")>>

Decided(rule) == IF rule = None THEN <<"DENIED", "OPERATION_NOT_APPROVED">>
                 ELSE <<rule.decision, rule.reason>>

\* Mutant: the rules are consulted before the access class of the point.
PathChecksRulesFirst(meaning, c, path, rule) ==
  <<Check(Decided(rule)[1] # "APPROVED", Decided(rule)[1], Decided(rule)[2]),
    Check(WriteRefused(meaning), "DENIED", "POINT_WRITE_NOT_APPROVED")>>

PathChecks(meaning, c, path, rule) ==
  <<Check(c.source.zone # path.sourceZone, "DENIED", "SOURCE_ZONE_UNEXPECTED"),
    Check(c.target.zone # path.targetZone, "DENIED", "DESTINATION_ZONE_UNEXPECTED"),
    Check(WriteRefused(meaning), "DENIED", "POINT_WRITE_NOT_APPROVED"),
    Check("modbus_tcp" \notin path.protocols, "DENIED", "PROTOCOL_NOT_APPROVED"),
    Check(Decided(rule)[1] # "APPROVED", Decided(rule)[1], Decided(rule)[2])>>

EvaluatePolicy(e, meaning, c) ==
  LET early == FirstApplying(IdentityChecks(e, c))
      path == PathOf(c)
      late == FirstApplying(PathChecks(meaning, c, path, MatchingRule(meaning, path)))
  IN  IF early # None THEN [status |-> early[1], reason |-> early[2]]
      ELSE IF late # None THEN [status |-> late[1], reason |-> late[2]]
      ELSE [status |-> "APPROVED", reason |-> Match]

-----------------------------------------------------------------------------
Init ==
  /\ stage = "raw"
  /\ event \in Events
  /\ claims \in [source : SourceClaims, target : TargetClaims]
  /\ semantic = None /\ context = None /\ finding = None

(* persist_semantic_evidence *)
Decode ==
  /\ stage = "raw"
  /\ semantic' = DecodeEvent(event)
  /\ stage' = "semantic"
  /\ UNCHANGED <<event, claims, context, finding>>

(* persist_asset_context *)
Resolve ==
  /\ stage = "semantic"
  /\ context' = AssetContext(event, claims, semantic)
  /\ stage' = "context"
  /\ UNCHANGED <<event, claims, semantic, finding>>

(* persist_policy_finding *)
Judge ==
  /\ stage = "context"
  /\ finding' = EvaluatePolicy(event, semantic, context)
  /\ stage' = "finding"
  /\ UNCHANGED <<event, claims, semantic, context>>

Next == Decode \/ Resolve \/ Judge
Spec == Init /\ [][Next]_vars

-----------------------------------------------------------------------------
(* What approval takes, said of the raw event: every claim names one asset  *)
(* the policy lets do this, the address is a point of the profile that has  *)
(* this function, and the value is one the point can hold.                  *)
Names(claimed, type, value, key) ==
  \E a \in Assets : a.key = key /\ ClaimsOr(claimed, type, value) \subseteq Identifiers(a)
Approvable(e, c) ==
  /\ e.verified /\ e.semanticVerified /\ e.expectedProfile
  /\ e.protocol = 0 /\ e.unit = UnitId
  /\ \E p \in Points :
       /\ p.table = e.table /\ p.address = e.address /\ e.function \in p.functions
       /\ e.raw.type = "int" /\ e.raw.value >= 0 /\ e.raw.value <= p.max
  /\ \/ Names(c.source, "LOGICAL_ID", e.source, "HMI-01")
     \/ Names(c.source, "LOGICAL_ID", e.source, "ENG-WS-01") /\ e.function # 6
  /\ Names(c.target, "PROTOCOL_ENDPOINT_ID", e.target, "PLC-01")

(* A communication is approved exactly if the raw event and its claims      *)
(* deserve it, and no event makes two rules contradict each other           *)
(* (decode_event, resolve_identity, evaluate_policy, _matching_rule).       *)
ApprovalIsJustified ==
  stage = "finding" =>
    /\ (finding.status = "APPROVED") <=> Approvable(event, claims)
    /\ finding.status # "ERROR"

(* select_primary_reason *)
SelectPrimaryReason(candidates) ==
  FirstApplying([i \in DOMAIN ReasonPrecedence |->
                  IF ReasonPrecedence[i] \in candidates THEN ReasonPrecedence[i] ELSE None])

(* Every reason that applies to the stored context, in no order.  That a     *)
(* write is refused is a matter of the point alone; zones, protocols and    *)
(* rules belong to a path.  In the frozen profiles all assets are enabled   *)
(* and in the zones of their paths.                                         *)
Statuses == {context.source.status, context.target.status}
Candidates ==
  LET path == PathOf(context)
      rules == IF path = None THEN {} ELSE MatchingRules(semantic, path)
  IN  {r.reason : r \in rules}
      \cup (IF ~event.verified THEN {"SOURCE_EVIDENCE_NOT_VERIFIED"} ELSE {})
      \cup (IF ~event.semanticVerified THEN {"SEMANTIC_EVIDENCE_NOT_VERIFIED"} ELSE {})
      \cup (IF "CONFLICT" \in Statuses THEN {"IDENTITY_CONFLICT"} ELSE {})
      \cup (IF context.source.status = "UNKNOWN" THEN {"SOURCE_UNKNOWN"} ELSE {})
      \cup (IF context.target.status = "UNKNOWN" THEN {"DESTINATION_UNKNOWN"} ELSE {})
      \cup (IF WriteRefused(semantic) THEN {"POINT_WRITE_NOT_APPROVED"} ELSE {})
      \cup (IF path = None THEN {"POLICY_NOT_CLASSIFIED"}
            ELSE IF rules = {} THEN {"OPERATION_NOT_APPROVED"} ELSE {})

(* What the contract says of the reason given: of all that apply it is the  *)
(* one that reason_precedence ranks first.  evaluate_policy does not keep   *)
(* to it: a write to a read-only point on a path nobody governs is answered *)
(* POLICY_NOT_CLASSIFIED, which is ranked after POINT_WRITE_NOT_APPROVED.   *)
ReasonFollowsPrecedence ==
  stage = "finding" => finding.reason = SelectPrimaryReason(Candidates)

(* The early returns of evaluate_policy are in the order of                 *)
(* REASON_PRECEDENCE but for one pair: the reason given differs from the    *)
(* one ranked first only for a refused write without a governed path.       *)
OnlyUngovernedWriteDiffers ==
  stage = "finding" =>
    \/ finding.reason = SelectPrimaryReason(Candidates)
    \/ /\ SelectPrimaryReason(Candidates) = "POINT_WRITE_NOT_APPROVED"
       /\ PathOf(context) = None
       /\ finding.reason = "POLICY_NOT_CLASSIFIED"

=============================================================================
