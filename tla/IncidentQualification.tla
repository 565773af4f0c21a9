------------------------ MODULE IncidentQualification ------------------------
(***************************************************************************)
(* Which incident, if any, verified evidence belongs to: the lineage rules *)
(* of incidents/memberships.py, the frozen qualification rules of          *)
(* incidents/qualification.py and the deterministic grouping identity of   *)
(* incidents/identity.py and incidents/grouping.py, as pure operators.     *)
(*                                                                         *)
(* A policy finding and a correlation finding are records of what the      *)
(* rules look at.  The field shape of a policy finding names the scenario  *)
(* its lineage matches (the conjunctions _is_s1, _is_s2, _is_s3_command).  *)
(***************************************************************************)
EXTENDS Integers

CONSTANTS NoFinding, NoRun, NoScope

RuleOf == [S1 |-> "IQR-S1-UNKNOWN-SOURCE-001",
           S2 |-> "IQR-S2-IT-PLC-POLICY-001",
           S3 |-> "IQR-S3-CV-COMMAND-001",
           S4 |-> "IQR-S4-PUMP-FLOW-001"]

GroupingWindowSeconds == 300

\* The five-minute window an observation falls in.
GroupingEpochStart(at) ==
  (at \div GroupingWindowSeconds) * GroupingWindowSeconds

-----------------------------------------------------------------------------
(***************************************************************************)
(* Lineage                                                                 *)
(***************************************************************************)
\* The policy finding of a bundle: the one the correlation was derived from
\* when it names one, otherwise the selected one.
BundlePolicy(policy, correlation) ==
  IF correlation # NoFinding /\ correlation.policy # NoFinding
  THEN correlation.policy ELSE policy

\* verify_qualification_evidence refuses a selected policy finding that is
\* not the parent of the selected correlation, and an S3 correlation whose
\* cyber lineage is not that of the policy finding.
LineageConsistent(policy, correlation) ==
  (correlation # NoFinding) =>
    /\ (policy # NoFinding /\ correlation.policy # NoFinding)
         => correlation.policy = policy
    /\ (correlation.rule = "S3"
          /\ BundlePolicy(policy, correlation) # NoFinding)
         => BundlePolicy(policy, correlation).semantic = correlation.semantic

-----------------------------------------------------------------------------
(***************************************************************************)
(* Identity                                                                *)
(***************************************************************************)
\* The parts of the canonical name that tell incidents apart.
Identity(rule, assets, semantic, run, anchor) ==
  [rule |-> rule, assets |-> assets, semantic |-> semantic, run |-> run,
   epoch |-> GroupingEpochStart(anchor)]

\* Of the memberships of a candidate: evidence -> role.
OneMembership(e) == [x \in {e} |-> "PRIMARY"]
TwoMemberships(e, f, role) ==
  [x \in {e, f} |-> IF x = e THEN "PRIMARY" ELSE role]

-----------------------------------------------------------------------------
(***************************************************************************)
(* The rules.  Each returns the set of candidates: empty when the evidence *)
(* stays evidence only or is refused.                                      *)
(***************************************************************************)
\* S1 and S2: the policy finding alone, with no run scope.
QualifyPolicyOnly(p, severity) ==
  LET k == Identity(RuleOf[p.shape], p.assets, NoScope, NoScope, p.at)
  IN  {[key |-> k, boundKey |-> k, rule |-> RuleOf[p.shape],
        severity |-> severity, primary |-> p.id,
        roles |-> OneMembership(p.id), bound |-> NoRun]}

Correlated(c) == c # NoFinding /\ c.rule = "S3" /\ c.matched

\* S3, command denied: the policy finding leads, the correlation supports it
\* or is context, and the incident has no run scope until one binds it.
QualifyDenied(p, c) ==
  LET Named(run) == Identity(RuleOf.S3, p.assets, p.semantic, run, p.at)
      run == IF c = NoFinding THEN NoRun ELSE c.run
  IN  {[key |-> Named("UNBOUND_PROCESS_SCOPE"),
        boundKey |-> IF run = NoRun THEN Named("UNBOUND_PROCESS_SCOPE")
                     ELSE Named(run),
        rule |-> RuleOf.S3,
        severity |-> IF Correlated(c) THEN "HIGH" ELSE "MEDIUM",
        primary |-> p.id,
        roles |-> IF c = NoFinding THEN OneMembership(p.id)
                  ELSE TwoMemberships(p.id, c.id, IF Correlated(c)
                                                  THEN "SUPPORTING"
                                                  ELSE "CONTEXT"),
        bound |-> run]}

\* S3, command approved: only a correlated finding qualifies; it leads, and
\* the incident belongs to its run from the start.
QualifyApproved(p, c) ==
  IF ~Correlated(c) \/ c.run = NoRun THEN {}
  ELSE LET k == Identity(RuleOf.S3, p.assets, p.semantic, c.run, p.at)
       IN  {[key |-> k, boundKey |-> k, rule |-> RuleOf.S3,
             severity |-> "MEDIUM", primary |-> c.id,
             roles |-> TwoMemberships(c.id, p.id, "CONTEXT"),
             bound |-> c.run]}

\* S4: process evidence only.
QualifyS4(c) ==
  IF ~c.matched \/ c.run = NoRun THEN {}
  ELSE LET k == Identity(RuleOf.S4, NoScope, NoScope, c.run, c.at)
       IN  {[key |-> k, boundKey |-> k, rule |-> RuleOf.S4,
             severity |-> "HIGH", primary |-> c.id,
             roles |-> OneMembership(c.id), bound |-> c.run]}

\* qualify_incident on the verified bundle of a selection.
QualifyIncident(policy, c) ==
  LET p == BundlePolicy(policy, c)
  IN  IF ~LineageConsistent(policy, c) THEN {}
      ELSE IF c # NoFinding /\ c.rule = "S4"
      THEN IF p # NoFinding THEN {} ELSE QualifyS4(c)
      ELSE IF p = NoFinding THEN {}
      ELSE CASE p.shape = "S1" -> QualifyPolicyOnly(p, "LOW")
             [] p.shape = "S2" -> QualifyPolicyOnly(p, "MEDIUM")
             [] p.shape = "S3" /\ p.status = "DENIED" -> QualifyDenied(p, c)
             [] p.shape = "S3" /\ p.status = "APPROVED" ->
                  QualifyApproved(p, c)
             [] OTHER -> {}
=============================================================================
