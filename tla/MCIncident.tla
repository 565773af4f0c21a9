----------------------------- MODULE MCIncident -----------------------------
(***************************************************************************)
(* Instances of IncidentStore for TLC.  The candidates are computed from   *)
(* stored findings by IncidentQualification.                               *)
(***************************************************************************)
EXTENDS IncidentStore, TLC

CONSTANTS
  NoFinding, NoScope,
  p1, p2, p3, p4,     \* policy findings
  c1, c2, c3, c4,     \* correlation findings
  r1, r2,             \* simulation runs
  u1, u2,             \* users
  x1                  \* text of notes and reports

Q == INSTANCE IncidentQualification

\* The valve command was denied; two runs correlate with it, one of them
\* twice, once without a match.
Denied    == [id |-> p1, shape |-> "S3", status |-> "DENIED",
              assets |-> "EWS", semantic |-> "m1", at |-> 299]
\* A second policy profile approved the same command.
Approved  == [id |-> p4, shape |-> "S3", status |-> "APPROVED",
              assets |-> "EWS", semantic |-> "m1", at |-> 299]
\* Two observations of one unknown source in the same window.
UnknownA  == [id |-> p2, shape |-> "S1", status |-> "UNKNOWN",
              assets |-> "UNRESOLVED", semantic |-> "m2", at |-> 300]
UnknownB  == [id |-> p3, shape |-> "S1", status |-> "UNKNOWN",
              assets |-> "UNRESOLVED", semantic |-> "m3", at |-> 599]

S3Match(id, run, p) == [id |-> id, rule |-> "S3", matched |-> TRUE,
                        run |-> run, policy |-> p, semantic |-> "m1",
                        at |-> 299]
S3Weak == [S3Match(c3, r1, Denied) EXCEPT !.matched = FALSE]

Qualify(p, c) ==
  {[op |-> "qualify", key |-> d.key, value |-> d]
     : d \in Q!QualifyIncident(p, c)}

Mutate(op, keys, expected, values, texts) ==
  {[op |-> op, key |-> k, expected |-> v, value |-> x, text |-> w]
     : k \in keys, v \in expected, x \in values, w \in texts}

MCEvidence == {p1, p2, p3, p4, c1, c2, c3, c4}
MCRun      == {r1, r2}
MCRunOf    == [e \in MCEvidence |-> IF e \in {c1, c3, c4} THEN r1
                                    ELSE IF e = c2 THEN r2 ELSE NoRun]
MCRule     == {Q!RuleOf[s] : s \in DOMAIN Q!RuleOf}

\* Grouping: denied and approved S3 findings of two runs, and an analyst who
\* works on the incident they share before it is bound.
GroupingCandidates ==
  UNION {Qualify(Denied, NoFinding), Qualify(Denied, S3Match(c1, r1, Denied)),
         Qualify(NoFinding, S3Match(c2, r2, Denied)), Qualify(Denied, S3Weak),
         Qualify(NoFinding, S3Match(c4, r1, Approved))}
GroupingKeys == UNION {{r.value.key, r.value.boundKey}
                         : r \in GroupingCandidates}
SharedKeys == {r.key : r \in Qualify(Denied, NoFinding)}
GroupingRequests ==
  UNION {GroupingCandidates,
         Mutate("status", SharedKeys, {1}, {"RESOLVED"}, {"valid"}),
         Mutate("note", SharedKeys, {1}, {x1}, {"valid"}),
         Mutate("assign", SharedKeys, {1}, {u1}, {"valid"}),
         Mutate("disposition", SharedKeys, {1}, {"TRUE_POSITIVE"}, {"valid"}),
         Mutate("report", SharedKeys, {0}, {x1}, {"valid"})}

\* Workflow: one incident, two findings that group to it, every mutation.
WorkflowCandidates == Qualify(UnknownA, NoFinding)
                        \union Qualify(UnknownB, NoFinding)
WorkflowKeys == {r.key : r \in WorkflowCandidates}
WorkflowRequests ==
  UNION {WorkflowCandidates,
         Mutate("status", WorkflowKeys, 1..3, {"INVESTIGATING", "RESOLVED"},
                {"valid"}),
         Mutate("note", WorkflowKeys, 1..3, {x1}, {"valid"}),
         Mutate("assign", WorkflowKeys, 1..3, {u1, u2}, {"valid"}),
         Mutate("disposition", WorkflowKeys, 1..2, {"TRUE_POSITIVE"},
                {"valid", "missing"}),
         Mutate("status", WorkflowKeys, {2}, {"INVESTIGATING"},
                {"missing", "invalid"}),
         Mutate("report", WorkflowKeys, 0..1, {x1}, {"valid"})}

Symmetry == Permutations(Txn)
=============================================================================
