----------------------------- MODULE MCEvidence -----------------------------
(* EvidencePipeline with the lab, an offline tool and a POST client.        *)
EXTENDS EvidencePipeline, TLC

CONSTANTS lab, tool, client

Scope == <<"run", "conf">>
Sample(key, body, scope, observed) ==
  Record("telemetry", "2.0.0", key, body, {}, scope, observed)
T1 == Sample(<<"t1">>, [value |-> 1], Scope, 2)
T2 == Sample(<<"t2">>, [value |-> 1], Scope, 3)
OtherRun == Sample(<<"t3">>, [value |-> 1], <<"run2", "conf">>, 4)
OtherConfiguration == Sample(<<"t4">>, [value |-> 1], <<"run", "conf2">>, 5)

Incident(name) == <<"incident", "1.0.0", name>>

Policy(event, incident) ==
  [post |-> FALSE, event |-> event, bytes |-> "fixture", meaning |-> "pump command",
   claims |-> "claims", command |-> 1, rule |-> None, telemetry |-> <<>>,
   scope |-> Unbound, received |-> 1, incident |-> incident, run |-> None]
Valve ==
  [Policy(<<"e2">>, Incident("i2")) EXCEPT !.meaning = "valve command", !.command = 2,
     !.rule = "S3", !.telemetry = <<T1, T2>>, !.scope = Scope]
Process(telemetry, incident) ==
  [Policy(None, incident) EXCEPT !.command = 0, !.rule = "S4", !.telemetry = telemetry]
Post(sample) == [Policy(None, None) EXCEPT !.post = TRUE, !.telemetry = <<sample>>]

MCCases(s) ==
  CASE s = lab -> {[Policy(<<"e1">>, Incident("i1")) EXCEPT !.run = "LAB-1"],
                   [Valve EXCEPT !.run = "LAB-2"]}
    [] s = tool -> {[Policy(<<"e1">>, Incident("i1")) EXCEPT !.received = 2],
                    [Policy(<<"e1">>, Incident("i1")) EXCEPT !.claims = "other"],
                    [Policy(<<"e2">>, Incident("i2")) EXCEPT !.bytes = "other", !.command = 2],
                    [Policy(<<"e1">>, None) EXCEPT !.rule = "S3", !.telemetry = <<T1>>],
                    [Valve EXCEPT !.received = 2],
                    Process(<<T1, OtherRun>>, None),
                    Process(<<T1, OtherConfiguration>>, None)}
    [] s = client -> {Post(T1),
                      Post([T1 EXCEPT !.body = [value |-> 2]]),
                      Post([T1 EXCEPT !.version = "1.0.0"]),
                      Post([T1 EXCEPT !.body = Oversized])}

(* Ids sort children before their parents.                                  *)
Position(x, sequence) == CHOOSE i \in DOMAIN sequence : sequence[i] = x
Event(id) == Position(id[3], <<<<"e1">>, <<"e2">>>>)
LastSample(ids) ==
  CHOOSE k \in 1..4 : LET Has(j) == Identity(<<T1, T2, OtherRun, OtherConfiguration>>[j]) \in ids
                      IN  Has(k) /\ \A j \in k + 1..4 : ~Has(j)
ScopeOrder ==
  <<Unbound, Scope, <<"run", None>>, <<"run", "conf2">>, <<"run2", "conf">>, <<"run2", None>>>>
MCUuidOrder(id) ==
  CASE id[1] = "incident" -> Position(id[3], <<"i1", "i2">>)
    [] id[1] = "correlation" -> 10 * LastSample(id[3][3]) + Position(id[3][2], ScopeOrder)
    [] id[1] = "finding" -> 200 + Event(id)
    [] id[1] = "context" -> 300 + Event(id)
    [] id[1] = "semantic" -> 400 + Event(id)
    [] id[1] = "raw" -> 500 + Event(id)
    [] id[1] = "telemetry" -> IF id[2] = "1.0.0" THEN 600
                              ELSE 600 + Position(id[3], <<<<"t1">>, <<"t2">>, <<"t3">>, <<"t4">>>>)
=============================================================================
