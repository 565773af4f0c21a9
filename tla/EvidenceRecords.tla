--------------------------- MODULE EvidenceRecords ---------------------------
(***************************************************************************)
(* Evidence records as values (app/evidence/canonical.py, schemas.py).     *)
(* A record is what its canonical bytes cover: everything but the time of  *)
(* receipt.  SHA-256 is taken to be collision free, so the digest of a     *)
(* record is the record itself, and the deterministic evidence id is the   *)
(* identity it is a UUIDv5 of.                                             *)
(***************************************************************************)
EXTENDS Integers, FiniteSets

CONSTANT None   \* an absent value

Kinds == {"raw", "semantic", "context", "finding", "telemetry", "correlation"}

(* kind and version: evidence_type and payload_schema_version; key: the     *)
(* source event id; refs: the parents named in the payload, each by id and  *)
(* digest; scope: the simulation id and configuration hash.          *)
Record(kind, version, key, body, refs, scope, observed) ==
  [kind |-> kind, version |-> version, key |-> key, body |-> body,
   refs |-> refs, scope |-> scope, observed |-> observed]

Unbound == <<None, None>>

(* deterministic_evidence_id: one source produces each kind.                *)
Identity(r) == <<r.kind, r.version, r.key>>

(* What a child stores about a parent, its id and its digest, is then the   *)
(* parent itself.  One content per identity, and every parent there as the  *)
(* child saw it.                                                            *)
UniqueIdentities(S) == \A a, b \in S : Identity(a) = Identity(b) => a = b
LineageClosed(S) == \A r \in S : r.refs \subseteq S

=============================================================================
