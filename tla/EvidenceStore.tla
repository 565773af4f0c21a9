---------------------------- MODULE EvidenceStore ----------------------------
(***************************************************************************)
(* The evidence table (app/evidence/service.py): ingestion by concurrent   *)
(* transactions and the reads over it.  PostgreSQL runs at READ COMMITTED: *)
(* a session sees the committed rows and its own, and an INSERT whose      *)
(* identity another open transaction has inserted waits until that one     *)
(* ends.  The trigger of migration 0002 refuses UPDATE and DELETE, so rows *)
(* only ever grow.                                                         *)
(***************************************************************************)
EXTENDS EvidenceRecords

CONSTANTS
  Sessions,       \* the database sessions
  UuidOrder(_)    \* where the id of an identity sorts among all ids

VARIABLES
  rows,           \* the committed rows: a record and its time of receipt
  pending         \* the rows each open transaction has inserted

storeVars == <<rows, pending>>

Row(r, received) == [record |-> r, received |-> received]

StoreInit ==
  /\ rows = {}
  /\ pending = [s \in Sessions |-> {}]

-----------------------------------------------------------------------------
(* The rows a statement of a session reads, and those of one identity.      *)
Visible(s) == rows \cup pending[s]
Matching(s, id) == {x \in Visible(s) : Identity(x.record) = id}
Stored(s, id) == CHOOSE x \in Matching(s, id) : TRUE

(* verify_record_integrity recomputes the digest of a stored row; a row is  *)
(* what was hashed, so finding it under the digest a child names is enough. *)
Verified(s, r) == \E x \in Visible(s) : x.record = r

(* The source registered for a kind accepts the current schema version.     *)
RegisteredVersion(kind) == IF kind = "telemetry" THEN "2.0.0" ELSE "1.0.0"
SourceAccepts(r) == r.version = RegisteredVersion(r.kind)

Oversized == [oversized |-> TRUE]

\* Mutant: the insert does not wait for the transaction that holds the identity.
HeldByNobody(s, id) == FALSE

(* Another open transaction has inserted this identity.                     *)
HeldByAnother(s, id) ==
  \E o \in Sessions \ {s} : \E x \in pending[o] : Identity(x.record) = id

MustWait(s, r) == SourceAccepts(r) /\ r.body # Oversized /\ HeldByAnother(s, Identity(r))

\* Mutant: an existing identity is taken for a duplicate without comparing digests.
OutcomeIgnoringContent(s, r) ==
  IF ~SourceAccepts(r) THEN "unknown_source"
  ELSE IF Matching(s, Identity(r)) = {} THEN "accepted"
  ELSE "duplicate_existing"

(* _ingest_validated_evidence: the source check, the size limit, the        *)
(* INSERT ... ON CONFLICT DO NOTHING and what the conflicting row tells.    *)
Outcome(s, r) ==
  IF ~SourceAccepts(r) THEN "unknown_source"
  ELSE IF r.body = Oversized THEN "too_large"
  ELSE IF Matching(s, Identity(r)) = {} THEN "accepted"
  ELSE IF Verified(s, r) THEN "duplicate_existing"
  ELSE "identity_conflict"

Succeeded == {"accepted", "duplicate_existing"}

Ingest(s, r, received) ==
  /\ ~MustWait(s, r)
  /\ pending' = IF Outcome(s, r) = "accepted"
                THEN [pending EXCEPT ![s] = @ \cup {Row(r, received)}]
                ELSE pending
  /\ UNCHANGED rows

CommitRows(s) ==
  /\ rows' = rows \cup pending[s]
  /\ pending' = [pending EXCEPT ![s] = {}]

\* Mutant: the transaction of a failed case is left open.
RollbackNothing(s) == UNCHANGED <<rows, pending>>

RollbackRows(s) ==
  /\ pending' = [pending EXCEPT ![s] = {}]
  /\ UNCHANGED rows

-----------------------------------------------------------------------------
(* list_evidence and list_incidents: a keyset page.  Items carry the time   *)
(* and the id they are listed by; Earlier is the ORDER BY, its strict part  *)
(* also the WHERE of a cursor.                                              *)
Earlier(a, b, descending) ==
  \/ IF descending THEN a.time > b.time ELSE a.time < b.time
  \/ a.time = b.time /\ UuidOrder(a.id) < UuidOrder(b.id)

\* Mutant: the cursor compares the times only, without the tie-break on the id.
AfterTimeOnly(items, cursor, descending) ==
  IF cursor = None THEN items
  ELSE {x \in items : IF descending THEN x.time < cursor.time ELSE x.time > cursor.time}

After(items, cursor, descending) ==
  IF cursor = None THEN items ELSE {x \in items : Earlier(cursor, x, descending)}

First(items, limit, descending) ==
  {x \in items : Cardinality({y \in items : Earlier(y, x, descending)}) < limit}

(* The next cursor: the last item of the page if there are more, else none. *)
NextCursor(items, page, descending) ==
  IF page = items THEN None
  ELSE CHOOSE x \in page : \A y \in page \ {x} : Earlier(y, x, descending)

EvidenceItem(x) == [id |-> Identity(x.record), time |-> x.record.observed]

=============================================================================
