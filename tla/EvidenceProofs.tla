--------------------------- MODULE EvidenceProofs ---------------------------
(***************************************************************************)
(* Proofs about EvidencePipeline, for any number of sessions, any cases,   *)
(* crashes and retries: the evidence table implements EvidenceLog, the     *)
(* receipt of a duplicate is true, and nobody waits for one who waits.     *)
(***************************************************************************)
EXTENDS EvidencePipeline, SequenceTheorems, TLAPS

AnyCase == {None} \union UNION {Cases(s) : s \in Sessions}
Drivers == [phase : {"idle", "running", "failed", "done"}, case : AnyCase,
            transaction : Nat, step : Nat]

\* A driver that runs is at a step of its plan, or has the commit before it.
DriverInv ==
  /\ driver \in [Sessions -> Drivers]
  /\ \A s \in Sessions :
       Running(s) =>
         /\ Case(s) \in Cases(s)
         /\ driver[s].transaction \in 1..Len(Plan(Case(s)))
         /\ driver[s].step \in 1..Len(Steps(s)) + 1

\* One row per identity.  What a transaction has inserted nobody else has,
\* neither committed nor in another transaction: the INSERT has waited.
UniqueInv ==
  /\ \A x, y \in rows : Identity(x.record) = Identity(y.record) => x = y
  /\ \A s \in Sessions : \A x \in pending[s] :
       /\ \A y \in rows : Identity(x.record) # Identity(y.record)
       /\ \A y \in pending[s] : Identity(x.record) = Identity(y.record) => x = y
       /\ \A o \in Sessions \ {s} : \A y \in pending[o] :
            Identity(x.record) # Identity(y.record)

\* A semantic event names a raw one of its key, a finding a context: this is
\* what makes the parents that a child looks up by id the ones that verify.
Shaped(r) ==
  /\ r.kind = "semantic" => \E p \in r.refs : Identity(p) = <<"raw", "1.0.0", r.key>>
  /\ r.kind = "finding" => \E p \in r.refs : Identity(p) = <<"context", "1.0.0", r.key>>

\* Committed rows rest on committed ones, the rows of a transaction on what
\* that transaction sees.
LineageInv ==
  /\ \A x \in rows : /\ Shaped(x.record)
                     /\ \A p \in x.record.refs : \E y \in rows : y.record = p
  /\ \A s \in Sessions : \A x \in pending[s] :
       Shaped(x.record) /\ \A p \in x.record.refs : Verified(s, p)

\* A transaction that has not begun has inserted nothing; before its finding
\* it can have inserted the context only; and a POST that is to be answered
\* sees its record.
PendingOf(s) ==
  /\ ~Running(s) \/ driver[s].step = 1 => pending[s] = {}
  /\ At(s, "finding") =>
       \A x \in pending[s] : Identity(x.record) = ContextId(Case(s))
  /\ At(s, "respond") => Verified(s, Case(s).telemetry[1])

PendingInv ==
  /\ pending = [s \in Sessions |-> pending[s]]
  /\ \A s \in Sessions : PendingOf(s)

EvidenceInv ==
  DriverInv /\ UniqueInv /\ LineageInv /\ PendingInv /\ DuplicateReceiptIsStored

-----------------------------------------------------------------------------
(* The transactions a plan consists of.                                      *)
Transactions ==
  {<<"raw">>, <<"semantic">>, <<"context", "finding">>, <<"telemetry">>, <<"correlation">>,
   <<"qualify">>, <<"link">>, <<"activate">>}
Answer == <<"telemetry", "respond">>
Skipped(c) == IF c.event = None THEN 0 ELSE 3

(* A POST is one transaction; otherwise each transaction is one of the      *)
(* eight, and those of the telemetry are where SampleOf looks for them.     *)
LEMMA PlanShape ==
  ASSUME NEW c, WellFormedCase(c)
  PROVE  /\ Len(Plan(c)) \in Nat \ {0}
         /\ \A k \in 1..Len(Plan(c)) :
              /\ Plan(c)[k] \in Transactions \union {Answer}
              /\ c.post => Plan(c)[k] = Answer
              /\ ~c.post => Plan(c)[k] \in Transactions
              /\ Plan(c)[k] = <<"telemetry">> => k - Skipped(c) \in DOMAIN c.telemetry
<1> DEFINE a == IF c.event = None THEN <<>> ELSE PolicyChain
           b == [i \in 1..Len(c.telemetry) |-> <<"telemetry">>]
           d == IF c.rule = None THEN <<>> ELSE <<<<"correlation">>>>
           e == IF c.incident = None THEN <<>> ELSE <<<<"qualify">>>>
           f == IF c.run = None THEN <<>> ELSE <<<<"link">>, <<"activate">>>>
           Others == Transactions \ {<<"telemetry">>}
<1>1. /\ Len(c.telemetry) \in Nat /\ DOMAIN c.telemetry = 1..Len(c.telemetry)
      /\ Plan(c) # <<>>
      /\ c.post \in BOOLEAN
  BY DEF WellFormedCase
<1>2. CASE c.post
  <2>1. Plan(c) = <<Answer>>
    BY <1>2 DEF Plan, Answer
  <2>2. Answer # <<"telemetry">>
    BY DEF Answer
  <2> QED BY <2>1, <2>2, <1>2
<1>3. CASE ~c.post
  <2>1. Plan(c) = (((a \o b) \o d) \o e) \o f
    BY <1>3 DEF Plan
  <2>2. /\ <<"raw">> \in Others /\ <<"semantic">> \in Others
        /\ <<"context", "finding">> \in Others /\ <<"correlation">> \in Others
        /\ <<"qualify">> \in Others /\ <<"link">> \in Others /\ <<"activate">> \in Others
        /\ <<"telemetry">> \in Transactions
        /\ Others \subseteq Transactions
        /\ \A t \in Others : t # <<"telemetry">>
    BY DEF Transactions
  <2> HIDE DEF Others
  <2>3. /\ a \in Seq(Transactions) /\ Len(a) = Skipped(c)
        /\ \A k \in 1..Len(a) : a[k] \in Others
    BY <2>2 DEF PolicyChain, Skipped
  <2>4. b \in Seq(Transactions) /\ Len(b) = Len(c.telemetry)
    BY <1>1, <2>2
  <2>5. /\ d \in Seq(Transactions) /\ \A k \in 1..Len(d) : d[k] \in Others
        /\ e \in Seq(Transactions) /\ \A k \in 1..Len(e) : e[k] \in Others
    BY <2>2
  <2>6. f \in Seq(Transactions) /\ \A k \in 1..Len(f) : f[k] \in Others
    BY <2>2
  <2> HIDE DEF a, b, d, e, f
  <2>7. /\ a \in Seq(Transactions) /\ b \in Seq(Transactions) /\ d \in Seq(Transactions)
        /\ e \in Seq(Transactions) /\ f \in Seq(Transactions)
    BY <2>3, <2>4, <2>5, <2>6
  <2>8. /\ a \o b \in Seq(Transactions) /\ Len(a \o b) = Len(a) + Len(b)
        /\ \A i \in 1..Len(a) + Len(b) :
             (a \o b)[i] = IF i <= Len(a) THEN a[i] ELSE b[i - Len(a)]
    BY <2>7, ConcatProperties
  <2> DEFINE ab == a \o b
             abd == ab \o d
             abde == abd \o e
             p == abde \o f
  <2>9. /\ abd \in Seq(Transactions) /\ Len(abd) = Len(ab) + Len(d)
        /\ \A i \in 1..Len(ab) + Len(d) :
             abd[i] = IF i <= Len(ab) THEN ab[i] ELSE d[i - Len(ab)]
    BY <2>7, <2>8, ConcatProperties
  <2>10. /\ abde \in Seq(Transactions) /\ Len(abde) = Len(abd) + Len(e)
         /\ \A i \in 1..Len(abd) + Len(e) :
              abde[i] = IF i <= Len(abd) THEN abd[i] ELSE e[i - Len(abd)]
    BY <2>7, <2>9, ConcatProperties
  <2>11. /\ p \in Seq(Transactions) /\ Len(p) = Len(abde) + Len(f)
         /\ \A i \in 1..Len(abde) + Len(f) :
              p[i] = IF i <= Len(abde) THEN abde[i] ELSE f[i - Len(abde)]
    BY <2>7, <2>10, ConcatProperties
  <2>12. Plan(c) = p
    BY <2>1
  <2> HIDE DEF ab, abd, abde, p
  <2>13. Len(p) \in Nat \ {0}
    BY <2>11, <2>12, <1>1, EmptySeq, SMTT(30)
  <2>14. \A k \in 1..Len(p) : p[k] \in Transactions
    BY <2>11
  <2>15. ASSUME NEW k \in 1..Len(p), p[k] = <<"telemetry">>
         PROVE  k - Skipped(c) \in DOMAIN c.telemetry
    <3>1. /\ Len(a) \in Nat /\ Len(b) \in Nat /\ Len(d) \in Nat /\ Len(e) \in Nat
          /\ Len(f) \in Nat
      BY <2>7
    <3>2. k <= Len(abde) /\ abde[k] = <<"telemetry">>
      <4>1. SUFFICES ASSUME k > Len(abde) PROVE FALSE
        BY <2>15, <2>11, <2>10
      <4>2. k - Len(abde) \in 1..Len(f)
        BY <4>1, <2>11, <2>10, <3>1
      <4>3. f[k - Len(abde)] = <<"telemetry">>
        BY <4>1, <2>15, <2>11, <2>10, <3>1
      <4> QED BY <4>2, <4>3, <2>6, <2>2
    <3>3. k <= Len(abd) /\ abd[k] = <<"telemetry">>
      <4>1. SUFFICES ASSUME k > Len(abd) PROVE FALSE
        BY <3>2, <2>10, <2>9
      <4>2. k - Len(abd) \in 1..Len(e)
        BY <4>1, <3>2, <2>10, <2>9, <3>1
      <4>3. e[k - Len(abd)] = <<"telemetry">>
        BY <4>1, <3>2, <2>10, <2>9, <3>1
      <4> QED BY <4>2, <4>3, <2>5, <2>2
    <3>4. k <= Len(ab) /\ ab[k] = <<"telemetry">>
      <4>1. SUFFICES ASSUME k > Len(ab) PROVE FALSE
        BY <3>3, <2>9, <2>8 DEF ab
      <4>2. k - Len(ab) \in 1..Len(d)
        BY <4>1, <3>3, <2>9, <2>8, <3>1 DEF ab
      <4>3. d[k - Len(ab)] = <<"telemetry">>
        BY <4>1, <3>3, <2>9, <2>8, <3>1 DEF ab
      <4> QED BY <4>2, <4>3, <2>5, <2>2
    <3>5. k > Len(a)
      <4>1. SUFFICES ASSUME k \in 1..Len(a) PROVE FALSE
        BY <3>1
      <4> QED BY <4>1, <3>4, <2>8, <3>1, <2>3, <2>2 DEF ab
    <3> QED BY <3>1, <3>4, <3>5, <2>8, <2>3, <2>4, <1>1 DEF ab
  <2> QED BY <2>12, <2>13, <2>14, <2>15, <1>3
<1> QED BY <1>1, <1>2, <1>3

-----------------------------------------------------------------------------
(* Which step of which transaction a driver is at.                          *)
LEMMA StepShape ==
  ASSUME DriverInv, NEW s \in Sessions, Running(s)
  PROVE  /\ Case(s) \in Cases(s) /\ WellFormedCase(Case(s))
         /\ Len(Plan(Case(s))) \in Nat
         /\ driver[s].transaction \in 1..Len(Plan(Case(s)))
         /\ Steps(s) \in Transactions \union {Answer}
         /\ driver[s].step \in 1..Len(Steps(s)) + 1
         /\ Case(s).post => Steps(s) = Answer
         /\ ~Case(s).post => Steps(s) \in Transactions
         /\ Steps(s) = <<"telemetry">> =>
              driver[s].transaction - Skipped(Case(s)) \in DOMAIN Case(s).telemetry
<1>1. /\ Case(s) \in Cases(s)
      /\ driver[s].transaction \in 1..Len(Plan(Case(s)))
      /\ driver[s].step \in 1..Len(Steps(s)) + 1
  BY DEF DriverInv
<1>2. WellFormedCase(Case(s))
  BY <1>1, CasesAssumption
<1>3. /\ Len(Plan(Case(s))) \in Nat \ {0}
      /\ \A k \in 1..Len(Plan(Case(s))) :
           /\ Plan(Case(s))[k] \in Transactions \union {Answer}
           /\ Case(s).post => Plan(Case(s))[k] = Answer
           /\ ~Case(s).post => Plan(Case(s))[k] \in Transactions
           /\ Plan(Case(s))[k] = <<"telemetry">> =>
                k - Skipped(Case(s)) \in DOMAIN Case(s).telemetry
  BY <1>2, PlanShape
<1> QED BY <1>1, <1>2, <1>3 DEF Steps

LEMMA AtStep ==
  ASSUME DriverInv, NEW s \in Sessions, NEW what, At(s, what)
  PROVE  \/ /\ Steps(s) = <<what>> /\ driver[s].step = 1
            /\ what \notin {"context", "finding", "respond"}
         \/ /\ Steps(s) = <<"context", "finding">>
            /\ \/ what = "context" /\ driver[s].step = 1
               \/ what = "finding" /\ driver[s].step = 2
         \/ /\ Steps(s) = Answer /\ Case(s).post
            /\ \/ what = "telemetry" /\ driver[s].step = 1
               \/ what = "respond" /\ driver[s].step = 2
<1>1. /\ Steps(s) \in Transactions \union {Answer}
      /\ driver[s].step \in 1..Len(Steps(s))
      /\ Steps(s)[driver[s].step] = what
      /\ Steps(s) = Answer => Case(s).post
  <2>1. Running(s)
    BY DEF At
  <2>2. Answer \notin Transactions
    BY DEF Answer, Transactions
  <2>3. /\ Steps(s) \in Transactions \union {Answer}
        /\ driver[s].step \in 1..Len(Steps(s)) + 1
        /\ ~Case(s).post => Steps(s) \in Transactions
    BY <2>1, StepShape
  <2>4. Len(Steps(s)) \in Nat
    BY <2>3 DEF Transactions, Answer
  <2> QED BY <2>2, <2>3, <2>4 DEF At, AtCommit
<1>2. CASE Steps(s) = Answer
  BY <1>1, <1>2 DEF Answer
<1>3. CASE Steps(s) = <<"context", "finding">>
  BY <1>1, <1>3
<1>4. CASE Steps(s) \in Transactions \ {<<"context", "finding">>}
  <2>1. PICK t \in {"raw", "semantic", "telemetry", "correlation", "qualify", "link", "activate"} :
          Steps(s) = <<t>>
    BY <1>4 DEF Transactions
  <2> QED BY <1>1, <2>1
<1> QED BY <1>1, <1>2, <1>3, <1>4

-----------------------------------------------------------------------------
(* What a session looks up by id it sees, and under that id.                *)
LEMMA Found ==
  ASSUME NEW s \in Sessions, NEW id, Matching(s, id) # {}
  PROVE  /\ Verified(s, StoredRecord(s, id))
         /\ Identity(StoredRecord(s, id)) = id
         /\ Stored(s, id) \in Visible(s)
<1>1. Stored(s, id) \in Matching(s, id)
  BY DEF Stored
<1> QED BY <1>1 DEF Matching, Verified, StoredRecord

(* The parent of a parent that verifies is found by the id in its shape.    *)
LEMMA FoundThrough ==
  ASSUME NEW s \in Sessions, NEW id, NEW q, ParentVerified(s, id),
         \E p \in StoredRecord(s, id).refs : Identity(p) = q
  PROVE  Matching(s, q) # {}
BY DEF ParentVerified, Verified, Matching

LEMMA VisibleShaped ==
  ASSUME LineageInv, NEW s \in Sessions, NEW x \in Visible(s)
  PROVE  Shaped(x.record)
BY DEF LineageInv, Visible

(* Every record a stage derives names parents that its transaction sees.    *)
LEMMA EnvelopeSound ==
  ASSUME DriverInv, LineageInv, NEW s \in Sessions, AtIngest(s), CanDerive(s)
  PROVE  /\ \A p \in Envelope(s).refs : Verified(s, p)
         /\ Shaped(Envelope(s))
         /\ At(s, "context") => Identity(Envelope(s)) = ContextId(Case(s))
         /\ At(s, "finding") => Identity(Envelope(s)) = FindingId(Case(s))
         /\ Case(s).post => Envelope(s) = Case(s).telemetry[1]
<1> DEFINE c == Case(s)
<1>1. /\ Running(s) /\ WellFormedCase(c)
      /\ c.post => Steps(s) = Answer
      /\ ~c.post => Steps(s) \in Transactions
      /\ Steps(s) = <<"telemetry">> =>
           driver[s].transaction - Skipped(c) \in DOMAIN c.telemetry
  <2>1. Running(s)
    BY DEF AtIngest, At
  <2> QED BY <2>1, StepShape
<1>2. ASSUME NEW k, At(s, k), k # "telemetry", k # "respond"
      PROVE  ~c.post
  BY <1>2, <1>1, AtStep DEF Answer
<1>3. ASSUME NEW i, NEW j, At(s, i), At(s, j)
      PROVE  i = j
  BY <1>3 DEF At
<1>4. CASE At(s, "raw")
  <2>1. Envelope(s) = RawRecord(c)
    BY <1>4, <1>3 DEF Envelope
  <2>2. ~At(s, "context") /\ ~At(s, "finding") /\ ~c.post
    BY <1>4, <1>2, <1>3
  <2> QED BY <2>1, <2>2 DEF RawRecord, Record, Shaped
<1>5. CASE At(s, "semantic")
  <2>1. Envelope(s) = SemanticRecord(s) /\ ParentVerified(s, RawId(c))
    BY <1>5, <1>3 DEF Envelope, CanDerive
  <2>2. ~At(s, "context") /\ ~At(s, "finding") /\ ~c.post
    BY <1>5, <1>2, <1>3
  <2>3. /\ Verified(s, StoredRecord(s, RawId(c)))
        /\ Identity(StoredRecord(s, RawId(c))) = RawId(c)
    BY <2>1, Found DEF ParentVerified
  <2>4. /\ Envelope(s).kind = "semantic" /\ Envelope(s).key = c.event
        /\ Envelope(s).refs = {StoredRecord(s, RawId(c))}
    BY <2>1 DEF SemanticRecord, Record, StoredRecord
  <2> QED BY <2>2, <2>3, <2>4 DEF Shaped, RawId
<1>6. ASSUME ParentVerified(s, SemanticId(c))
      PROVE  /\ Verified(s, StoredRecord(s, SemanticId(c)))
             /\ Verified(s, StoredRecord(s, RawId(c)))
  <2>1. /\ Verified(s, StoredRecord(s, SemanticId(c)))
        /\ Identity(StoredRecord(s, SemanticId(c))) = SemanticId(c)
        /\ Stored(s, SemanticId(c)) \in Visible(s)
    BY <1>6, Found DEF ParentVerified
  <2>2. Shaped(StoredRecord(s, SemanticId(c)))
    BY <2>1, VisibleShaped DEF StoredRecord
  <2>3. \E p \in StoredRecord(s, SemanticId(c)).refs : Identity(p) = RawId(c)
    BY <2>1, <2>2 DEF Shaped, Identity, SemanticId, RawId
  <2>4. Matching(s, RawId(c)) # {}
    BY <1>6, <2>3, FoundThrough
  <2> QED BY <2>1, <2>4, Found
<1>7. CASE At(s, "context")
  <2>1. Envelope(s) = ContextRecord(s) /\ ParentVerified(s, SemanticId(c))
    BY <1>7, <1>3 DEF Envelope, CanDerive
  <2>2. ~At(s, "finding") /\ ~c.post
    BY <1>7, <1>2, <1>3
  <2>3. /\ Envelope(s).kind = "context" /\ Identity(Envelope(s)) = ContextId(c)
        /\ Envelope(s).refs = {StoredRecord(s, RawId(c)), StoredRecord(s, SemanticId(c))}
    BY <2>1 DEF ContextRecord, Record, Parents, Identity, ContextId
  <2> QED BY <2>1, <2>2, <2>3, <1>6 DEF Shaped
<1>8. CASE At(s, "finding")
  <2>1. /\ Envelope(s) = FindingRecord(s)
        /\ ParentVerified(s, SemanticId(c)) /\ ParentVerified(s, ContextId(c))
    BY <1>8, <1>3 DEF Envelope, CanDerive
  <2>2. ~At(s, "context") /\ ~c.post
    BY <1>8, <1>2, <1>3
  <2>3. /\ Envelope(s).kind = "finding" /\ Identity(Envelope(s)) = FindingId(c)
        /\ Envelope(s).key = c.event
        /\ Envelope(s).refs = {StoredRecord(s, RawId(c)), StoredRecord(s, SemanticId(c)),
                               StoredRecord(s, ContextId(c))}
    BY <2>1 DEF FindingRecord, Record, Parents, Identity, FindingId
  <2>4. /\ Verified(s, StoredRecord(s, ContextId(c)))
        /\ Identity(StoredRecord(s, ContextId(c))) = ContextId(c)
    BY <2>1, Found DEF ParentVerified
  <2> QED BY <2>1, <2>2, <2>3, <2>4, <1>6 DEF Shaped, ContextId
<1>9. CASE At(s, "telemetry")
  <2>1. Envelope(s) = IF c.post THEN c.telemetry[1] ELSE SampleOf(s)
    BY <1>9, <1>3 DEF Envelope
  <2>2. ~At(s, "context") /\ ~At(s, "finding")
    BY <1>9, <1>3
  <2>3. PICK i \in DOMAIN c.telemetry : Envelope(s) = c.telemetry[i]
    <3>1. CASE c.post
      BY <1>1, <2>1, <3>1 DEF WellFormedCase
    <3>2. CASE ~c.post
      <4>1. Steps(s) = <<"telemetry">>
        BY <1>9, <3>2, AtStep
      <4> QED BY <4>1, <1>1, <2>1, <3>2 DEF SampleOf, Skipped
    <3> QED BY <3>1, <3>2
  <2>4. Envelope(s).kind = "telemetry" /\ Envelope(s).refs = {}
    BY <1>1, <2>3 DEF WellFormedCase, TelemetryOf
  <2> QED BY <2>1, <2>2, <2>4 DEF Shaped
<1>10. CASE At(s, "correlation")
  <2>1. /\ Envelope(s) = CorrelationRecord(s)
        /\ \A t \in TelemetryOf(c) : Matching(s, Identity(t)) # {}
        /\ CyberAccepted(s)
    BY <1>10, <1>3 DEF Envelope, CanDerive
  <2>2. ~At(s, "context") /\ ~At(s, "finding") /\ ~c.post
    BY <1>10, <1>2, <1>3
  <2>3. /\ Envelope(s).kind = "correlation"
        /\ Envelope(s).refs =
             {StoredRecord(s, Identity(t)) : t \in TelemetryOf(c)}
             \union Parents(s, CyberIds(c))
    BY <2>1 DEF CorrelationRecord, Record
  <2>4. \A id \in CyberIds(c) : Matching(s, id) # {}
    BY <2>1 DEF CyberAccepted, CyberIds, ParentVerified
  <2>5. \A t \in TelemetryOf(c) : Verified(s, StoredRecord(s, Identity(t)))
    BY <2>1, Found
  <2>6. \A id \in CyberIds(c) : Verified(s, StoredRecord(s, id))
    BY <2>4, Found
  <2> QED BY <2>2, <2>3, <2>5, <2>6 DEF Shaped, Parents
<1> QED BY <1>4, <1>5, <1>7, <1>8, <1>9, <1>10 DEF AtIngest, Kinds

-----------------------------------------------------------------------------
(* What the moves of a driver preserve.                                     *)
LEMMA FirstStep ==
  ASSUME NEW c, WellFormedCase(c), NEW k \in 1..Len(Plan(c))
  PROVE  Plan(c)[k][1] # "respond" /\ Len(Plan(c)[k]) \in Nat \ {0}
<1>1. Plan(c)[k] \in Transactions \union {Answer}
  BY PlanShape
<1> QED BY <1>1 DEF Transactions, Answer

LEMMA IdleDriver == Idle \in Drivers /\ Idle.phase # "running"
<1>1. None \in AnyCase
  BY DEF AnyCase
<1> QED BY <1>1 DEF Idle, Drivers

LEMMA OneDriver ==
  ASSUME DriverInv, NEW s \in Sessions, NEW d \in Drivers,
         driver' = [driver EXCEPT ![s] = d],
         d.phase = "running" =>
           /\ d.case \in Cases(s)
           /\ d.transaction \in 1..Len(Plan(d.case))
           /\ d.step \in 1..Len(Plan(d.case)[d.transaction]) + 1
  PROVE  /\ DriverInv'
         /\ driver'[s] = d
         /\ \A o \in Sessions \ {s} : driver'[o] = driver[o]
<1>1. /\ driver' \in [Sessions -> Drivers] /\ driver'[s] = d
      /\ \A o \in Sessions \ {s} : driver'[o] = driver[o]
  BY DEF DriverInv
<1>2. ASSUME NEW o \in Sessions, Running(o)'
      PROVE  /\ Case(o)' \in Cases(o)
             /\ driver'[o].transaction \in 1..Len(Plan(Case(o)'))
             /\ driver'[o].step \in 1..Len(Plan(Case(o)')[driver'[o].transaction]) + 1
  BY <1>1, <1>2 DEF DriverInv, Running, Case, Steps
<1> QED BY <1>1, <1>2 DEF DriverInv, Steps

LEMMA NextStepKeeps ==
  ASSUME DriverInv, NEW s \in Sessions, NEW what, At(s, what), NextStep(s)
  PROVE  /\ DriverInv'
         /\ driver'[s] = [driver[s] EXCEPT !.step = @ + 1]
         /\ \A o \in Sessions \ {s} : driver'[o] = driver[o]
<1>1. /\ Running(s) /\ driver[s] \in Drivers
      /\ driver[s].step \in 1..Len(Steps(s)) + 1 /\ ~(driver[s].step > Len(Steps(s)))
      /\ Case(s) \in Cases(s) /\ driver[s].transaction \in 1..Len(Plan(Case(s)))
  BY DEF DriverInv, At, AtCommit
<1>2. Len(Steps(s)) \in Nat
  BY <1>1, CasesAssumption, FirstStep DEF Steps
<1>3. [driver[s] EXCEPT !.step = @ + 1] \in Drivers
  BY <1>1, <1>2 DEF Drivers
<1>4. driver' = [driver EXCEPT ![s] = [driver[s] EXCEPT !.step = @ + 1]]
  BY DEF NextStep
<1>5. driver[s].step + 1 \in 1..Len(Steps(s)) + 1
  BY <1>1, <1>2
<1> DEFINE d == [driver[s] EXCEPT !.step = @ + 1]
<1>6. /\ d.phase = driver[s].phase /\ d.case = Case(s)
      /\ d.transaction = driver[s].transaction /\ d.step = driver[s].step + 1
  BY <1>1 DEF Drivers, Case
<1>7. /\ d.case \in Cases(s) /\ d.transaction \in 1..Len(Plan(d.case))
      /\ d.step \in 1..Len(Plan(d.case)[d.transaction]) + 1
  BY <1>1, <1>5, <1>6 DEF Steps
<1>8. d \in Drivers /\ driver' = [driver EXCEPT ![s] = d]
  BY <1>3, <1>4
<1> HIDE DEF d
<1>9. /\ DriverInv' /\ driver'[s] = d
      /\ \A o \in Sessions \ {s} : driver'[o] = driver[o]
  BY <1>7, <1>8, OneDriver
<1> QED BY <1>9 DEF d

LEMMA EndDriverKeeps ==
  ASSUME DriverInv, NEW s \in Sessions, NEW phase \in {"done", "failed"}, Running(s),
         EndDriver(s, phase)
  PROVE  /\ DriverInv' /\ ~Running(s)'
         /\ \A o \in Sessions \ {s} : driver'[o] = driver[o]
<1> DEFINE d == [Idle EXCEPT !.phase = phase, !.case = Case(s)]
<1>1. Case(s) \in Cases(s)
  BY DEF DriverInv
<1>2. d \in Drivers /\ d.phase # "running"
  BY <1>1 DEF Drivers, Idle, AnyCase
<1>3. driver' = [driver EXCEPT ![s] = d]
  BY DEF EndDriver
<1> HIDE DEF d
<1>4. /\ DriverInv' /\ driver'[s] = d
      /\ \A o \in Sessions \ {s} : driver'[o] = driver[o]
  BY <1>2, <1>3, OneDriver
<1> QED BY <1>2, <1>4 DEF Running

LEMMA NextTransactionKeeps ==
  ASSUME DriverInv, NEW s \in Sessions, Running(s), NextTransaction(s)
  PROVE  /\ DriverInv'
         /\ ~Running(s)' \/ driver'[s].step = 1
         /\ \A o \in Sessions \ {s} : driver'[o] = driver[o]
<1>1. CASE EndDriver(s, "done")
  BY <1>1, EndDriverKeeps
<1>2. CASE ~EndDriver(s, "done")
  <2> DEFINE d == [driver[s] EXCEPT !.transaction = @ + 1, !.step = 1]
  <2>1. /\ driver[s].transaction # Len(Plan(Case(s)))
        /\ driver' = [driver EXCEPT ![s] = d]
    BY <1>2 DEF NextTransaction
  <2>2. /\ Case(s) \in Cases(s) /\ WellFormedCase(Case(s)) /\ driver[s] \in Drivers
        /\ driver[s].transaction \in 1..Len(Plan(Case(s))) /\ Len(Plan(Case(s))) \in Nat
    BY StepShape DEF DriverInv
  <2>3. driver[s].transaction + 1 \in 1..Len(Plan(Case(s)))
    BY <2>1, <2>2
  <2>4. /\ d \in Drivers /\ d.case = Case(s) /\ d.step = 1
        /\ d.transaction = driver[s].transaction + 1
    <3>1. driver[s].transaction + 1 \in Nat
      BY <2>2
    <3> QED BY <2>2, <3>1 DEF Drivers, Case
  <2>5. Len(Plan(Case(s))[driver[s].transaction + 1]) \in Nat
    BY <2>2, <2>3, FirstStep
  <2>6. /\ d.case \in Cases(s) /\ d.transaction \in 1..Len(Plan(d.case))
        /\ d.step \in 1..Len(Plan(d.case)[d.transaction]) + 1
    BY <2>2, <2>3, <2>4, <2>5
  <2> HIDE DEF d
  <2>7. /\ DriverInv' /\ driver'[s] = d
        /\ \A o \in Sessions \ {s} : driver'[o] = driver[o]
    BY <2>1, <2>4, <2>6, OneDriver
  <2> QED BY <2>4, <2>7
<1> QED BY <1>1, <1>2

-----------------------------------------------------------------------------
(* What the three changes of the store preserve.                            *)
LEMMA InsertKeeps ==
  ASSUME UniqueInv, LineageInv, pending = [o \in Sessions |-> pending[o]],
         NEW s \in Sessions, NEW r, NEW received, UNCHANGED rows,
         pending' = [pending EXCEPT ![s] = @ \cup {Row(r, received)}],
         Matching(s, Identity(r)) = {}, ~HeldByAnother(s, Identity(r)),
         Shaped(r), \A p \in r.refs : Verified(s, p)
  PROVE  UniqueInv' /\ LineageInv'
<1> DEFINE n == Row(r, received)
<1>1. n.record = r
  BY DEF Row
<1>2. /\ pending'[s] = pending[s] \union {n}
      /\ \A o \in Sessions \ {s} : pending'[o] = pending[o]
  OBVIOUS
<1> HIDE DEF n
<1>3. /\ \A y \in rows : Identity(y.record) # Identity(r)
      /\ \A y \in pending[s] : Identity(y.record) # Identity(r)
      /\ \A o \in Sessions \ {s} : \A y \in pending[o] : Identity(y.record) # Identity(r)
  BY DEF Matching, Visible, HeldByAnother
<1>4. UniqueInv'
  <2>1. \A x, y \in rows' : Identity(x.record) = Identity(y.record) => x = y
    BY DEF UniqueInv
  <2>2. ASSUME NEW o \in Sessions, NEW x \in pending'[o]
        PROVE  /\ \A y \in rows : Identity(x.record) # Identity(y.record)
               /\ \A y \in pending'[o] : Identity(x.record) = Identity(y.record) => x = y
               /\ \A q \in Sessions \ {o} : \A y \in pending'[q] :
                    Identity(x.record) # Identity(y.record)
    BY <1>1, <1>2, <1>3, <2>2 DEF UniqueInv
  <2> QED BY <2>1, <2>2 DEF UniqueInv
<1>5. ASSUME NEW o \in Sessions, NEW p, Verified(o, p)
      PROVE  Verified(o, p)'
  BY <1>2, <1>5 DEF Verified, Visible
<1>6. LineageInv'
  <2>1. \A x \in rows' : /\ Shaped(x.record)
                         /\ \A p \in x.record.refs : \E y \in rows' : y.record = p
    BY DEF LineageInv
  <2>2. ASSUME NEW o \in Sessions, NEW x \in pending'[o]
        PROVE  Shaped(x.record) /\ \A p \in x.record.refs : Verified(o, p)
    <3>1. CASE x \in pending[o]
      BY <3>1 DEF LineageInv
    <3>2. CASE o = s /\ x = n
      BY <3>2, <1>1
    <3> QED BY <1>2, <2>2, <3>1, <3>2
  <2>3. ASSUME NEW o \in Sessions, NEW x \in pending'[o]
        PROVE  Shaped(x.record) /\ \A p \in x.record.refs : Verified(o, p)'
    BY <2>2, <1>5
  <2> QED BY <2>1, <2>3 DEF LineageInv
<1> QED BY <1>4, <1>6

LEMMA CommitKeeps ==
  ASSUME UniqueInv, LineageInv, pending = [o \in Sessions |-> pending[o]],
         NEW s \in Sessions, CommitRows(s)
  PROVE  UniqueInv' /\ LineageInv'
<1>1. /\ rows' = rows \union pending[s] /\ pending'[s] = {}
      /\ \A o \in Sessions \ {s} : pending'[o] = pending[o]
  BY DEF CommitRows
<1>2. UniqueInv'
  <2>1. \A x, y \in rows' : Identity(x.record) = Identity(y.record) => x = y
    BY <1>1 DEF UniqueInv
  <2>2. ASSUME NEW o \in Sessions, NEW x \in pending'[o]
        PROVE  /\ \A y \in rows' : Identity(x.record) # Identity(y.record)
               /\ \A y \in pending'[o] : Identity(x.record) = Identity(y.record) => x = y
               /\ \A q \in Sessions \ {o} : \A y \in pending'[q] :
                    Identity(x.record) # Identity(y.record)
    BY <1>1, <2>2 DEF UniqueInv
  <2> QED BY <2>1, <2>2 DEF UniqueInv
<1>3. LineageInv'
  <2>1. ASSUME NEW x \in rows'
        PROVE  Shaped(x.record) /\ \A p \in x.record.refs : \E y \in rows' : y.record = p
    BY <1>1, <2>1 DEF LineageInv, Verified, Visible
  <2>2. ASSUME NEW o \in Sessions, NEW x \in pending'[o]
        PROVE  Shaped(x.record) /\ \A p \in x.record.refs : Verified(o, p)'
    BY <1>1, <2>2 DEF LineageInv, Verified, Visible
  <2> QED BY <2>1, <2>2 DEF LineageInv
<1> QED BY <1>2, <1>3

LEMMA RollbackKeeps ==
  ASSUME UniqueInv, LineageInv, pending = [o \in Sessions |-> pending[o]],
         NEW s \in Sessions, RollbackRows(s)
  PROVE  UniqueInv' /\ LineageInv'
<1>1. /\ rows' = rows /\ pending'[s] = {}
      /\ \A o \in Sessions \ {s} : pending'[o] = pending[o]
  BY DEF RollbackRows
<1>2. UniqueInv'
  <2>1. ASSUME NEW o \in Sessions, NEW x \in pending'[o]
        PROVE  /\ \A y \in rows' : Identity(x.record) # Identity(y.record)
               /\ \A y \in pending'[o] : Identity(x.record) = Identity(y.record) => x = y
               /\ \A q \in Sessions \ {o} : \A y \in pending'[q] :
                    Identity(x.record) # Identity(y.record)
    BY <1>1, <2>1 DEF UniqueInv
  <2> QED BY <1>1, <2>1 DEF UniqueInv
<1>3. LineageInv'
  <2>1. ASSUME NEW o \in Sessions, NEW x \in pending'[o]
        PROVE  Shaped(x.record) /\ \A p \in x.record.refs : Verified(o, p)'
    BY <1>1, <2>1 DEF LineageInv, Verified, Visible
  <2> QED BY <1>1, <2>1 DEF LineageInv
<1> QED BY <1>2, <1>3

-----------------------------------------------------------------------------
(* What a session that does not move is owed, it keeps.                     *)
LEMMA PendingFrame ==
  ASSUME NEW o \in Sessions, PendingOf(o), driver'[o] = driver[o],
         pending'[o] = pending[o], rows \subseteq rows'
  PROVE  PendingOf(o)'
<1>1. /\ Running(o)' <=> Running(o)
      /\ Case(o)' = Case(o)
      /\ At(o, "finding")' <=> At(o, "finding")
      /\ At(o, "respond")' <=> At(o, "respond")
  BY DEF Running, Case, At, AtCommit, Steps
<1>2. Verified(o, Case(o).telemetry[1]) => Verified(o, Case(o).telemetry[1])'
  BY <1>1 DEF Verified, Visible
<1>3. ContextId(Case(o))' = ContextId(Case(o))
  BY <1>1 DEF ContextId
<1> QED BY <1>1, <1>2, <1>3 DEF PendingOf

(* A session that begins a transaction, or has none, is owed nothing.       *)
LEMMA PendingFresh ==
  ASSUME NEW s \in Sessions, DriverInv', pending'[s] = {},
         ~Running(s)' \/ driver'[s].step = 1
  PROVE  PendingOf(s)'
<1>1. CASE ~Running(s)'
  BY <1>1 DEF PendingOf, At
<1>2. CASE Running(s)'
  <2>1. /\ Case(s)' \in Cases(s)
        /\ driver'[s].transaction \in 1..Len(Plan(Case(s)'))
    BY <1>2 DEF DriverInv
  <2>2. Plan(Case(s)')[driver'[s].transaction][1] # "respond"
    BY <2>1, CasesAssumption, FirstStep
  <2>3. ~At(s, "respond")'
    BY <1>2, <2>2 DEF At, Steps
  <2> QED BY <2>3 DEF PendingOf
<1> QED BY <1>1, <1>2

(* Hence a step of one session that ends its transaction.                   *)
LEMMA PendingKeeps ==
  ASSUME PendingInv, NEW s \in Sessions, DriverInv',
         ~Running(s)' \/ driver'[s].step = 1,
         \A o \in Sessions \ {s} : driver'[o] = driver[o],
         pending' = [pending EXCEPT ![s] = {}], rows \subseteq rows'
  PROVE  PendingInv'
<1>1. pending'[s] = {} /\ \A o \in Sessions \ {s} : pending'[o] = pending[o]
  BY DEF PendingInv
<1>2. PendingOf(s)'
  BY <1>1, PendingFresh
<1>3. ASSUME NEW o \in Sessions \ {s} PROVE PendingOf(o)'
  BY <1>1, <1>3, PendingFrame DEF PendingInv
<1>4. pending' = [o \in Sessions |-> pending'[o]]
  BY DEF PendingInv
<1> QED BY <1>2, <1>3, <1>4 DEF PendingInv

LEMMA ReceiptsKeep ==
  ASSUME DuplicateReceiptIsStored, UNCHANGED receipts, rows \subseteq rows'
  PROVE  DuplicateReceiptIsStored'
BY DEF DuplicateReceiptIsStored

LEMMA StoreFrame ==
  ASSUME UniqueInv, LineageInv, UNCHANGED storeVars
  PROVE  UniqueInv' /\ LineageInv'
<1>1. rows' = rows /\ pending' = pending
  BY DEF storeVars
<1>2. \A o, p : Verified(o, p)' <=> Verified(o, p)
  BY <1>1 DEF Verified, Visible
<1> QED BY <1>1, <1>2 DEF UniqueInv, LineageInv

-----------------------------------------------------------------------------
(* What the ingestion of a record does to the store and to its driver.      *)
LEMMA IngestEffect ==
  ASSUME EvidenceInv, NEW s \in Sessions, IngestStep(s)
  PROVE  LET r == Envelope(s)
         IN  /\ \E kind \in Kinds : At(s, kind)
             /\ CanDerive(s) /\ SourceAccepts(r) /\ r.body # Oversized
             /\ \/ Matching(s, Identity(r)) = {} /\ Outcome(s, r) = "accepted"
                \/ Verified(s, r) /\ Outcome(s, r) # "accepted"
             /\ DriverInv'
             /\ driver'[s] = [driver[s] EXCEPT !.step = @ + 1]
             /\ \A o \in Sessions \ {s} : driver'[o] = driver[o]
             /\ rows' = rows
             /\ pending' = [o \in Sessions |-> pending'[o]]
             /\ \A o \in Sessions \ {s} : pending'[o] = pending[o]
             /\ \/ pending'[s] = pending[s] /\ Verified(s, r)
                \/ pending'[s] = pending[s] \union {Row(r, Case(s).received)}
             /\ \E x \in rows' \union pending'[s] : x.record = r
<1> DEFINE r == Envelope(s)
<1> USE DEF EvidenceInv
<1>1. PICK kind \in Kinds : At(s, kind)
  BY DEF IngestStep, AtIngest
<1>2. /\ CanDerive(s) /\ Outcome(s, r) \in Succeeded
      /\ Ingest(s, r, Case(s).received) /\ NextStep(s) /\ UNCHANGED receipts
  BY DEF IngestStep
<1> HIDE DEF r
<1>4. /\ DriverInv'
      /\ driver'[s] = [driver[s] EXCEPT !.step = @ + 1]
      /\ \A o \in Sessions \ {s} : driver'[o] = driver[o]
  BY <1>1, <1>2, NextStepKeeps
<1>5. rows' = rows
  BY <1>2 DEF Ingest
<1>6. /\ SourceAccepts(r) /\ r.body # Oversized
      /\ \/ Matching(s, Identity(r)) = {} /\ Outcome(s, r) = "accepted"
         \/ Verified(s, r) /\ Outcome(s, r) # "accepted"
  <2>1. SourceAccepts(r) /\ r.body # Oversized
    <3>1. ~SourceAccepts(r) => Outcome(s, r) = "unknown_source"
      BY DEF Outcome
    <3>2. SourceAccepts(r) /\ r.body = Oversized => Outcome(s, r) = "too_large"
      BY DEF Outcome
    <3> QED BY <1>2, <3>1, <3>2 DEF Succeeded
  <2>2. CASE Matching(s, Identity(r)) = {}
    BY <2>1, <2>2 DEF Outcome
  <2>3. CASE Matching(s, Identity(r)) # {}
    BY <1>2, <2>1, <2>3 DEF Outcome, Succeeded
  <2> QED BY <2>1, <2>2, <2>3
<1>8. /\ pending' = [o \in Sessions |-> pending'[o]]
      /\ \A o \in Sessions \ {s} : pending'[o] = pending[o]
      /\ \/ pending'[s] = pending[s] /\ Verified(s, r)
         \/ pending'[s] = pending[s] \union {Row(r, Case(s).received)}
  BY <1>2, <1>6 DEF Ingest, PendingInv
<1>9. \E x \in rows' \union pending'[s] : x.record = r
  <2>1. CASE pending'[s] = pending[s] /\ Verified(s, r)
    BY <1>5, <2>1 DEF Verified, Visible
  <2>2. CASE pending'[s] = pending[s] \union {Row(r, Case(s).received)}
    <3>1. Row(r, Case(s).received).record = r
      BY DEF Row
    <3> QED BY <2>2, <3>1
  <2> QED BY <1>8, <2>1, <2>2
<1> QED BY <1>1, <1>2, <1>4, <1>5, <1>6, <1>8, <1>9 DEF r

LEMMA IngestKeeps ==
  ASSUME EvidenceInv, NEW s \in Sessions, IngestStep(s)
  PROVE  EvidenceInv'
<1> DEFINE r == Envelope(s)
<1> USE DEF EvidenceInv
<1>1. PICK kind \in Kinds : At(s, kind)
  BY DEF IngestStep, AtIngest
<1>2. /\ CanDerive(s) /\ Outcome(s, r) \in Succeeded
      /\ Ingest(s, r, Case(s).received) /\ NextStep(s) /\ UNCHANGED receipts
  BY DEF IngestStep
<1>3. /\ \A p \in r.refs : Verified(s, p)
      /\ Shaped(r)
      /\ At(s, "context") => Identity(r) = ContextId(Case(s))
      /\ Case(s).post => r = Case(s).telemetry[1]
  BY <1>2, EnvelopeSound DEF IngestStep
<1>4. /\ DriverInv'
      /\ driver'[s] = [driver[s] EXCEPT !.step = @ + 1]
      /\ \A o \in Sessions \ {s} : driver'[o] = driver[o]
  BY IngestEffect
<1>5. rows' = rows
  BY IngestEffect
<1>6. /\ SourceAccepts(r) /\ r.body # Oversized
      /\ \/ Matching(s, Identity(r)) = {} /\ Outcome(s, r) = "accepted"
         \/ Verified(s, r) /\ Outcome(s, r) # "accepted"
  BY IngestEffect
<1>8. /\ pending' = [o \in Sessions |-> pending'[o]]
      /\ \A o \in Sessions \ {s} : pending'[o] = pending[o]
      /\ \/ pending'[s] = pending[s] /\ Verified(s, r)
         \/ pending'[s] = pending[s] \union {Row(r, Case(s).received)}
  BY IngestEffect
<1>9. \E x \in rows' \union pending'[s] : x.record = r
  BY IngestEffect
<1> HIDE DEF r
<1>7. UniqueInv' /\ LineageInv'
  <2>1. CASE Outcome(s, r) = "accepted"
    <3>1. /\ Matching(s, Identity(r)) = {} /\ ~HeldByAnother(s, Identity(r))
          /\ pending' = [pending EXCEPT ![s] = @ \cup {Row(r, Case(s).received)}]
      BY <1>2, <1>6, <2>1 DEF Ingest, MustWait
    <3> QED BY <1>3, <1>5, <3>1, InsertKeeps DEF PendingInv
  <2>2. CASE Outcome(s, r) # "accepted"
    <3>1. UNCHANGED storeVars
      BY <1>2, <1>5, <2>2 DEF Ingest, storeVars
    <3> QED BY <3>1, StoreFrame
  <2> QED BY <2>1, <2>2
<1>10. PendingOf(s)'
  <2>1. /\ Case(s)' = Case(s) /\ Steps(s)' = Steps(s) /\ Running(s)' /\ Running(s)
        /\ driver'[s].step = driver[s].step + 1 /\ driver[s].step \in Nat
    BY <1>1, <1>4 DEF Case, Steps, Running, At, DriverInv, Drivers
  <2>2. \/ Steps(s) = <<kind>> /\ driver[s].step = 1
        \/ /\ Steps(s) = <<"context", "finding">>
           /\ \/ kind = "context" /\ driver[s].step = 1
              \/ kind = "finding" /\ driver[s].step = 2
        \/ /\ Steps(s) = Answer /\ Case(s).post
           /\ \/ kind = "telemetry" /\ driver[s].step = 1
              \/ kind = "respond" /\ driver[s].step = 2
    BY <1>1, AtStep
  <2>3. driver'[s].step # 1 /\ driver[s].step # 0
    BY <2>1, <2>2
  <2>4. ASSUME At(s, "finding")'
        PROVE  \A x \in pending'[s] : Identity(x.record) = ContextId(Case(s))
    <3>1. Steps(s) = <<"context", "finding">> /\ kind = "context" /\ driver[s].step = 1
      BY <2>1, <2>2, <2>4 DEF At, AtCommit, Answer
    <3>2. pending[s] = {}
      BY <3>1 DEF PendingInv, PendingOf
    <3>3. Identity(r) = ContextId(Case(s))
      BY <1>1, <1>3, <3>1
    <3> QED BY <1>8, <3>2, <3>3 DEF Row
  <2>5. ASSUME At(s, "respond")'
        PROVE  r = Case(s).telemetry[1]
    <3>1. Case(s).post
      BY <2>1, <2>2, <2>5 DEF At, AtCommit
    <3> QED BY <1>3, <3>1
  <2>6. ContextId(Case(s))' = ContextId(Case(s))
    BY <2>1 DEF ContextId
  <2>7. At(s, "respond")' => Verified(s, Case(s).telemetry[1])'
    BY <2>1, <2>5, <1>9 DEF Verified, Visible
  <2> QED BY <2>1, <2>3, <2>4, <2>6, <2>7 DEF PendingOf
<1>11. \A o \in Sessions \ {s} : PendingOf(o)'
  BY <1>4, <1>5, <1>8, PendingFrame DEF PendingInv
<1>12. PendingInv'
  BY <1>8, <1>10, <1>11 DEF PendingInv
<1>13. DuplicateReceiptIsStored'
  BY <1>2, <1>5, ReceiptsKeep
<1> QED BY <1>4, <1>7, <1>12, <1>13

LEMMA RefuseKeeps ==
  ASSUME EvidenceInv, NEW s \in Sessions, Refuse(s)
  PROVE  EvidenceInv'
<1> USE DEF EvidenceInv
<1>1. /\ Running(s) /\ RollbackRows(s) /\ EndDriver(s, "failed") /\ UNCHANGED receipts
  BY DEF Refuse, AtIngest, At
<1>2. /\ DriverInv' /\ ~Running(s)'
      /\ \A o \in Sessions \ {s} : driver'[o] = driver[o]
  BY <1>1, EndDriverKeeps
<1>3. UniqueInv' /\ LineageInv'
  BY <1>1, RollbackKeeps DEF PendingInv
<1>4. PendingInv'
  BY <1>1, <1>2, PendingKeeps DEF RollbackRows
<1>5. DuplicateReceiptIsStored'
  BY <1>1, ReceiptsKeep DEF RollbackRows
<1> QED BY <1>2, <1>3, <1>4, <1>5

LEMMA CrashKeeps ==
  ASSUME EvidenceInv, NEW s \in Sessions, Crash(s)
  PROVE  EvidenceInv'
<1> USE DEF EvidenceInv
<1>1. /\ RollbackRows(s) /\ driver' = [driver EXCEPT ![s] = Idle] /\ UNCHANGED receipts
  BY DEF Crash
<1>2. Idle \in Drivers /\ Idle.phase # "running"
  BY IdleDriver
<1>3. /\ DriverInv' /\ driver'[s] = Idle
      /\ \A o \in Sessions \ {s} : driver'[o] = driver[o]
  BY <1>1, <1>2, OneDriver
<1>4. UniqueInv' /\ LineageInv'
  BY <1>1, RollbackKeeps DEF PendingInv
<1>5. ~Running(s)'
  BY <1>2, <1>3 DEF Running
<1>6. PendingInv'
  BY <1>1, <1>3, <1>5, PendingKeeps DEF RollbackRows
<1>7. DuplicateReceiptIsStored'
  BY <1>1, ReceiptsKeep DEF RollbackRows
<1> QED BY <1>3, <1>4, <1>6, <1>7

LEMMA CommitStepKeeps ==
  ASSUME EvidenceInv, NEW s \in Sessions, Commit(s)
  PROVE  EvidenceInv'
<1> USE DEF EvidenceInv
<1>1. Running(s) /\ CommitRows(s) /\ NextTransaction(s) /\ UNCHANGED receipts
  BY DEF Commit
<1>2. /\ DriverInv'
      /\ ~Running(s)' \/ driver'[s].step = 1
      /\ \A o \in Sessions \ {s} : driver'[o] = driver[o]
  BY <1>1, NextTransactionKeeps
<1>3. UniqueInv' /\ LineageInv'
  BY <1>1, CommitKeeps DEF PendingInv
<1>4. rows \subseteq rows' /\ pending' = [pending EXCEPT ![s] = {}]
  BY <1>1 DEF CommitRows
<1>5. PendingInv'
  BY <1>2, <1>4, PendingKeeps
<1>6. DuplicateReceiptIsStored'
  BY <1>1, <1>4, ReceiptsKeep
<1> QED BY <1>2, <1>3, <1>5, <1>6

(* The receipt says duplicate_existing when the transaction has inserted    *)
(* nothing, and so the record it sees is a committed one.                   *)
LEMMA RespondKeeps ==
  ASSUME EvidenceInv, NEW s \in Sessions, Respond(s)
  PROVE  EvidenceInv'
<1> USE DEF EvidenceInv
<1>1. At(s, "respond") /\ NextStep(s) /\ UNCHANGED storeVars
  BY DEF Respond
<1>2. /\ DriverInv'
      /\ driver'[s] = [driver[s] EXCEPT !.step = @ + 1]
      /\ \A o \in Sessions \ {s} : driver'[o] = driver[o]
  BY <1>1, NextStepKeeps
<1>3. UniqueInv' /\ LineageInv'
  BY <1>1, StoreFrame
<1>4. rows' = rows /\ pending' = pending
  BY <1>1 DEF storeVars
<1>5. PendingOf(s)'
  <2>1. Steps(s) = Answer /\ driver[s].step = 2
    BY <1>1, AtStep
  <2>2. Steps(s)' = Steps(s) /\ driver'[s].step = 3 /\ Running(s)'
    BY <1>1, <1>2, <2>1 DEF Steps, Case, Running, At, DriverInv, Drivers
  <2>3. AtCommit(s)'
    BY <2>1, <2>2 DEF AtCommit, Answer
  <2> QED BY <2>2, <2>3 DEF PendingOf, At
<1>6. \A o \in Sessions \ {s} : PendingOf(o)'
  BY <1>2, <1>4, PendingFrame DEF PendingInv
<1>7. PendingInv'
  BY <1>4, <1>5, <1>6 DEF PendingInv
<1>8. DuplicateReceiptIsStored'
  <2>1. Verified(s, Case(s).telemetry[1])
    BY <1>1 DEF PendingInv, PendingOf
  <2>2. pending[s] = {} => \E x \in rows : x.record = Case(s).telemetry[1]
    BY <2>1 DEF Verified, Visible
  <2>3. receipts' = receipts \cup
       {[record |-> Case(s).telemetry[1],
         status |-> IF pending[s] = {} THEN "duplicate_existing" ELSE "accepted"]}
    BY DEF Respond
  <2> QED BY <2>2, <2>3, <1>4 DEF DuplicateReceiptIsStored
<1> QED BY <1>2, <1>3, <1>7, <1>8

(* Stages that end a transaction without evidence, and the start of a case. *)
LEMMA QuietKeeps ==
  ASSUME EvidenceInv, NEW s \in Sessions, DriverInv', UNCHANGED storeVars,
         UNCHANGED receipts, pending[s] = {},
         ~Running(s)' \/ driver'[s].step = 1,
         \A o \in Sessions \ {s} : driver'[o] = driver[o]
  PROVE  EvidenceInv'
<1> USE DEF EvidenceInv
<1>1. UniqueInv' /\ LineageInv'
  BY StoreFrame
<1>2. rows' = rows /\ pending' = pending
  BY DEF storeVars
<1>3. pending' = [pending EXCEPT ![s] = {}]
  BY <1>2 DEF PendingInv
<1>4. PendingInv'
  BY <1>2, <1>3, PendingKeeps
<1>5. DuplicateReceiptIsStored'
  BY <1>2, ReceiptsKeep
<1> QED BY <1>1, <1>4, <1>5

LEMMA StagesKeep ==
  ASSUME EvidenceInv, NEW s \in Sessions, Qualify(s) \/ Link(s) \/ Activate(s)
  PROVE  EvidenceInv'
<1>1. PICK what \in {"qualify", "link", "activate"} : At(s, what)
  BY DEF Qualify, Link, Activate
<1>2. /\ UNCHANGED storeVars /\ UNCHANGED receipts
      /\ NextTransaction(s) \/ EndDriver(s, "failed")
  BY DEF Qualify, Link, Activate
<1>3. Running(s) /\ DriverInv
  BY <1>1 DEF At, EvidenceInv
<1>4. driver[s].step = 1
  BY <1>1, <1>3, AtStep
<1>5. pending[s] = {}
  BY <1>4 DEF EvidenceInv, PendingInv, PendingOf
<1>6. /\ DriverInv'
      /\ ~Running(s)' \/ driver'[s].step = 1
      /\ \A o \in Sessions \ {s} : driver'[o] = driver[o]
  BY <1>2, <1>3, NextTransactionKeeps, EndDriverKeeps
<1> QED BY <1>2, <1>5, <1>6, QuietKeeps

LEMMA StartKeeps ==
  ASSUME EvidenceInv, NEW s \in Sessions, NEW c \in Cases(s), Start(s, c)
  PROVE  EvidenceInv'
<1> DEFINE d == [Idle EXCEPT !.phase = "running", !.case = c]
<1>1. /\ ~Running(s) /\ UNCHANGED storeVars /\ UNCHANGED receipts
      /\ driver' = [driver EXCEPT ![s] = d]
  BY DEF Start
<1>2. /\ d \in Drivers /\ d.case = c /\ d.transaction = 1 /\ d.step = 1
  BY DEF Drivers, Idle, AnyCase
<1>3. WellFormedCase(c)
  BY CasesAssumption
<1>4. 1 \in 1..Len(Plan(c))
  <2>1. Len(Plan(c)) \in Nat \ {0}
    BY <1>3, PlanShape
  <2> QED BY <2>1
<1>5. Len(Plan(c)[1]) \in Nat
  BY <1>3, <1>4, FirstStep
<1>6. /\ d.case \in Cases(s) /\ d.transaction \in 1..Len(Plan(d.case))
      /\ d.step \in 1..Len(Plan(d.case)[d.transaction]) + 1
  BY <1>2, <1>4, <1>5
<1> HIDE DEF d
<1>7. /\ DriverInv' /\ driver'[s] = d
      /\ \A o \in Sessions \ {s} : driver'[o] = driver[o]
  BY <1>1, <1>2, <1>6, OneDriver DEF EvidenceInv
<1>8. pending[s] = {}
  BY <1>1 DEF EvidenceInv, PendingInv, PendingOf
<1> QED BY <1>1, <1>2, <1>7, <1>8, QuietKeeps

(* Readers and stuttering leave the store and its writers alone.            *)
LEMMA ReadersKeep ==
  ASSUME EvidenceInv, UNCHANGED <<storeVars, pipeVars>>
  PROVE  EvidenceInv'
<1> USE DEF EvidenceInv
<1>1. rows' = rows /\ pending' = pending /\ driver' = driver /\ receipts' = receipts
  BY DEF storeVars, pipeVars
<1>2. UniqueInv' /\ LineageInv'
  BY StoreFrame
<1>3. DriverInv'
  BY <1>1 DEF DriverInv, Running, Case, Steps
<1>4. \A o \in Sessions : PendingOf(o)'
  BY <1>1, PendingFrame DEF PendingInv
<1>5. PendingInv'
  BY <1>1, <1>4 DEF PendingInv
<1>6. DuplicateReceiptIsStored'
  BY <1>1, ReceiptsKeep
<1> QED BY <1>2, <1>3, <1>5, <1>6

-----------------------------------------------------------------------------
LEMMA InitEstablishes == Init => EvidenceInv
<1> SUFFICES ASSUME Init PROVE EvidenceInv
  OBVIOUS
<1>1. /\ rows = {} /\ pending = [s \in Sessions |-> {}] /\ receipts = {}
      /\ driver = [s \in Sessions |-> Idle]
  BY DEF Init, StoreInit
<1>2. Idle \in Drivers /\ Idle.phase # "running"
  BY IdleDriver
<1>3. \A s \in Sessions : ~Running(s) /\ pending[s] = {}
  BY <1>1, <1>2 DEF Running
<1>4. DriverInv
  BY <1>1, <1>2, <1>3 DEF DriverInv
<1>5. UniqueInv /\ LineageInv
  BY <1>1, <1>3 DEF UniqueInv, LineageInv
<1>6. PendingInv
  BY <1>1, <1>3 DEF PendingInv, PendingOf, At
<1> QED BY <1>1, <1>4, <1>5, <1>6 DEF EvidenceInv, DuplicateReceiptIsStored

LEMMA NextKeeps == EvidenceInv /\ [Next]_vars => EvidenceInv'
<1> SUFFICES ASSUME EvidenceInv, [Next]_vars PROVE EvidenceInv'
  OBVIOUS
<1>1. ASSUME NEW s \in Sessions, Work(s) PROVE EvidenceInv'
  BY <1>1, IngestKeeps, RefuseKeeps, RespondKeeps, CommitStepKeeps, StagesKeep DEF Work
<1>2. ASSUME NEW s \in Sessions, Crash(s) PROVE EvidenceInv'
  BY <1>2, CrashKeeps
<1>3. ASSUME NEW s \in Sessions, NEW c \in Cases(s), Start(s, c) PROVE EvidenceInv'
  BY <1>3, StartKeeps
<1>4. ASSUME NEW list \in Lists, NEW scope \in Scopes, NEW run, OpenList(list, scope, run)
      PROVE  EvidenceInv'
  BY <1>4, ReadersKeep DEF OpenList
<1>5. CASE ReadNextPage
  BY <1>5, ReadersKeep DEF ReadNextPage
<1>6. CASE UNCHANGED vars
  BY <1>6, ReadersKeep DEF vars
<1> QED BY <1>1, <1>2, <1>3, <1>4, <1>5, <1>6 DEF Next

(* The inductive invariant.                                                 *)
THEOREM EvidenceInvariant == Spec => []EvidenceInv
BY InitEstablishes, NextKeeps, PTL DEF Spec

(* A receipt that says duplicate_existing is true of the committed table,   *)
(* whoever else ingests, crashes or retries (create_evidence).              *)
THEOREM DuplicateReceiptTheorem == Spec => []DuplicateReceiptIsStored
<1>1. EvidenceInv => DuplicateReceiptIsStored
  BY DEF EvidenceInv
<1> QED BY <1>1, EvidenceInvariant, PTL

(* Only the finding of a policy chain is inserted by a transaction that     *)
(* holds a row, its context; whoever holds the finding has seen that        *)
(* context, so nobody else can hold it: no cycle, and no chain, of waits.   *)
LEMMA HoldersDoNotWait == EvidenceInv => WaitsAreShort
<1> SUFFICES ASSUME EvidenceInv, NEW s \in Sessions, Waiting(s), NEW o \in Sessions \ {s},
                    pending[o] # {}
             PROVE  Running(o) /\ ~Waiting(o)
  BY DEF WaitsAreShort
<1> USE DEF EvidenceInv
<1>1. Running(o) /\ driver[o].step # 1
  BY DEF PendingInv, PendingOf
<1>2. SUFFICES ASSUME Waiting(o) PROVE FALSE
  BY <1>1
<1>3. PICK kind \in Kinds : At(o, kind)
  BY <1>2 DEF Waiting, AtIngest
<1>4. At(o, "finding")
  BY <1>1, <1>3, AtStep DEF Kinds
<1>5. AtIngest(o) /\ CanDerive(o) /\ HeldByAnother(o, Identity(Envelope(o)))
  BY <1>2 DEF Waiting, MustWait
<1>6. Identity(Envelope(o)) = FindingId(Case(o))
  BY <1>4, <1>5, EnvelopeSound
<1>7. PICK y \in pending[o] : Identity(y.record) = ContextId(Case(o))
  BY <1>4 DEF PendingInv, PendingOf
<1>8. PICK h \in Sessions \ {o} : \E x \in pending[h] : Identity(x.record) = FindingId(Case(o))
  BY <1>5, <1>6 DEF HeldByAnother
<1>9. PICK x \in pending[h] : Identity(x.record) = FindingId(Case(o))
  BY <1>8
<1>10. Shaped(x.record) /\ \A p \in x.record.refs : Verified(h, p)
  BY <1>9 DEF LineageInv
<1>11. PICK p \in x.record.refs : Identity(p) = ContextId(Case(o))
  BY <1>9, <1>10 DEF Shaped, Identity, FindingId, ContextId
<1>12. PICK z \in rows \union pending[h] : z.record = p
  BY <1>10, <1>11 DEF Verified, Visible
<1>13. Identity(z.record) = Identity(y.record)
  BY <1>7, <1>11, <1>12
<1> QED BY <1>7, <1>8, <1>12, <1>13 DEF UniqueInv

(* Neither a deadlock nor a dead process can hold a case up: whoever waits  *)
(* for an identity waits for a live transaction that does not wait itself.  *)
THEOREM WaitsTheorem == Spec => []WaitsAreShort
BY HoldersDoNotWait, EvidenceInvariant, PTL

-----------------------------------------------------------------------------
LEMMA RowsGrow == [Next]_vars => rows \subseteq rows'
<1> SUFFICES ASSUME [Next]_vars PROVE rows \subseteq rows'
  OBVIOUS
<1>1. ASSUME NEW s \in Sessions, Work(s) \/ Crash(s) PROVE rows \subseteq rows'
  BY <1>1 DEF Work, IngestStep, Ingest, Refuse, RollbackRows, Respond, Commit, CommitRows,
              Qualify, Link, Activate, Crash, storeVars
<1>2. ASSUME NEW s \in Sessions, NEW c \in Cases(s), Start(s, c) PROVE rows \subseteq rows'
  BY <1>2 DEF Start, storeVars
<1>3. ASSUME NEW list, NEW scope, NEW run, OpenList(list, scope, run)
      PROVE  rows \subseteq rows'
  BY <1>3 DEF OpenList, storeVars
<1>4. CASE ReadNextPage
  BY <1>4 DEF ReadNextPage, storeVars
<1>5. CASE UNCHANGED vars
  BY <1>5 DEF vars, storeVars
<1> QED BY <1>1, <1>2, <1>3, <1>4, <1>5 DEF Next

(* The evidence table implements EvidenceLog: committed evidence is never   *)
(* altered or removed, one identity never gets two contents, and no record  *)
(* is there before its parents.                                             *)
THEOREM LogTheorem == Spec => ImplementsLog
<1> DEFINE L == {x.record : x \in rows}
<1>1. Init => Log!Init
  BY DEF Init, StoreInit, Log!Init
<1>2. ASSUME EvidenceInv', [Next]_vars
      PROVE  [Log!Append]_L
  <2>1. L \subseteq L'
    BY <1>2, RowsGrow
  <2>2. Log!UniqueIdentities(L')
    BY <1>2 DEF EvidenceInv, UniqueInv, Log!UniqueIdentities, Log!Identity, Identity
  <2>3. Log!LineageClosed(L')
    BY <1>2 DEF EvidenceInv, LineageInv, Log!LineageClosed
  <2> QED BY <2>1, <2>2, <2>3 DEF Log!Append
<1>3. EvidenceInv' /\ [Next]_vars => [Log!Append]_L
  BY <1>2
<1> QED BY <1>1, <1>3, EvidenceInvariant, PTL DEF Spec, ImplementsLog, Log!Spec

=============================================================================
