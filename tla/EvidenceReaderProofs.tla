------------------------ MODULE EvidenceReaderProofs ------------------------
(***************************************************************************)
(* Proofs about what is read from the evidence store while the pipelines   *)
(* run: first the pages of the lists, then what every record was made of,  *)
(* and with it the rerun of a case and the replays of an incident.         *)
(***************************************************************************)
EXTENDS EvidenceProofs, FiniteSetTheorems, WellFoundedInduction

\* What a step of a plan leaves for its session to see.  A correlation is
\* found under the id that the stored parents give it.
Obtained(s, k, what) ==
  /\ what = "raw" => Verified(s, RawRecord(Case(s)))
  /\ what = "semantic" => Matching(s, SemanticId(Case(s))) # {}
  /\ what = "context" => Matching(s, ContextId(Case(s))) # {}
  /\ what = "finding" => Matching(s, FindingId(Case(s))) # {}
  /\ what = "telemetry" => Verified(s, Case(s).telemetry[k - Skipped(Case(s))])
  /\ what = "correlation" =>
       /\ \A t \in TelemetryOf(Case(s)) : Matching(s, Identity(t)) # {}
       /\ \A id \in CyberIds(Case(s)) : Matching(s, id) # {}
       /\ Matching(s, Identity(CorrelationRecord(s))) # {}

Passed(s, k, j) ==
  k < driver[s].transaction \/ (k = driver[s].transaction /\ j < driver[s].step)

\* Every step that a running case has behind it has left its record.
ProgressOf(s) ==
  Running(s) =>
    \A k \in 1..Len(Plan(Case(s))) : \A j \in 1..Len(Plan(Case(s))[k]) :
      Passed(s, k, j) => Obtained(s, k, Plan(Case(s))[k][j])
ProgressInv == \A s \in Sessions : ProgressOf(s)

\* Every record has a time and an id that some case gives it, and telemetry
\* is the telemetry of some case.
Sound(r) ==
  /\ r.observed \in Nat
  /\ Identity(r) \in AllIds
  /\ r.kind = "telemetry" => r \in AllTelemetry
RecordInv ==
  /\ IsFiniteSet(rows) /\ \A x \in rows : Sound(x.record)
  /\ \A s \in Sessions : IsFiniteSet(pending[s]) /\ \A x \in pending[s] : Sound(x.record)

\* There is one incident of an id; its members are committed evidence, and it
\* is listed at the time of the latest.
IncidentOk(i) ==
  /\ i.id \in AllIds
  /\ IsFiniteSet(i.members)
  /\ \A m \in i.members : \E x \in rows : x.record = m
  /\ i.time = Latest({m.observed : m \in i.members}, 0)
IncidentsInv ==
  /\ IsFiniteSet(incidents)
  /\ \A i, j \in incidents : i.id = j.id => i = j
  /\ \A i \in incidents : IncidentOk(i)

Items == [id : AllIds, time : Nat]

\* An item that was there when the walk began need not come any more once the
\* active run has been replaced or the incident has moved to a later time.
Gone(w, x) ==
  \/ w.scope = "CURRENT" /\ w.version # context.version
  \/ w.list = "incidents" /\ \E z \in AllItems("incidents") : z.id = x.id /\ z.time > x.time

UpTo(x, cursor, descending) ==
  cursor # None /\ (x = cursor \/ Earlier(x, cursor, descending))

\* A reader on its way: all that was shown lies before the cursor and is still
\* there, incidents perhaps at a later time; all that was there at the first
\* page is still to come, or was shown, or is gone.
OpenWalk(w) ==
  /\ w = [phase |-> "open", list |-> w.list, scope |-> w.scope, run |-> w.run,
          version |-> w.version, start |-> w.start, cursor |-> w.cursor, shown |-> w.shown,
          again |-> FALSE]
  /\ w.list \in Lists /\ w.cursor \in Items \union {None}
  /\ w.version \in Nat /\ w.version <= context.version
  /\ w.shown \subseteq Items
  /\ \A y \in w.shown :
       /\ UpTo(y, w.cursor, Descending(w))
       /\ w.list = "evidence" => y \in AllItems("evidence")
       /\ w.list = "incidents" =>
            \E z \in AllItems("incidents") : z.id = y.id /\ z.time >= y.time
  /\ w.start \subseteq Items
  /\ \A x \in w.start :
       ~Gone(w, x) =>
         x \in Listed(w) /\ (UpTo(x, w.cursor, Descending(w)) => x \in w.shown)
WalkInv ==
  /\ context.version \in Nat
  /\ walk.phase \in {"open", "ended"}
  /\ WalkIsExact
  /\ walk.phase = "open" => OpenWalk(walk)

ReaderInv == ProgressInv /\ RecordInv /\ IncidentsInv /\ WalkInv

-----------------------------------------------------------------------------
(* Where in its plan a case has each of its transactions.                   *)
Ruled(c) == IF c.rule = None THEN 0 ELSE 1

LEMMA PlanOrder ==
  ASSUME NEW c, WellFormedCase(c), ~c.post
  PROVE  /\ c.event # None =>
              /\ Len(Plan(c)) >= 3 /\ Plan(c)[1] = <<"raw">> /\ Plan(c)[2] = <<"semantic">>
              /\ Plan(c)[3] = <<"context", "finding">>
         /\ \A i \in DOMAIN c.telemetry :
              /\ Skipped(c) + i \in 1..Len(Plan(c))
              /\ Plan(c)[Skipped(c) + i] = <<"telemetry">>
         /\ c.rule # None =>
              /\ Skipped(c) + Len(c.telemetry) + 1 \in 1..Len(Plan(c))
              /\ Plan(c)[Skipped(c) + Len(c.telemetry) + 1] = <<"correlation">>
         /\ \A k \in 1..Len(Plan(c)) :
              /\ Plan(c)[k] = <<"raw">> => c.event # None /\ k = 1
              /\ Plan(c)[k] = <<"semantic">> => c.event # None /\ k = 2
              /\ Plan(c)[k] = <<"context", "finding">> => c.event # None /\ k = 3
              /\ Plan(c)[k] = <<"correlation">> =>
                   c.rule # None /\ k = Skipped(c) + Len(c.telemetry) + 1
              /\ Plan(c)[k] = <<"qualify">> => c.incident # None
              /\ Plan(c)[k] \in {<<"qualify">>, <<"link">>, <<"activate">>} =>
                   k > Skipped(c) + Len(c.telemetry) + Ruled(c)
<1> DEFINE a == IF c.event = None THEN <<>> ELSE PolicyChain
           b == [i \in 1..Len(c.telemetry) |-> <<"telemetry">>]
           d == IF c.rule = None THEN <<>> ELSE <<<<"correlation">>>>
           e == IF c.incident = None THEN <<>> ELSE <<<<"qualify">>>>
           f == IF c.run = None THEN <<>> ELSE <<<<"link">>, <<"activate">>>>
           N == Len(c.telemetry)
           Late == {<<"qualify">>, <<"link">>, <<"activate">>}
<1>1. N \in Nat /\ DOMAIN c.telemetry = 1..N
  BY DEF WellFormedCase
<1>2. Plan(c) = (((a \o b) \o d) \o e) \o f
  BY DEF Plan
<1>0. /\ <<"raw">> \in Transactions /\ <<"semantic">> \in Transactions
      /\ <<"context", "finding">> \in Transactions /\ <<"telemetry">> \in Transactions
      /\ <<"correlation">> \in Transactions /\ <<"qualify">> \in Transactions
      /\ <<"link">> \in Transactions /\ <<"activate">> \in Transactions
  BY DEF Transactions
<1>3. /\ a \in Seq(Transactions) /\ Len(a) = Skipped(c)
      /\ c.event # None => a[1] = <<"raw">> /\ a[2] = <<"semantic">> /\ a[3] = <<"context", "finding">>
      /\ Skipped(c) \in {0, 3} /\ (c.event = None <=> Skipped(c) = 0)
  <2>1. CASE c.event = None
    BY <2>1 DEF Skipped
  <2>2. CASE c.event # None
    BY <2>2, <1>0 DEF Skipped, PolicyChain
  <2> QED BY <2>1, <2>2
<1>4. /\ b \in Seq(Transactions) /\ Len(b) = N /\ \A i \in 1..N : b[i] = <<"telemetry">>
  BY <1>1, <1>0
<1>5. /\ d \in Seq(Transactions) /\ Len(d) = Ruled(c)
      /\ \A i \in 1..Len(d) : d[i] = <<"correlation">>
      /\ Ruled(c) \in {0, 1} /\ (c.rule = None <=> Ruled(c) = 0)
  <2>1. CASE c.rule = None
    BY <2>1 DEF Ruled
  <2>2. CASE c.rule # None
    BY <2>2, <1>0 DEF Ruled
  <2> QED BY <2>1, <2>2
<1>6. /\ e \in Seq(Transactions) /\ \A i \in 1..Len(e) : c.incident # None /\ e[i] = <<"qualify">>
  <2>1. CASE c.incident = None
    BY <2>1
  <2>2. CASE c.incident # None
    BY <2>2, <1>0
  <2> QED BY <2>1, <2>2
<1>7. /\ f \in Seq(Transactions) /\ \A i \in 1..Len(f) : f[i] \in {<<"link">>, <<"activate">>}
  <2>1. CASE c.run = None
    BY <2>1
  <2>2. CASE c.run # None
    BY <2>2, <1>0
  <2> QED BY <2>1, <2>2
<1> HIDE DEF a, b, d, e, f, N
<1> DEFINE ab == a \o b
           abd == ab \o d
           abde == abd \o e
           p == abde \o f
<1>8. /\ ab \in Seq(Transactions) /\ Len(ab) = Len(a) + Len(b)
      /\ \A i \in 1..Len(a) + Len(b) : ab[i] = IF i <= Len(a) THEN a[i] ELSE b[i - Len(a)]
  BY <1>3, <1>4, ConcatProperties
<1>9. /\ abd \in Seq(Transactions) /\ Len(abd) = Len(ab) + Len(d)
      /\ \A i \in 1..Len(ab) + Len(d) : abd[i] = IF i <= Len(ab) THEN ab[i] ELSE d[i - Len(ab)]
  BY <1>5, <1>8, ConcatProperties
<1>10. /\ abde \in Seq(Transactions) /\ Len(abde) = Len(abd) + Len(e)
       /\ \A i \in 1..Len(abd) + Len(e) : abde[i] = IF i <= Len(abd) THEN abd[i] ELSE e[i - Len(abd)]
  BY <1>6, <1>9, ConcatProperties
<1>11. /\ p \in Seq(Transactions) /\ Len(p) = Len(abde) + Len(f)
       /\ \A i \in 1..Len(abde) + Len(f) : p[i] = IF i <= Len(abde) THEN abde[i] ELSE f[i - Len(abde)]
  BY <1>7, <1>10, ConcatProperties
<1>12. Plan(c) = p
  BY <1>2
<1> HIDE DEF ab, abd, abde, p
<1>13. /\ Len(a) \in Nat /\ Len(b) \in Nat /\ Len(d) \in Nat /\ Len(e) \in Nat /\ Len(f) \in Nat
  BY <1>3, <1>4, <1>5, <1>6, <1>7
<1>14. Len(p) = Len(a) + Len(b) + Len(d) + Len(e) + Len(f)
  BY <1>8, <1>9, <1>10, <1>11, <1>13
<1>15. \A k \in 1..Len(a) : p[k] = a[k]
  BY <1>8, <1>9, <1>10, <1>11, <1>13
<1>16. \A i \in 1..Len(b) : Len(a) + i \in 1..Len(p) /\ p[Len(a) + i] = <<"telemetry">>
  <2> SUFFICES ASSUME NEW i \in 1..Len(b)
               PROVE  Len(a) + i \in 1..Len(p) /\ p[Len(a) + i] = <<"telemetry">>
    OBVIOUS
  <2>1. Len(a) + i \in 1..Len(a) + Len(b) /\ ~(Len(a) + i <= Len(a)) /\ (Len(a) + i) - Len(a) = i
    BY <1>13
  <2>2. ab[Len(a) + i] = b[i]
    BY <2>1, <1>8
  <2>3. p[Len(a) + i] = ab[Len(a) + i]
    BY <2>1, <1>8, <1>9, <1>10, <1>11, <1>13
  <2> QED BY <2>1, <2>2, <2>3, <1>4, <1>13, <1>14
<1>17. \A i \in 1..Len(d) :
         Len(a) + Len(b) + i \in 1..Len(p) /\ p[Len(a) + Len(b) + i] = <<"correlation">>
  <2> SUFFICES ASSUME NEW i \in 1..Len(d)
               PROVE  /\ Len(a) + Len(b) + i \in 1..Len(p)
                      /\ p[Len(a) + Len(b) + i] = <<"correlation">>
    OBVIOUS
  <2> DEFINE k == Len(a) + Len(b) + i
  <2>1. k \in 1..Len(ab) + Len(d) /\ ~(k <= Len(ab)) /\ k - Len(ab) = i
    BY <1>8, <1>13
  <2>2. abd[k] = d[i]
    BY <2>1, <1>9
  <2>3. p[k] = abd[k]
    BY <2>1, <1>9, <1>10, <1>11, <1>13
  <2> QED BY <2>1, <2>2, <2>3, <1>5, <1>13, <1>14
<1>18. ASSUME NEW k \in 1..Len(p), k > Len(a) + Len(b) + Len(d)
       PROVE  p[k] \in Late /\ (p[k] = <<"qualify">> => c.incident # None)
  <2>1. k > Len(abd)
    BY <1>18, <1>8, <1>9
  <2>2. CASE k <= Len(abde)
    <3>1. k - Len(abd) \in 1..Len(e) /\ k \in 1..Len(abd) + Len(e) /\ ~(k <= Len(abd))
      BY <1>18, <2>1, <2>2, <1>8, <1>9, <1>10, <1>13
    <3>2. p[k] = e[k - Len(abd)]
      BY <1>18, <3>1, <2>2, <1>10, <1>11
    <3> QED BY <3>1, <3>2, <1>6
  <2>3. CASE ~(k <= Len(abde))
    <3>1. k - Len(abde) \in 1..Len(f)
      BY <1>18, <2>3, <1>8, <1>9, <1>10, <1>11, <1>13
    <3>2. p[k] = f[k - Len(abde)]
      BY <1>18, <2>3, <1>11
    <3> QED BY <3>1, <3>2, <1>7
  <2> QED BY <2>2, <2>3
<1>19. ASSUME NEW k \in 1..Len(p)
       PROVE  /\ p[k] = <<"raw">> => c.event # None /\ k = 1
              /\ p[k] = <<"semantic">> => c.event # None /\ k = 2
              /\ p[k] = <<"context", "finding">> => c.event # None /\ k = 3
              /\ p[k] = <<"correlation">> => c.rule # None /\ k = Skipped(c) + N + 1
              /\ p[k] = <<"qualify">> => c.incident # None
              /\ p[k] \in Late => k > Skipped(c) + N + Ruled(c)
  <2>1. CASE k <= Len(a)
    <3>1. p[k] = a[k] /\ c.event # None /\ k \in {1, 2, 3}
      BY <2>1, <1>3, <1>15, <1>19
    <3> QED BY <3>1, <1>3
  <2>2. CASE k > Len(a) /\ k <= Len(a) + Len(b)
    <3>1. k - Len(a) \in 1..Len(b) /\ Len(a) + (k - Len(a)) = k
      BY <2>2, <1>13
    <3>2. p[k] = <<"telemetry">>
      BY <3>1, <1>16
    <3> QED BY <3>2
  <2>3. CASE k > Len(a) + Len(b) /\ k <= Len(a) + Len(b) + Len(d)
    <3>1. k = Len(a) + Len(b) + 1 /\ c.rule # None /\ 1 \in 1..Len(d)
      BY <2>3, <1>5, <1>13
    <3>2. p[k] = <<"correlation">>
      BY <3>1, <1>17
    <3> QED BY <3>1, <3>2, <1>3, <1>4
  <2>4. CASE k > Len(a) + Len(b) + Len(d)
    BY <2>4, <1>18, <1>3, <1>4, <1>5
  <2> QED BY <2>1, <2>2, <2>3, <2>4, <1>13
<1>20. c.event # None =>
         /\ Len(p) >= 3 /\ p[1] = <<"raw">> /\ p[2] = <<"semantic">> /\ p[3] = <<"context", "finding">>
  <2> SUFFICES ASSUME c.event # None
               PROVE  /\ Len(p) >= 3 /\ p[1] = <<"raw">> /\ p[2] = <<"semantic">>
                      /\ p[3] = <<"context", "finding">>
    OBVIOUS
  <2>1. Len(a) = 3 /\ 1 \in 1..Len(a) /\ 2 \in 1..Len(a) /\ 3 \in 1..Len(a)
    BY <1>3
  <2>2. Len(p) >= 3
    BY <2>1, <1>13, <1>14
  <2>3. p[1] = a[1] /\ p[2] = a[2] /\ p[3] = a[3]
    BY <2>1, <1>15
  <2> QED BY <2>2, <2>3, <1>3
<1>21. \A i \in DOMAIN c.telemetry : Skipped(c) + i \in 1..Len(p) /\ p[Skipped(c) + i] = <<"telemetry">>
  BY <1>1, <1>3, <1>4, <1>16
<1>22. c.rule # None => Skipped(c) + N + 1 \in 1..Len(p) /\ p[Skipped(c) + N + 1] = <<"correlation">>
  <2>1. c.rule # None => 1 \in 1..Len(d)
    BY <1>5
  <2> QED BY <2>1, <1>3, <1>4, <1>17
<1> QED BY <1>12, <1>19, <1>20, <1>21, <1>22 DEF N

-----------------------------------------------------------------------------
(* Finite sets have the extremes that a page and an incident are named by.  *)
LEMMA FiniteImage ==
  ASSUME NEW S, IsFiniteSet(S), NEW f
  PROVE  IsFiniteSet({f[x] : x \in S})
<1> DEFINE T == {f[x] : x \in S}
           g == [x \in S |-> f[x]]
<1>1. g \in Surjection(S, T)
  BY DEF Surjection
<1> QED BY <1>1, FS_Surjection

LEMMA FiniteMaximal ==
  ASSUME NEW S, IsFiniteSet(S), S # {}, NEW R,
         \A x \in S : <<x, x>> \notin R,
         \A x, y, z \in S : <<x, y>> \in R /\ <<y, z>> \in R => <<x, z>> \in R
  PROVE  \E x \in S : \A y \in S : <<x, y>> \notin R
<1> DEFINE Above(x) == {y \in S : <<x, y>> \in R}
           T == {Cardinality(Above(x)) : x \in S}
<1>1. \A x \in S : IsFiniteSet(Above(x)) /\ Cardinality(Above(x)) \in Nat
  <2>1. \A x \in S : Above(x) \in SUBSET S
    OBVIOUS
  <2>2. \A x \in S : IsFiniteSet(Above(x))
    BY <2>1, FS_Subset
  <2> QED BY <2>2, FS_CardinalityType
<1>2. T \subseteq Nat /\ T # {}
  <2> HIDE DEF Above
  <2> QED BY <1>1
<1>3. PICK n \in T : \A m \in T : ~ (<<m, n>> \in OpToRel(<, Nat))
  BY <1>2, WFMin, NatLessThanWellFounded
<1>4. \A m \in T : ~(m < n)
  BY <1>2, <1>3 DEF OpToRel
<1>5. PICK x \in S : n = Cardinality(Above(x))
  BY <1>3
<1>6. ASSUME NEW y \in S, <<x, y>> \in R PROVE FALSE
  <2>1. Above(y) \in SUBSET Above(x) /\ y \in Above(x) /\ y \notin Above(y)
    BY <1>6
  <2>2. /\ Cardinality(Above(y)) <= Cardinality(Above(x))
        /\ Cardinality(Above(x)) # Cardinality(Above(y))
    <3> HIDE DEF Above
    <3> QED BY <2>1, <1>1, FS_Subset
  <2>3. Cardinality(Above(y)) \in T /\ Cardinality(Above(y)) < n
    <3> HIDE DEF Above
    <3> QED BY <2>2, <1>1, <1>5, <1>6
  <2> QED BY <2>3, <1>4
<1> QED BY <1>6

LEMMA LatestIsMaximum ==
  ASSUME NEW S, S \subseteq Nat, IsFiniteSet(S), NEW default \in Nat
  PROVE  /\ Latest(S, default) \in Nat
         /\ S = {} => Latest(S, default) = default
         /\ S # {} => Latest(S, default) \in S /\ \A u \in S : u <= Latest(S, default)
<1>1. CASE S = {}
  BY <1>1 DEF Latest
<1>2. CASE S # {}
  <2> DEFINE R == {p \in S \X S : p[1] < p[2]}
  <2>1. /\ \A x \in S : <<x, x>> \notin R
        /\ \A x, y, z \in S : <<x, y>> \in R /\ <<y, z>> \in R => <<x, z>> \in R
    OBVIOUS
  <2>2. PICK t \in S : \A u \in S : <<t, u>> \notin R
    <3> HIDE DEF R
    <3> QED BY <1>2, <2>1, FiniteMaximal
  <2>3. \A u \in S : u <= t
    <3>1. \A u \in S : ~(t < u)
      BY <2>2
    <3> HIDE DEF R
    <3> QED BY <3>1
  <2> QED BY <1>2, <2>3 DEF Latest
<1> QED BY <1>1, <1>2

-----------------------------------------------------------------------------
(* Items sort, and a page is the beginning of what lies after the cursor.   *)
LEMMA ItemOrder ==
  ASSUME NEW d \in BOOLEAN, NEW a \in Items, NEW b \in Items, NEW c \in Items
  PROVE  /\ ~Earlier(a, a, d)
         /\ Earlier(a, b, d) /\ Earlier(b, c, d) => Earlier(a, c, d)
         /\ a = b \/ Earlier(a, b, d) \/ Earlier(b, a, d)
<1>1. /\ a.id \in AllIds /\ a.time \in Nat /\ b.id \in AllIds /\ b.time \in Nat
      /\ c.id \in AllIds /\ c.time \in Nat
      /\ a.id = b.id /\ a.time = b.time => a = b
  BY DEF Items
<1>2. /\ UuidOrder(a.id) \in Int /\ UuidOrder(b.id) \in Int /\ UuidOrder(c.id) \in Int
      /\ UuidOrder(a.id) = UuidOrder(b.id) => a.id = b.id
  BY <1>1, UuidAssumption
<1> QED BY <1>1, <1>2 DEF Earlier

LEMMA PageIsPrefix ==
  ASSUME NEW items, items \subseteq Items, IsFiniteSet(items), NEW d \in BOOLEAN,
         First(items, Limit, d) # items
  PROVE  LET page == First(items, Limit, d)
             cursor == NextCursor(items, page, d)
         IN  /\ cursor \in page
             /\ page = {x \in items : UpTo(x, cursor, d)}
<1> DEFINE page == First(items, Limit, d)
           cursor == NextCursor(items, page, d)
           Below(x) == {y \in items : Earlier(y, x, d)}
<1>1. \A x \in items : IsFiniteSet(Below(x)) /\ Cardinality(Below(x)) \in Nat
  <2>1. \A x \in items : Below(x) \in SUBSET items
    OBVIOUS
  <2>2. \A x \in items : IsFiniteSet(Below(x))
    BY <2>1, FS_Subset
  <2> QED BY <2>2, FS_CardinalityType
<1>2. page \subseteq items /\ \A x \in items : x \in page <=> Cardinality(Below(x)) < Limit
  BY DEF First
<1>3. ASSUME NEW x \in items, NEW y \in items, Earlier(y, x, d), x \in page
      PROVE  y \in page
  <2>1. Below(y) \in SUBSET Below(x)
    BY <1>3, ItemOrder
  <2>2. Cardinality(Below(y)) <= Cardinality(Below(x))
    <3> HIDE DEF Below
    <3> QED BY <2>1, <1>1, FS_Subset
  <2>3. Cardinality(Below(x)) < Limit
    BY <1>2, <1>3
  <2>4. Cardinality(Below(y)) < Limit
    <3> HIDE DEF Below
    <3> QED BY <1>1, <1>3, <2>2, <2>3, LimitAssumption
  <2> QED BY <1>2, <1>3, <2>4
<1>4. page # {}
  <2> DEFINE R == {p \in items \X items : Earlier(p[2], p[1], d)}
  <2>1. items # {}
    BY <1>2
  <2>2. /\ \A x \in items : <<x, x>> \notin R
        /\ \A x, y, z \in items : <<x, y>> \in R /\ <<y, z>> \in R => <<x, z>> \in R
    BY ItemOrder
  <2>3. PICK x \in items : \A y \in items : <<x, y>> \notin R
    <3> HIDE DEF R
    <3> QED BY <2>1, <2>2, FiniteMaximal
  <2>4. Below(x) = {}
    BY <2>3
  <2>5. Cardinality(Below(x)) = 0
    BY <2>4, FS_EmptySet
  <2> QED BY <2>5, <1>2, LimitAssumption
<1>5. \E x \in page : \A y \in page \ {x} : Earlier(y, x, d)
  <2> DEFINE R == {p \in page \X page : Earlier(p[1], p[2], d)}
  <2>1. IsFiniteSet(page)
    BY <1>2, FS_Subset
  <2>2. page \subseteq Items
    BY <1>2
  <2> HIDE DEF page
  <2>3. /\ \A x \in page : <<x, x>> \notin R
        /\ \A x, y, z \in page : <<x, y>> \in R /\ <<y, z>> \in R => <<x, z>> \in R
    BY <2>2, ItemOrder
  <2>4. PICK x \in page : \A y \in page : <<x, y>> \notin R
    <3> HIDE DEF R
    <3> QED BY <1>4, <2>1, <2>3, FiniteMaximal
  <2>5. \A y \in page : ~Earlier(x, y, d)
    BY <2>4
  <2> QED BY <2>2, <2>4, <2>5, ItemOrder
<1>6. cursor \in page /\ \A y \in page \ {cursor} : Earlier(y, cursor, d)
  BY <1>5 DEF NextCursor
<1> HIDE DEF page, cursor, Below
<1>7. cursor # None
  BY <1>2, <1>6, CursorAssumption DEF Items
<1>8. page = {x \in items : UpTo(x, cursor, d)}
  BY <1>2, <1>3, <1>6, <1>7 DEF UpTo
<1> QED BY <1>6, <1>8 DEF page, cursor

(* The time of an incident.                                                 *)
LEMMA IncidentTimes ==
  ASSUME RecordInv, NEW M, IsFiniteSet(M), \A m \in M : \E x \in rows : x.record = m
  PROVE  /\ Latest({m.observed : m \in M}, 0) \in Nat
         /\ \A m \in M : m.observed \in Nat /\ m.observed <= Latest({n.observed : n \in M}, 0)
         /\ M = {} => Latest({m.observed : m \in M}, 0) = 0
         /\ M # {} => \E m \in M : Latest({n.observed : n \in M}, 0) = m.observed
<1> DEFINE T == {m.observed : m \in M}
           f == [m \in M |-> m.observed]
<1>1. \A m \in M : m.observed \in Nat
  BY DEF RecordInv, Sound
<1>2. T = {f[m] : m \in M}
  OBVIOUS
<1>3. IsFiniteSet(T)
  <2> HIDE DEF f, T
  <2> QED BY <1>2, FiniteImage
<1>4. T \subseteq Nat /\ (M = {} <=> T = {}) /\ \A m \in M : m.observed \in T
  BY <1>1
<1>5. /\ Latest(T, 0) \in Nat
      /\ T = {} => Latest(T, 0) = 0
      /\ T # {} => Latest(T, 0) \in T /\ \A u \in T : u <= Latest(T, 0)
  <2> HIDE DEF T
  <2> QED BY <1>3, <1>4, LatestIsMaximum
<1> QED BY <1>1, <1>4, <1>5

(* What is listed: finitely many items, each under an id of its own.        *)
LEMMA ListedItems ==
  ASSUME UniqueInv, RecordInv, IncidentsInv, NEW list \in Lists
  PROVE  /\ AllItems(list) \subseteq Items
         /\ IsFiniteSet(AllItems(list))
         /\ \A x, y \in AllItems(list) : x.id = y.id => x = y
<1>1. CASE list = "evidence"
  <2> DEFINE f == [x \in rows |-> EvidenceItem(x)]
  <2>1. AllItems(list) = {f[x] : x \in rows}
    BY <1>1 DEF AllItems
  <2>2. IsFiniteSet(AllItems(list))
    <3>1. IsFiniteSet(rows)
      BY DEF RecordInv
    <3> HIDE DEF f
    <3> QED BY <2>1, <3>1, FiniteImage
  <2>3. \A x \in rows : EvidenceItem(x) \in Items /\ EvidenceItem(x).id = Identity(x.record)
    BY DEF RecordInv, Sound, EvidenceItem, Items
  <2>4. AllItems(list) = {EvidenceItem(x) : x \in rows}
    BY <1>1 DEF AllItems
  <2> QED BY <2>2, <2>3, <2>4 DEF UniqueInv
<1>2. CASE list = "incidents"
  <2> DEFINE f == [i \in incidents |-> [id |-> i.id, time |-> i.time]]
  <2>1. AllItems(list) = {f[i] : i \in incidents}
    BY <1>2 DEF AllItems
  <2>2. IsFiniteSet(AllItems(list))
    <3>1. IsFiniteSet(incidents)
      BY DEF IncidentsInv
    <3> HIDE DEF f
    <3> QED BY <2>1, <3>1, FiniteImage
  <2>3. ASSUME NEW i \in incidents PROVE i.time \in Nat /\ i.id \in AllIds
    BY <2>3, IncidentTimes DEF IncidentsInv, IncidentOk
  <2>4. AllItems(list) = {[id |-> i.id, time |-> i.time] : i \in incidents}
    BY <1>2 DEF AllItems
  <2> QED BY <2>2, <2>3, <2>4 DEF IncidentsInv, Items
<1> QED BY <1>1, <1>2 DEF Lists

(* A page of a walk keeps what the walk owes its reader, and the last one   *)
(* leaves nothing owed.                                                     *)
LEMMA PageKeeps ==
  ASSUME UniqueInv, RecordInv, IncidentsInv, NEW w, OpenWalk(w)
  PROVE  /\ PageOf(w).phase \in {"open", "ended"}
         /\ PageOf(w).phase = "ended" => ~PageOf(w).again /\ PageOf(w).missed = {}
         /\ PageOf(w).phase = "open" => OpenWalk(PageOf(w))
<1> DEFINE d == Descending(w)
           items == After(Listed(w), w.cursor, d)
           page == First(items, Limit, d)
           cursor == NextCursor(items, page, d)
           shown == w.shown \cup page
           again == w.again \/ \E x \in page, y \in w.shown : x.id = y.id
           expected == IF w.scope = "CURRENT" /\ w.version # context.version THEN {}
                       ELSE w.start \cap Listed(w)
<1>1. d \in BOOLEAN /\ w.list \in Lists /\ (d <=> w.list = "incidents")
      /\ (w.list = "evidence" <=> ~d)
  BY DEF OpenWalk, Descending, Lists
<1>2. /\ AllItems(w.list) \subseteq Items /\ IsFiniteSet(AllItems(w.list))
      /\ \A x, y \in AllItems(w.list) : x.id = y.id => x = y
  BY <1>1, ListedItems
<1>3. Listed(w) \subseteq AllItems(w.list)
  BY DEF Listed
<1>4. /\ items \subseteq Listed(w)
      /\ \A x \in Listed(w) : x \in items <=> ~UpTo(x, w.cursor, d)
  <2>1. CASE w.cursor = None
    BY <2>1 DEF After, UpTo
  <2>2. CASE w.cursor # None
    <3>1. w.cursor \in Items
      BY <2>2 DEF OpenWalk
    <3> QED BY <1>1, <1>2, <1>3, <2>2, <3>1, ItemOrder DEF After, UpTo
  <2> QED BY <2>1, <2>2
<1>5. items \subseteq Items /\ IsFiniteSet(items)
  BY <1>2, <1>3, <1>4, FS_Subset
<1>6. page \subseteq items
  BY DEF First
<1>7. PageOf(w) = IF cursor = None THEN Ended(again, expected \ shown)
                  ELSE [w EXCEPT !.cursor = cursor, !.shown = shown, !.again = again]
  BY DEF PageOf
<1>8. ~again
  <2>1. ~w.again
    BY DEF OpenWalk
  <2>2. ASSUME NEW x \in page, NEW y \in w.shown, x.id = y.id PROVE FALSE
    <3>1. x \in Listed(w) /\ x \in AllItems(w.list) /\ x \in Items /\ ~UpTo(x, w.cursor, d)
      BY <1>2, <1>3, <1>4, <1>6
    <3>2. y \in Items /\ UpTo(y, w.cursor, d)
      BY DEF OpenWalk
    <3>3. x # y
      BY <3>1, <3>2
    <3>4. w.list = "incidents"
      <4>1. w.list = "evidence" => y \in AllItems(w.list)
        BY DEF OpenWalk
      <4> QED BY <1>1, <1>2, <2>2, <3>1, <3>3, <4>1 DEF Lists
    <3>5. d /\ x.time >= y.time
      <4>1. PICK z \in AllItems(w.list) : z.id = y.id /\ z.time >= y.time
        BY <3>4 DEF OpenWalk
      <4> QED BY <1>1, <1>2, <2>2, <3>1, <3>4, <4>1
    <3>6. w.cursor # None /\ w.cursor \in Items
      BY <3>2 DEF UpTo, OpenWalk
    <3>7. Earlier(w.cursor, x, d)
      BY <1>1, <3>1, <3>6, ItemOrder DEF UpTo
    <3>8. y = w.cursor \/ Earlier(y, w.cursor, d)
      BY <3>2 DEF UpTo
    <3>9. Earlier(y, x, d)
      BY <1>1, <3>1, <3>2, <3>6, <3>7, <3>8, ItemOrder
    <3>10. /\ x.time \in Nat /\ y.time \in Nat
           /\ x.time = y.time => UuidOrder(x.id) = UuidOrder(y.id) /\ UuidOrder(x.id) \in Int
      BY <2>2, <3>1, <3>2, UuidAssumption DEF Items
    <3> QED BY <3>5, <3>9, <3>10 DEF Earlier
  <2> QED BY <2>1, <2>2
<1>9. \A x \in w.start : ~Gone(w, x) =>
        x \in Listed(w) /\ (UpTo(x, w.cursor, d) => x \in w.shown)
  BY DEF OpenWalk
<1>10. CASE page = items
  <2>1. PageOf(w) = Ended(again, expected \ shown)
    BY <1>7, <1>10 DEF NextCursor
  <2>2. ASSUME NEW x \in expected PROVE x \in shown
    <3>1. x \in w.start /\ x \in Listed(w) /\ ~(w.scope = "CURRENT" /\ w.version # context.version)
      BY <2>2
    <3>2. ~Gone(w, x)
      <4>1. x \in AllItems(w.list) /\ x.time \in Nat
        BY <3>1, <1>2, <1>3 DEF Items
      <4> QED BY <3>1, <4>1, <1>2 DEF Gone
    <3> QED BY <1>4, <1>9, <1>10, <3>1, <3>2
  <2>3. expected \ shown = {}
    BY <2>2
  <2> HIDE DEF page, cursor, shown, again, expected, items
  <2> QED BY <2>1, <2>3, <1>8 DEF Ended
<1>11. CASE page # items
  <2> DEFINE v == [w EXCEPT !.cursor = cursor, !.shown = shown, !.again = again]
  <2>1. cursor \in page /\ page = {x \in items : UpTo(x, cursor, d)}
    BY <1>1, <1>5, <1>11, PageIsPrefix
  <2>2. cursor \in items /\ cursor \in Items /\ cursor # None
    BY <2>1, <1>5, <1>6, CursorAssumption DEF Items
  <2>3. PageOf(w) = v
    BY <1>7, <2>2
  <2>4. /\ w = [phase |-> "open", list |-> w.list, scope |-> w.scope, run |-> w.run,
                version |-> w.version, start |-> w.start, cursor |-> w.cursor,
                shown |-> w.shown, again |-> FALSE]
        /\ again = FALSE
    BY <1>8 DEF OpenWalk
  <2> HIDE DEF page, cursor, shown, again, expected, items
  <2>5. v = [phase |-> "open", list |-> w.list, scope |-> w.scope, run |-> w.run,
             version |-> w.version, start |-> w.start, cursor |-> cursor, shown |-> shown,
             again |-> FALSE]
    <3> DEFINE u == [phase |-> "open", list |-> w.list, scope |-> w.scope, run |-> w.run,
                     version |-> w.version, start |-> w.start, cursor |-> w.cursor,
                     shown |-> w.shown, again |-> FALSE]
    <3>1. v = [u EXCEPT !.cursor = cursor, !.shown = shown, !.again = again]
      BY <2>4, Zenon
    <3>2. v = [u EXCEPT !.cursor = cursor, !.shown = shown, !.again = FALSE]
      BY <2>4, <3>1, Zenon
    <3> HIDE DEF v
    <3> QED BY <3>2
  <2>6. /\ v.phase = "open" /\ v.list = w.list /\ v.scope = w.scope /\ v.run = w.run
        /\ v.version = w.version /\ v.start = w.start /\ v.cursor = cursor /\ v.shown = shown
        /\ v.again = FALSE
    BY <2>5
  <2> HIDE DEF v
  <2>7. /\ Listed(v) = Listed(w) /\ Descending(v) = d /\ \A x : Gone(v, x) <=> Gone(w, x)
    BY <2>6 DEF Listed, Descending, Gone
  <2>8. ASSUME NEW x \in Items, UpTo(x, w.cursor, d) PROVE UpTo(x, cursor, d)
    <3>1. w.cursor # None /\ w.cursor \in Items
      BY <2>8 DEF UpTo, OpenWalk
    <3>2. Earlier(w.cursor, cursor, d)
      BY <1>1, <1>3, <1>2, <1>4, <2>2, <3>1, ItemOrder DEF UpTo
    <3> QED BY <1>1, <2>2, <2>8, <3>1, <3>2, ItemOrder DEF UpTo
  <2>9. ASSUME NEW y \in shown
        PROVE  /\ UpTo(y, cursor, d) /\ y \in Items
               /\ w.list = "evidence" => y \in AllItems("evidence")
               /\ w.list = "incidents" =>
                    \E z \in AllItems("incidents") : z.id = y.id /\ z.time >= y.time
    <3>1. CASE y \in w.shown
      BY <3>1, <2>8 DEF OpenWalk, d
    <3>2. CASE y \in page
      <4>1. y \in AllItems(w.list) /\ y \in Items /\ y.time \in Nat
        BY <3>2, <1>2, <1>3, <1>4, <1>6 DEF Items
      <4> QED BY <2>1, <3>2, <4>1
    <3> QED BY <2>9, <3>1, <3>2 DEF shown
  <2>10. ASSUME NEW x \in w.start, ~Gone(w, x)
         PROVE  x \in Listed(w) /\ (UpTo(x, cursor, d) => x \in shown)
    BY <1>9, <1>4, <2>1, <2>10 DEF shown
  <2>11. /\ w.version \in Nat /\ w.version <= context.version /\ w.start \subseteq Items
    BY DEF OpenWalk
  <2>12. OpenWalk(v)
    BY <1>1, <2>2, <2>5, <2>6, <2>7, <2>9, <2>10, <2>11 DEF OpenWalk
  <2> QED BY <2>3, <2>6, <2>12
<1> QED BY <1>10, <1>11

-----------------------------------------------------------------------------
(* What a walk is owed survives the writers: rows and links only grow, an   *)
(* incident only moves to a later time, and a replaced context does not     *)
(* come back.                                                               *)
LEMMA WalkFrame ==
  ASSUME WalkInv, UNCHANGED walk, rows \subseteq rows', links \subseteq links',
         context' = context \/ context'.version = context.version + 1,
         \A i \in incidents : i.time \in Nat, \A j \in incidents' : j.time \in Nat,
         \A i \in incidents : \E j \in incidents' : j.id = i.id /\ j.time >= i.time
  PROVE  WalkInv'
<1> DEFINE w == walk
<1>1. /\ context.version \in Nat /\ context'.version \in Nat
      /\ context'.version >= context.version
      /\ context' # context => context'.version > context.version
  BY DEF WalkInv
<1>2. walk.phase \in {"open", "ended"} /\ WalkIsExact'
  BY DEF WalkInv, WalkIsExact
<1>3. ASSUME walk.phase = "open" PROVE OpenWalk(walk)'
  <2>1. OpenWalk(w) /\ w' = w
    BY <1>3 DEF WalkInv
  <2> HIDE DEF w
  <2>2. /\ AllItems("evidence") \subseteq AllItems("evidence")'
        /\ \A z \in AllItems("incidents") :
             /\ z.time \in Nat
             /\ \E u \in AllItems("incidents")' : u.id = z.id /\ u.time >= z.time
             /\ z \in AllItems("incidents")' \/
                  \E u \in AllItems("incidents")' : u.id = z.id /\ u.time > z.time
    <3>1. AllItems("evidence") \subseteq AllItems("evidence")'
      BY DEF AllItems
    <3>2. ASSUME NEW z \in AllItems("incidents")
          PROVE  /\ z.time \in Nat
                 /\ \E u \in AllItems("incidents")' : u.id = z.id /\ u.time >= z.time
                 /\ z \in AllItems("incidents")' \/
                      \E u \in AllItems("incidents")' : u.id = z.id /\ u.time > z.time
      <4>1. PICK i \in incidents : z = [id |-> i.id, time |-> i.time]
        BY <3>2 DEF AllItems
      <4>2. PICK j \in incidents' : j.id = i.id /\ j.time >= i.time
        OBVIOUS
      <4> DEFINE u == [id |-> j.id, time |-> j.time]
      <4>3. u \in AllItems("incidents")' /\ u.id = j.id /\ u.time = j.time
        BY DEF AllItems
      <4>4. /\ z.time = i.time /\ z.id = i.id /\ i.time \in Nat /\ j.time \in Nat
        BY <4>1
      <4>5. j.time = i.time => u = z
        BY <4>1, <4>2
      <4> HIDE DEF u
      <4>6. u.id = z.id /\ u.time >= z.time /\ (u = z \/ u.time > z.time)
        BY <4>2, <4>3, <4>4, <4>5
      <4> QED BY <4>3, <4>4, <4>6
    <3> QED BY <3>1, <3>2
  <2>3. w.version \in Nat /\ w.version <= context.version /\ w.version <= context'.version
    BY <1>1, <2>1 DEF OpenWalk
  <2>4. ASSUME NEW x \in w.start, ~Gone(w, x)' PROVE ~Gone(w, x) /\ x \in Listed(w)'
    <3>1. x \in Items /\ x.time \in Nat
      BY <2>1 DEF OpenWalk, Items
    <3>2. ASSUME w.list = "incidents", NEW z \in AllItems("incidents"), z.id = x.id,
                 z.time > x.time
          PROVE  FALSE
      <4>1. PICK u \in AllItems("incidents")' : u.id = z.id /\ u.time >= z.time
        BY <2>2, <3>2
      <4>2. u.time \in Nat
        BY <4>1 DEF AllItems
      <4>3. u.id = x.id /\ u.time > x.time
        BY <2>2, <3>1, <3>2, <4>1, <4>2
      <4> QED BY <2>1, <2>4, <3>2, <4>3 DEF Gone
    <3>3. w.scope = "CURRENT" => w.version = context'.version
      BY <2>1, <2>4 DEF Gone
    <3>4. w.scope = "CURRENT" => w.version = context.version /\ context' = context
      BY <1>1, <2>3, <3>3
    <3>5. ~Gone(w, x)
      BY <3>2, <3>4 DEF Gone
    <3>6. x \in Listed(w)
      BY <2>1, <3>5 DEF OpenWalk
    <3>7. x \in AllItems(w.list)'
      <4>1. x \in AllItems(w.list) /\ w.list \in {"evidence", "incidents"}
        BY <2>1, <3>6 DEF Listed, OpenWalk, Lists
      <4>2. w.list = "incidents" =>
              ~\E u \in AllItems("incidents")' : u.id = x.id /\ u.time > x.time
        BY <2>1, <2>4 DEF Gone
      <4>3. CASE w.list = "evidence"
        BY <2>1, <2>2, <4>1, <4>3
      <4>4. CASE w.list = "incidents"
        <5>1. x \in AllItems("incidents")
          BY <4>1, <4>4
        <5>2. x \in AllItems("incidents")'
          BY <2>2, <4>2, <4>4, <5>1
        <5> QED BY <2>1, <4>4, <5>2
      <4> QED BY <4>1, <4>3, <4>4
    <3> QED BY <2>1, <3>4, <3>5, <3>6, <3>7 DEF Listed
  <2>5. ASSUME NEW x \in w.start, ~Gone(w, x)'
        PROVE  x \in Listed(w)' /\ (UpTo(x, w.cursor, Descending(w)) => x \in w.shown)
    BY <2>1, <2>4, <2>5 DEF OpenWalk
  <2>6. ASSUME NEW y \in w.shown
        PROVE  /\ UpTo(y, w.cursor, Descending(w))
               /\ w.list = "evidence" => y \in AllItems("evidence")'
               /\ w.list = "incidents" =>
                    \E z \in AllItems("incidents")' : z.id = y.id /\ z.time >= y.time
    <3>1. /\ UpTo(y, w.cursor, Descending(w)) /\ y \in Items
          /\ w.list = "evidence" => y \in AllItems("evidence")
          /\ w.list = "incidents" =>
               \E z \in AllItems("incidents") : z.id = y.id /\ z.time >= y.time
      BY <2>1, <2>6 DEF OpenWalk
    <3>2. ASSUME w.list = "incidents"
          PROVE  \E z \in AllItems("incidents")' : z.id = y.id /\ z.time >= y.time
      <4>1. PICK z \in AllItems("incidents") : z.id = y.id /\ z.time >= y.time
        BY <3>1, <3>2
      <4>2. PICK u \in AllItems("incidents")' : u.id = z.id /\ u.time >= z.time
        BY <2>2, <4>1
      <4>3. u.time \in Nat /\ z.time \in Nat /\ y.time \in Nat
        BY <2>2, <3>1, <4>1, <4>2 DEF AllItems, Items
      <4> QED BY <4>1, <4>2, <4>3
    <3> QED BY <2>2, <3>1, <3>2
  <2>7. OpenWalk(w)'
    BY <2>1, <2>3, <2>5, <2>6 DEF OpenWalk, UpTo, Descending, Earlier
  <2> QED BY <2>7 DEF w
<1> QED BY <1>1, <1>2, <1>3 DEF WalkInv

-----------------------------------------------------------------------------
(* What a session has found under an id stays what it finds there.          *)
LEMMA StoredKeeps ==
  ASSUME UniqueInv', NEW o \in Sessions, Visible(o) \subseteq Visible(o)', NEW id,
         Matching(o, id) # {}
  PROVE  /\ Matching(o, id)' # {}
         /\ Stored(o, id)' = Stored(o, id)
         /\ StoredRecord(o, id)' = StoredRecord(o, id)
<1>1. Stored(o, id) \in Matching(o, id)
  BY DEF Stored
<1>2. Stored(o, id) \in Matching(o, id)'
  BY <1>1 DEF Matching
<1>3. \A x, y \in Visible(o)' : Identity(x.record) = Identity(y.record) => x = y
  BY DEF UniqueInv, Visible
<1>4. \A x \in Matching(o, id)' : x = Stored(o, id)
  BY <1>2, <1>3 DEF Matching
<1>5. Stored(o, id)' \in Matching(o, id)'
  BY <1>2 DEF Stored
<1>6. Stored(o, id)' = Stored(o, id)
  BY <1>4, <1>5
<1> QED BY <1>2, <1>6 DEF StoredRecord

LEMMA CorrelationKeeps ==
  ASSUME UniqueInv', NEW o \in Sessions, Visible(o) \subseteq Visible(o)', Case(o)' = Case(o),
         \A t \in TelemetryOf(Case(o)) : Matching(o, Identity(t)) # {},
         \A id \in CyberIds(Case(o)) : Matching(o, id) # {}
  PROVE  CorrelationRecord(o)' = CorrelationRecord(o)
<1> DEFINE c == Case(o)
           samples == {StoredRecord(o, Identity(t)) : t \in TelemetryOf(c)}
           parents == Parents(o, CyberIds(c))
<1>1. samples' = samples
  <2>1. TelemetryOf(c)' = TelemetryOf(c)
    BY DEF TelemetryOf
  <2>2. \A t \in TelemetryOf(c) : StoredRecord(o, Identity(t))' = StoredRecord(o, Identity(t))
    BY StoredKeeps
  <2> QED BY <2>1, <2>2
<1>2. parents' = parents
  <2>1. CyberIds(c)' = CyberIds(c)
    BY DEF CyberIds, RawId, SemanticId, ContextId, FindingId
  <2>2. \A id \in CyberIds(c) : StoredRecord(o, id)' = StoredRecord(o, id)
    BY StoredKeeps
  <2> QED BY <2>1, <2>2 DEF Parents
<1> DEFINE Made(d, S, P) ==
      Record("correlation", "1.0.0",
             <<d.rule, Consistency(S, d.command).scope, {Identity(r) : r \in S \cup P}>>,
             [reason |-> Consistency(S, d.command).reason], S \cup P,
             Consistency(S, d.command).scope, Latest({t.observed : t \in S}, d.command))
<1>3. CorrelationRecord(o) = Made(c, samples, parents)
  BY DEF CorrelationRecord
<1>4. CorrelationRecord(o)' = Made(c', samples', parents')
  BY DEF CorrelationRecord
<1> HIDE DEF Made, samples, parents
<1> QED BY <1>1, <1>2, <1>3, <1>4

LEMMA ObtainedKeeps ==
  ASSUME UniqueInv', NEW o \in Sessions, Visible(o) \subseteq Visible(o)', Case(o)' = Case(o),
         NEW k, NEW what, Obtained(o, k, what)
  PROVE  Obtained(o, k, what)'
<1>1. \A r : Verified(o, r) => Verified(o, r)'
  BY DEF Verified
<1>2. \A id : Matching(o, id) # {} => Matching(o, id)' # {}
  BY DEF Matching
<1>3. /\ RawRecord(Case(o))' = RawRecord(Case(o)) /\ SemanticId(Case(o))' = SemanticId(Case(o))
      /\ ContextId(Case(o))' = ContextId(Case(o)) /\ FindingId(Case(o))' = FindingId(Case(o))
      /\ TelemetryOf(Case(o))' = TelemetryOf(Case(o)) /\ CyberIds(Case(o))' = CyberIds(Case(o))
      /\ Skipped(Case(o))' = Skipped(Case(o))
  BY DEF RawRecord, RawId, SemanticId, ContextId, FindingId, TelemetryOf, CyberIds, Skipped
<1>4. ASSUME what = "correlation"
      PROVE  /\ \A t \in TelemetryOf(Case(o)) : Matching(o, Identity(t))' # {}
             /\ \A id \in CyberIds(Case(o)) : Matching(o, id)' # {}
             /\ Matching(o, Identity(CorrelationRecord(o)))' # {}
  <2>1. /\ \A t \in TelemetryOf(Case(o)) : Matching(o, Identity(t)) # {}
        /\ \A id \in CyberIds(Case(o)) : Matching(o, id) # {}
        /\ Matching(o, Identity(CorrelationRecord(o))) # {}
    BY <1>4 DEF Obtained
  <2>2. CorrelationRecord(o)' = CorrelationRecord(o)
    BY <2>1, CorrelationKeeps
  <2>3. Matching(o, Identity(CorrelationRecord(o)))' # {}
    <3>1. PICK x \in Visible(o) : Identity(x.record) = Identity(CorrelationRecord(o))
      BY <2>1 DEF Matching
    <3> QED BY <3>1, <2>2 DEF Matching
  <2> QED BY <1>2, <2>1, <2>3
<1> QED BY <1>1, <1>2, <1>3, <1>4 DEF Obtained

-----------------------------------------------------------------------------
(* The case and the place in its plan that a step tells.                    *)
LEMMA AtPlace ==
  ASSUME DriverInv, NEW s \in Sessions, NEW what, At(s, what)
  PROVE  LET c == Case(s)
             k == driver[s].transaction
         IN  /\ Running(s) /\ c \in Cases(s) /\ WellFormedCase(c) /\ c \in AllCases
             /\ k \in 1..Len(Plan(c))
             /\ what = "raw" => ~c.post /\ c.event # None /\ k = 1
             /\ what = "semantic" => ~c.post /\ c.event # None /\ k = 2
             /\ what \in {"context", "finding"} => ~c.post /\ c.event # None /\ k = 3
             /\ what = "telemetry" => k - Skipped(c) \in DOMAIN c.telemetry
             /\ what = "correlation" =>
                  ~c.post /\ c.rule # None /\ k = Skipped(c) + Len(c.telemetry) + 1
             /\ what = "qualify" => c.incident # None
             /\ what \in {"qualify", "link", "activate"} =>
                  /\ ~c.post /\ k > Skipped(c) + Len(c.telemetry) + Ruled(c)
                  /\ driver[s].step = 1
<1> DEFINE c == Case(s)
           k == driver[s].transaction
<1>1. Running(s)
  BY DEF At
<1>2. c \in Cases(s) /\ WellFormedCase(c) /\ c \in AllCases /\ k \in 1..Len(Plan(c))
  BY <1>1, StepShape DEF DriverInv, AllCases
<1>3. Steps(s) = Plan(c)[k]
  BY DEF Steps
<1>4. CASE c.post
  <2>1. Plan(c) = <<Answer>>
    BY <1>4 DEF Plan, Answer
  <2>2. k = 1 /\ Steps(s) = Answer
    BY <1>2, <1>3, <2>1
  <2>3. what \in {"telemetry", "respond"}
    BY <2>2, AtStep DEF Answer
  <2>4. Skipped(c) = 0 /\ 1 \in DOMAIN c.telemetry
    BY <1>2, <1>4 DEF Skipped, WellFormedCase
  <2> QED BY <1>1, <1>2, <2>2, <2>3, <2>4
<1>5. CASE ~c.post
  <2>1. Plan(c)[k] # Answer
    <3>1. Plan(c)[k] \in Transactions
      BY <1>2, <1>5, PlanShape
    <3> QED BY <3>1 DEF Transactions, Answer
  <2>2. \/ Plan(c)[k] = <<what>> /\ driver[s].step = 1 /\ what \notin {"context", "finding", "respond"}
        \/ Plan(c)[k] = <<"context", "finding">> /\ what \in {"context", "finding"}
    BY <1>3, <2>1, AtStep
  <2>3. Plan(c)[k] = <<"telemetry">> => k - Skipped(c) \in DOMAIN c.telemetry
    BY <1>2, PlanShape
  <2>4. /\ Plan(c)[k] = <<"raw">> => c.event # None /\ k = 1
        /\ Plan(c)[k] = <<"semantic">> => c.event # None /\ k = 2
        /\ Plan(c)[k] = <<"context", "finding">> => c.event # None /\ k = 3
        /\ Plan(c)[k] = <<"correlation">> =>
             c.rule # None /\ k = Skipped(c) + Len(c.telemetry) + 1
        /\ Plan(c)[k] = <<"qualify">> => c.incident # None
        /\ Plan(c)[k] \in {<<"qualify">>, <<"link">>, <<"activate">>} =>
             k > Skipped(c) + Len(c.telemetry) + Ruled(c)
    BY <1>2, <1>5, PlanOrder
  <2> HIDE DEF c, k
  <2> QED BY <1>1, <1>2, <1>5, <2>2, <2>3, <2>4 DEF c, k
<1> QED BY <1>2, <1>4, <1>5 DEF WellFormedCase

(* What a session sees is sound.                                            *)
LEMMA FoundSound ==
  ASSUME RecordInv, NEW s \in Sessions, NEW id, Matching(s, id) # {}
  PROVE  Sound(StoredRecord(s, id)) /\ Identity(StoredRecord(s, id)) = id
<1>1. Stored(s, id) \in Visible(s) /\ Identity(StoredRecord(s, id)) = id
  BY Found
<1> QED BY <1>1 DEF Visible, RecordInv, StoredRecord

(* The scope and the time that a correlation gets from its samples.         *)
LEMMA CorrelationSound ==
  ASSUME RecordInv, NEW s \in Sessions, WellFormedCase(Case(s)), Case(s) \in AllCases,
         Case(s).rule # None,
         \A t \in TelemetryOf(Case(s)) : Matching(s, Identity(t)) # {},
         \A id \in CyberIds(Case(s)) : Matching(s, id) # {}
  PROVE  Sound(CorrelationRecord(s))
<1> DEFINE c == Case(s)
           samples == {StoredRecord(s, Identity(t)) : t \in TelemetryOf(c)}
           verdict == Consistency(samples, c.command)
           refs == samples \cup Parents(s, CyberIds(c))
           r == CorrelationRecord(s)
<1>1. \A t \in TelemetryOf(c) :
        /\ Sound(StoredRecord(s, Identity(t)))
        /\ Identity(StoredRecord(s, Identity(t))) = Identity(t)
  BY FoundSound
<1>2. \A x \in samples : x \in AllTelemetry /\ x.observed \in Nat
  <2>1. \A t \in TelemetryOf(c) : t.kind = "telemetry"
    BY DEF WellFormedCase
  <2>2. \A t \in TelemetryOf(c) : StoredRecord(s, Identity(t)).kind = "telemetry"
    BY <1>1, <2>1 DEF Identity
  <2> QED BY <1>1, <2>2 DEF Sound
<1>3. IsFiniteSet(samples)
  <2>1. c.telemetry \in Seq(TelemetryOf(c))
    BY DEF WellFormedCase
  <2>2. Len(c.telemetry) \in Nat /\ DOMAIN c.telemetry = 1..Len(c.telemetry)
    BY <2>1
  <2> DEFINE f == [i \in 1..Len(c.telemetry) |-> StoredRecord(s, Identity(c.telemetry[i]))]
  <2>3. samples = {f[i] : i \in 1..Len(c.telemetry)}
    BY <2>2 DEF TelemetryOf
  <2>4. IsFiniteSet(1..Len(c.telemetry))
    BY <2>2, FS_Interval
  <2> HIDE DEF f, samples
  <2> QED BY <2>3, <2>4, FiniteImage
<1>4. {Identity(x) : x \in refs} = {Identity(t) : t \in TelemetryOf(c)} \cup CyberIds(c)
  <2>1. \A id \in CyberIds(c) : Identity(StoredRecord(s, id)) = id
    BY FoundSound
  <2>2. {Identity(x) : x \in samples} = {Identity(t) : t \in TelemetryOf(c)}
    BY <1>1
  <2>3. {Identity(x) : x \in Parents(s, CyberIds(c))} = CyberIds(c)
    BY <2>1 DEF Parents
  <2> HIDE DEF samples
  <2> QED BY <2>2, <2>3
<1>5. verdict.scope \in AllScopes
  <2> HIDE DEF samples
  <2> DEFINE runs == {t.scope[1] : t \in samples}
             configurations == {t.scope[2] : t \in samples}
  <2>1. CASE samples = {}
    BY <2>1 DEF Consistency, AllScopes
  <2>2. CASE samples # {} /\ Cardinality(runs) > 1
    BY <2>2 DEF Consistency, AllScopes
  <2>3. CASE samples # {} /\ ~(Cardinality(runs) > 1) /\ Cardinality(runs) = 1
             /\ Cardinality(configurations) > 1
    <3>1. verdict.scope = <<CHOOSE u \in runs : TRUE, None>>
      BY <2>3 DEF Consistency
    <3>2. (CHOOSE u \in runs : TRUE) \in runs
      BY <2>3
    <3>3. PICK t \in samples : (CHOOSE u \in runs : TRUE) = t.scope[1]
      BY <3>2
    <3> QED BY <1>2, <3>1, <3>3 DEF AllScopes
  <2>4. CASE samples # {} /\ ~(Cardinality(runs) > 1)
             /\ ~(Cardinality(runs) = 1 /\ Cardinality(configurations) > 1)
    <3>1. verdict.scope = (CHOOSE t \in samples : TRUE).scope
      BY <2>4 DEF Consistency
    <3>2. (CHOOSE t \in samples : TRUE) \in samples
      BY <2>4
    <3> QED BY <1>2, <3>1, <3>2 DEF AllScopes
  <2> QED BY <2>1, <2>2, <2>3, <2>4
<1>6. r.observed \in Nat
  <2> DEFINE times == {t.observed : t \in samples}
             f == [t \in samples |-> t.observed]
  <2>1. times = {f[t] : t \in samples}
    OBVIOUS
  <2>2. times \subseteq Nat
    BY <1>2
  <2>3. IsFiniteSet(times)
    <3> HIDE DEF f, times, samples
    <3> QED BY <1>3, <2>1, FiniteImage
  <2>4. c.command \in Nat
    BY DEF WellFormedCase
  <2>5. Latest(times, c.command) \in Nat
    <3> HIDE DEF times
    <3> QED BY <2>2, <2>3, <2>4, LatestIsMaximum
  <2>6. r.observed = Latest(times, c.command)
    BY DEF CorrelationRecord, Record
  <2> QED BY <2>5, <2>6
<1>7. /\ r.kind = "correlation" /\ r.version = "1.0.0"
      /\ r.key = <<c.rule, verdict.scope, {Identity(x) : x \in refs}>>
  BY DEF CorrelationRecord, Record
<1> HIDE DEF refs, verdict, samples, r
<1>8. Identity(r) = CorrelationId(c, verdict.scope)
  BY <1>4, <1>7 DEF Identity, CorrelationId
<1>9. Identity(r) \in IdsOf(c)
  BY <1>5, <1>8 DEF IdsOf
<1> QED BY <1>6, <1>7, <1>9 DEF Sound, AllIds, r

(* The record of each step: what it is or what it is found under.           *)
LEMMA EnvelopeIs ==
  ASSUME DriverInv, RecordInv, NEW s \in Sessions, NEW kind \in Kinds, At(s, kind), CanDerive(s)
  PROVE  LET c == Case(s)
             r == Envelope(s)
         IN  /\ Sound(r)
             /\ kind = "raw" => r = RawRecord(c)
             /\ kind = "semantic" => r = SemanticRecord(s) /\ Identity(r) = SemanticId(c)
             /\ kind = "context" => r = ContextRecord(s) /\ Identity(r) = ContextId(c)
             /\ kind = "finding" => r = FindingRecord(s) /\ Identity(r) = FindingId(c)
             /\ kind = "telemetry" => r = c.telemetry[driver[s].transaction - Skipped(c)]
             /\ kind = "correlation" =>
                  /\ r = CorrelationRecord(s)
                  /\ \A t \in TelemetryOf(c) : Matching(s, Identity(t)) # {}
                  /\ \A id \in CyberIds(c) : Matching(s, id) # {}
<1> DEFINE c == Case(s)
           k == driver[s].transaction
<1>1. /\ WellFormedCase(c) /\ c \in AllCases
      /\ kind \in {"raw", "semantic", "context", "finding"} => c.event # None
      /\ kind = "telemetry" => k - Skipped(c) \in DOMAIN c.telemetry
      /\ kind = "correlation" => c.rule # None
  BY AtPlace
<1>2. ASSUME NEW j, At(s, j) PROVE j = kind
  BY <1>2 DEF At
<1>3. c.event # None =>
        RawId(c) \in AllIds /\ SemanticId(c) \in AllIds /\ ContextId(c) \in AllIds /\ FindingId(c) \in AllIds
  BY <1>1 DEF AllIds, IdsOf, CyberIds
<1>4. CASE kind = "raw"
  <2>1. Envelope(s) = RawRecord(c)
    BY <1>4, <1>2 DEF Envelope
  <2>2. /\ RawRecord(c).observed = c.command /\ RawRecord(c).kind = "raw"
        /\ Identity(RawRecord(c)) = RawId(c)
    BY DEF RawRecord, Record, Identity, RawId
  <2>3. c.command \in Nat
    BY <1>1 DEF WellFormedCase
  <2> QED BY <1>1, <1>3, <1>4, <2>1, <2>2, <2>3 DEF Sound
<1>5. CASE kind = "semantic"
  <2>1. Envelope(s) = SemanticRecord(s) /\ Matching(s, RawId(c)) # {}
    BY <1>5, <1>2 DEF Envelope, CanDerive, ParentVerified
  <2>2. Sound(StoredRecord(s, RawId(c)))
    BY <2>1, FoundSound
  <2>3. /\ SemanticRecord(s).observed = StoredRecord(s, RawId(c)).observed
        /\ SemanticRecord(s).kind = "semantic" /\ Identity(SemanticRecord(s)) = SemanticId(c)
    BY DEF SemanticRecord, Record, Identity, SemanticId, StoredRecord
  <2> QED BY <1>1, <1>3, <1>5, <2>1, <2>2, <2>3 DEF Sound
<1>6. CASE kind = "context"
  <2>1. Envelope(s) = ContextRecord(s) /\ Matching(s, SemanticId(c)) # {}
    BY <1>6, <1>2 DEF Envelope, CanDerive, ParentVerified
  <2>2. Sound(StoredRecord(s, SemanticId(c)))
    BY <2>1, FoundSound
  <2>3. /\ ContextRecord(s).observed = StoredRecord(s, SemanticId(c)).observed
        /\ ContextRecord(s).kind = "context" /\ Identity(ContextRecord(s)) = ContextId(c)
    BY DEF ContextRecord, Record, Identity, ContextId
  <2> QED BY <1>1, <1>3, <1>6, <2>1, <2>2, <2>3 DEF Sound
<1>7. CASE kind = "finding"
  <2>1. Envelope(s) = FindingRecord(s) /\ Matching(s, SemanticId(c)) # {}
    BY <1>7, <1>2 DEF Envelope, CanDerive, ParentVerified
  <2>2. Sound(StoredRecord(s, SemanticId(c)))
    BY <2>1, FoundSound
  <2>3. /\ FindingRecord(s).observed = StoredRecord(s, SemanticId(c)).observed
        /\ FindingRecord(s).kind = "finding" /\ Identity(FindingRecord(s)) = FindingId(c)
    BY DEF FindingRecord, Record, Identity, FindingId
  <2> QED BY <1>1, <1>3, <1>7, <2>1, <2>2, <2>3 DEF Sound
<1>8. CASE kind = "telemetry"
  <2>1. Envelope(s) = IF c.post THEN c.telemetry[1] ELSE SampleOf(s)
    BY <1>8, <1>2 DEF Envelope
  <2>2. Envelope(s) = c.telemetry[k - Skipped(c)]
    <3>1. CASE c.post
      <4>1. /\ Plan(c) = <<Answer>> /\ Skipped(c) = 0
        BY <1>1, <3>1 DEF Plan, Answer, Skipped, WellFormedCase
      <4>2. k \in 1..Len(Plan(c))
        BY AtPlace
      <4>3. k = 1
        BY <4>1, <4>2
      <4> QED BY <2>1, <3>1, <4>1, <4>3
    <3>2. CASE ~c.post
      BY <2>1, <3>2 DEF SampleOf, Skipped
    <3> QED BY <3>1, <3>2
  <2>3. Envelope(s) \in TelemetryOf(c)
    BY <1>1, <1>8, <2>2 DEF TelemetryOf
  <2>4. Envelope(s).observed \in Nat
    BY <1>1, <2>3 DEF WellFormedCase
  <2>5. Envelope(s) \in AllTelemetry /\ Identity(Envelope(s)) \in AllIds
    BY <1>1, <2>3 DEF AllTelemetry, AllIds, IdsOf
  <2> QED BY <1>8, <2>2, <2>4, <2>5 DEF Sound
<1>9. CASE kind = "correlation"
  <2>1. /\ Envelope(s) = CorrelationRecord(s)
        /\ \A t \in TelemetryOf(c) : Matching(s, Identity(t)) # {}
        /\ CyberAccepted(s)
    BY <1>9, <1>2 DEF Envelope, CanDerive
  <2>2. \A id \in CyberIds(c) : Matching(s, id) # {}
    BY <2>1 DEF CyberAccepted, CyberIds, ParentVerified
  <2>3. Sound(CorrelationRecord(s))
    BY <1>1, <1>9, <2>1, <2>2, CorrelationSound
  <2> QED BY <1>9, <2>1, <2>2, <2>3
<1> QED BY <1>4, <1>5, <1>6, <1>7, <1>8, <1>9 DEF Kinds

-----------------------------------------------------------------------------
(* What the moves of a session leave of the progress of the cases.          *)
LEMMA ProgressFrame ==
  ASSUME UniqueInv', NEW o \in Sessions, ProgressOf(o), driver'[o] = driver[o],
         Visible(o) \subseteq Visible(o)'
  PROVE  ProgressOf(o)'
<1>1. Case(o)' = Case(o) /\ (Running(o)' <=> Running(o))
  BY DEF Case, Running
<1>2. ASSUME NEW k, NEW j, Passed(o, k, j)' PROVE Passed(o, k, j)
  BY <1>2 DEF Passed
<1> SUFFICES ASSUME Running(o)', NEW k \in 1..Len(Plan(Case(o))),
                    NEW j \in 1..Len(Plan(Case(o))[k]), Passed(o, k, j)'
             PROVE  Obtained(o, k, Plan(Case(o))[k][j])'
  BY <1>1 DEF ProgressOf
<1>3. PICK what : what = Plan(Case(o))[k][j]
  OBVIOUS
<1>4. Obtained(o, k, what)
  BY <1>1, <1>2, <1>3 DEF ProgressOf
<1>5. Obtained(o, k, what)'
  BY <1>1, <1>4, ObtainedKeeps
<1> QED BY <1>1, <1>3, <1>5

LEMMA ProgressNext ==
  ASSUME DriverInv, UniqueInv', NEW s \in Sessions, Running(s), ProgressOf(s),
         AtCommit(s) \/ \E what \in {"qualify", "link", "activate"} : At(s, what),
         Visible(s) \subseteq Visible(s)', NextTransaction(s)
  PROVE  ProgressOf(s)'
<1>1. CASE EndDriver(s, "done")
  <2>1. ~Running(s)'
    BY <1>1, EndDriverKeeps
  <2> QED BY <2>1 DEF ProgressOf
<1>2. CASE ~EndDriver(s, "done")
  <2>1. driver' = [driver EXCEPT ![s].transaction = @ + 1, ![s].step = 1]
    BY <1>2 DEF NextTransaction
  <2>2. driver[s] \in Drivers /\ driver \in [Sessions -> Drivers]
    BY DEF DriverInv
  <2>3. /\ Case(s)' = Case(s) /\ driver'[s].transaction = driver[s].transaction + 1
        /\ driver'[s].step = 1 /\ driver[s].transaction \in Nat /\ driver[s].step \in Nat
    BY <2>1, <2>2 DEF Case, Drivers
  <2> SUFFICES ASSUME NEW k \in 1..Len(Plan(Case(s))),
                      NEW j \in 1..Len(Plan(Case(s))[k]), Passed(s, k, j)'
               PROVE  Obtained(s, k, Plan(Case(s))[k][j])'
    BY <2>3 DEF ProgressOf
  <2>4. PICK what : what = Plan(Case(s))[k][j]
    OBVIOUS
  <2>5. k \in Nat /\ j \in Nat /\ j >= 1
    <3>1. WellFormedCase(Case(s)) /\ Len(Plan(Case(s))) \in Nat
      BY StepShape
    <3>2. Len(Plan(Case(s))[k]) \in Nat
      BY <3>1, FirstStep
    <3> QED BY <3>1, <3>2
  <2>6. k <= driver[s].transaction
    BY <2>3, <2>5 DEF Passed
  <2>7. Obtained(s, k, what)
    <3>1. CASE Passed(s, k, j)
      BY <2>4, <3>1 DEF ProgressOf
    <3>2. CASE ~Passed(s, k, j)
      <4>1. k = driver[s].transaction /\ ~(j < driver[s].step)
        BY <2>3, <2>5, <2>6, <3>2 DEF Passed
      <4>2. j <= Len(Steps(s)) /\ Steps(s) = Plan(Case(s))[k] /\ Len(Steps(s)) \in Nat
        <5>1. Len(Steps(s)) \in Nat
          <6>1. WellFormedCase(Case(s)) /\ driver[s].transaction \in 1..Len(Plan(Case(s)))
            BY StepShape DEF DriverInv
          <6> QED BY <6>1, FirstStep DEF Steps
        <5> QED BY <4>1, <5>1 DEF Steps
      <4>3. ~AtCommit(s)
        BY <2>3, <2>5, <4>1, <4>2 DEF AtCommit
      <4>4. PICK quiet \in {"qualify", "link", "activate"} : At(s, quiet)
        BY <4>3
      <4>5. Steps(s) = <<quiet>>
        BY <4>4, AtStep
      <4>6. j = 1
        BY <2>5, <4>2, <4>5
      <4>7. what = quiet
        BY <2>4, <4>2, <4>5, <4>6
      <4> QED BY <4>7 DEF Obtained
    <3> QED BY <3>1, <3>2
  <2>8. Obtained(s, k, what)'
    BY <2>3, <2>7, ObtainedKeeps
  <2> QED BY <2>3, <2>4, <2>8
<1> QED BY <1>1, <1>2

LEMMA ProgressIngest ==
  ASSUME EvidenceInv, EvidenceInv', RecordInv, NEW s \in Sessions, ProgressOf(s), IngestStep(s)
  PROVE  ProgressOf(s)'
<1> USE DEF EvidenceInv
<1>1. PICK kind \in Kinds : At(s, kind)
  BY IngestEffect
<1>2. /\ CanDerive(s) /\ driver'[s] = [driver[s] EXCEPT !.step = @ + 1]
      /\ Visible(s) \subseteq Visible(s)'
      /\ \E x \in Visible(s)' : x.record = Envelope(s)
  BY IngestEffect DEF Visible
<1>3. /\ Case(s)' = Case(s) /\ driver'[s].transaction = driver[s].transaction
      /\ driver'[s].step = driver[s].step + 1 /\ Running(s)' /\ Running(s)
      /\ driver[s].transaction \in Nat /\ driver[s].step \in Nat
  BY <1>1, <1>2 DEF Case, Running, At, DriverInv, Drivers
<1> SUFFICES ASSUME NEW k \in 1..Len(Plan(Case(s))),
                    NEW j \in 1..Len(Plan(Case(s))[k]), Passed(s, k, j)'
             PROVE  Obtained(s, k, Plan(Case(s))[k][j])'
  BY <1>3 DEF ProgressOf
<1>4. PICK what : what = Plan(Case(s))[k][j]
  OBVIOUS
<1>5. CASE Passed(s, k, j)
  <2>1. Obtained(s, k, what)
    BY <1>3, <1>4, <1>5 DEF ProgressOf
  <2>2. Obtained(s, k, what)'
    BY <1>2, <1>3, <2>1, ObtainedKeeps
  <2> QED BY <1>3, <1>4, <2>2
<1>6. CASE ~Passed(s, k, j)
  <2>1. k = driver[s].transaction /\ j = driver[s].step
    <3>1. k \in Nat /\ j \in Nat
      <4>1. WellFormedCase(Case(s)) /\ Len(Plan(Case(s))) \in Nat
        BY <1>3, StepShape
      <4>2. Len(Plan(Case(s))[k]) \in Nat
        BY <4>1, FirstStep
      <4> QED BY <4>1, <4>2
    <3> QED BY <1>3, <1>6, <3>1 DEF Passed
  <2>2. what = kind
    BY <1>1, <1>4, <2>1 DEF At, Steps
  <2> DEFINE c == Case(s)
  <2>3. PICK x \in Visible(s)' : x.record = Envelope(s)
    BY <1>2
  <2>4. /\ kind = "raw" => x.record = RawRecord(c)
        /\ kind = "semantic" => Identity(x.record) = SemanticId(c)
        /\ kind = "context" => Identity(x.record) = ContextId(c)
        /\ kind = "finding" => Identity(x.record) = FindingId(c)
        /\ kind = "telemetry" => x.record = c.telemetry[k - Skipped(c)]
        /\ kind = "correlation" =>
             /\ x.record = CorrelationRecord(s)
             /\ \A t \in TelemetryOf(c) : Matching(s, Identity(t)) # {}
             /\ \A id \in CyberIds(c) : Matching(s, id) # {}
    BY <1>1, <1>2, <2>1, <2>3, EnvelopeIs
  <2>5. /\ RawRecord(c)' = RawRecord(c) /\ SemanticId(c)' = SemanticId(c)
        /\ ContextId(c)' = ContextId(c) /\ FindingId(c)' = FindingId(c)
        /\ TelemetryOf(c)' = TelemetryOf(c) /\ CyberIds(c)' = CyberIds(c)
        /\ Skipped(c)' = Skipped(c)
    BY <1>3 DEF RawRecord, RawId, SemanticId, ContextId, FindingId, TelemetryOf, CyberIds, Skipped
  <2>6. ASSUME kind = "correlation"
        PROVE  /\ \A t \in TelemetryOf(c) : Matching(s, Identity(t))' # {}
               /\ \A id \in CyberIds(c) : Matching(s, id)' # {}
               /\ Matching(s, Identity(CorrelationRecord(s)))' # {}
    <3>1. CorrelationRecord(s)' = CorrelationRecord(s)
      BY <1>2, <1>3, <2>4, <2>6, CorrelationKeeps
    <3> QED BY <1>2, <2>3, <2>4, <2>6, <3>1 DEF Matching
  <2>7. Verified(s, x.record)' /\ Matching(s, Identity(x.record))' # {}
    BY <2>3 DEF Verified, Matching
  <2>8. Obtained(s, k, what)'
    <3> HIDE DEF c
    <3>1. (what = "raw" => Verified(s, RawRecord(c)))'
      BY <2>2, <2>3, <2>4, <2>5 DEF Verified
    <3>2. (what = "telemetry" => Verified(s, c.telemetry[k - Skipped(c)]))'
      BY <1>3, <2>2, <2>3, <2>4, <2>5 DEF Verified, c
    <3>3. /\ (what = "semantic" => Matching(s, SemanticId(c)) # {})'
          /\ (what = "context" => Matching(s, ContextId(c)) # {})'
          /\ (what = "finding" => Matching(s, FindingId(c)) # {})'
      BY <2>2, <2>3, <2>4, <2>5 DEF Matching
    <3> QED BY <2>2, <2>5, <2>6, <3>1, <3>2, <3>3 DEF Obtained, c
  <2> QED BY <1>3, <1>4, <2>8
<1> QED BY <1>5, <1>6

-----------------------------------------------------------------------------
(* What a finished case hands on is there, committed.                       *)
LEMMA RootsFound ==
  ASSUME EvidenceInv, ProgressInv, RecordInv, NEW s \in Sessions,
         At(s, "qualify") \/ At(s, "link")
  PROVE  /\ IsFiniteSet(Roots(s))
         /\ \A m \in Roots(s) : \E x \in rows : x.record = m
         /\ Visible(s) = rows
         /\ Case(s).event # None => \A id \in CyberIds(Case(s)) : Matching(s, id) # {}
         /\ Case(s).rule # None =>
              /\ \A t \in TelemetryOf(Case(s)) : Matching(s, Identity(t)) # {}
              /\ Matching(s, Identity(CorrelationRecord(s))) # {}
<1> DEFINE c == Case(s)
           k == driver[s].transaction
           n == Skipped(c) + Len(c.telemetry) + 1
<1>1. /\ Running(s) /\ WellFormedCase(c) /\ ~c.post /\ k \in 1..Len(Plan(c))
      /\ k > Skipped(c) + Len(c.telemetry) + Ruled(c) /\ driver[s].step = 1
  BY AtPlace DEF EvidenceInv
<1>2. Visible(s) = rows
  BY <1>1 DEF EvidenceInv, PendingInv, PendingOf, Visible
<1>3. Len(c.telemetry) \in Nat /\ Skipped(c) \in Nat /\ Ruled(c) \in Nat /\ Len(Plan(c)) \in Nat
  BY <1>1, PlanShape DEF WellFormedCase, Skipped, Ruled
<1>4. \A i \in 1..Len(Plan(c)) : \A j \in 1..Len(Plan(c)[i]) :
        i < k => Obtained(s, i, Plan(c)[i][j])
  BY <1>1 DEF ProgressInv, ProgressOf, Passed
<1>5. ASSUME c.event # None PROVE \A id \in CyberIds(c) : Matching(s, id) # {}
  <2>1. Skipped(c) = 3 /\ k > 3
    BY <1>1, <1>3, <1>5 DEF Skipped
  <2>2. /\ Len(Plan(c)) >= 3 /\ Plan(c)[1] = <<"raw">> /\ Plan(c)[2] = <<"semantic">>
        /\ Plan(c)[3] = <<"context", "finding">>
    BY <1>1, <1>5, PlanOrder
  <2>3. /\ Obtained(s, 1, "raw") /\ Obtained(s, 2, "semantic") /\ Obtained(s, 3, "context")
        /\ Obtained(s, 3, "finding")
    <3>1. 1 \in 1..Len(Plan(c)) /\ 2 \in 1..Len(Plan(c)) /\ 3 \in 1..Len(Plan(c))
      BY <1>3, <2>2
    <3>2. /\ 1 \in 1..Len(Plan(c)[1]) /\ 1 \in 1..Len(Plan(c)[2]) /\ 1 \in 1..Len(Plan(c)[3])
          /\ 2 \in 1..Len(Plan(c)[3])
          /\ Plan(c)[1][1] = "raw" /\ Plan(c)[2][1] = "semantic" /\ Plan(c)[3][1] = "context"
          /\ Plan(c)[3][2] = "finding"
      BY <2>2
    <3>3. 1 < k /\ 2 < k /\ 3 < k
      BY <1>1, <2>1
    <3>4. Obtained(s, 1, Plan(c)[1][1])
      BY <1>4, <3>1, <3>2, <3>3
    <3>5. Obtained(s, 2, Plan(c)[2][1])
      BY <1>4, <3>1, <3>2, <3>3
    <3>6. Obtained(s, 3, Plan(c)[3][1])
      BY <1>4, <3>1, <3>2, <3>3
    <3>7. Obtained(s, 3, Plan(c)[3][2])
      BY <1>4, <3>1, <3>2, <3>3
    <3> QED BY <3>2, <3>4, <3>5, <3>6, <3>7
  <2>4. /\ Verified(s, RawRecord(c)) /\ Matching(s, SemanticId(c)) # {}
        /\ Matching(s, ContextId(c)) # {} /\ Matching(s, FindingId(c)) # {}
    BY <2>3 DEF Obtained
  <2>5. Identity(RawRecord(c)) = RawId(c)
    BY DEF RawRecord, Record, Identity, RawId
  <2>6. Matching(s, RawId(c)) # {}
    BY <2>4, <2>5 DEF Verified, Matching
  <2> QED BY <2>4, <2>6 DEF CyberIds
<1>6. ASSUME c.rule # None
      PROVE  /\ \A t \in TelemetryOf(c) : Matching(s, Identity(t)) # {}
             /\ Matching(s, Identity(CorrelationRecord(s))) # {}
  <2>1. n < k /\ n \in 1..Len(Plan(c))
    BY <1>1, <1>3, <1>6, PlanOrder DEF Ruled
  <2>2. Plan(c)[n] = <<"correlation">>
    BY <1>1, <1>6, PlanOrder
  <2>3. 1 \in 1..Len(Plan(c)[n]) /\ Plan(c)[n][1] = "correlation"
    BY <2>2
  <2>4. Obtained(s, n, Plan(c)[n][1])
    <3> HIDE DEF n, k
    <3> QED BY <1>4, <2>1, <2>3
  <2>5. Obtained(s, n, "correlation")
    BY <2>3, <2>4
  <2> QED BY <2>5 DEF Obtained
<1>7. \A id : Matching(s, id) # {} => \E x \in rows : x.record = StoredRecord(s, id)
  <2> TAKE id
  <2> HAVE Matching(s, id) # {}
  <2>1. Stored(s, id) \in Visible(s)
    BY Found
  <2> QED BY <1>2, <2>1 DEF StoredRecord
<1> DEFINE A == IF c.event = None THEN {} ELSE {StoredRecord(s, FindingId(c))}
           B == IF c.rule = None THEN {} ELSE {StoredRecord(s, Identity(CorrelationRecord(s)))}
<1>8. Roots(s) = A \cup B
  BY DEF Roots
<1>9. /\ \A m \in A : \E x \in rows : x.record = m
      /\ \A m \in B : \E x \in rows : x.record = m
  <2>1. ASSUME NEW m \in A PROVE \E x \in rows : x.record = m
    <3>1. c.event # None /\ m = StoredRecord(s, FindingId(c))
      BY <2>1
    <3>2. Matching(s, FindingId(c)) # {}
      BY <1>5, <3>1 DEF CyberIds
    <3> QED BY <1>7, <3>1, <3>2
  <2>2. ASSUME NEW m \in B PROVE \E x \in rows : x.record = m
    <3>1. c.rule # None /\ m = StoredRecord(s, Identity(CorrelationRecord(s)))
      BY <2>2
    <3>2. PICK q : q = Identity(CorrelationRecord(s))
      OBVIOUS
    <3> QED BY <1>6, <1>7, <3>1, <3>2
  <2> QED BY <2>1, <2>2
<1>10. IsFiniteSet(A) /\ IsFiniteSet(B)
  BY FS_EmptySet, FS_Singleton
<1>11. IsFiniteSet(A \cup B)
  <2> HIDE DEF A, B
  <2> QED BY <1>10, FS_Union
<1> QED BY <1>2, <1>5, <1>6, <1>8, <1>9, <1>11

LEMMA QualifyIncidents ==
  ASSUME EvidenceInv, ProgressInv, RecordInv, IncidentsInv, NEW s \in Sessions, Qualify(s)
  PROVE  /\ IncidentsInv'
         /\ \A i \in incidents : i.time \in Nat
         /\ \A j \in incidents' : j.time \in Nat
         /\ \A i \in incidents : \E j \in incidents' : j.id = i.id /\ j.time >= i.time
<1> DEFINE c == Case(s)
           old == {i \in incidents : i.id = c.incident}
           members == Roots(s) \cup UNION {i.members : i \in old}
           bound == {m.scope : m \in members} \ {Unbound}
           n == [id |-> c.incident, members |-> members,
                 scope |-> IF bound = {} THEN Unbound ELSE CHOOSE b \in bound : TRUE,
                 time |-> Latest({m.observed : m \in members}, 0)]
<1>1. At(s, "qualify") /\ incidents' = (incidents \ old) \cup {n} /\ rows' = rows
  BY DEF Qualify, storeVars
<1>2. c.incident \in AllIds
  <2>1. c \in AllCases /\ c.incident # None
    BY <1>1, AtPlace DEF EvidenceInv
  <2>2. c.incident \in IdsOf(c)
    BY <2>1 DEF IdsOf
  <2> QED BY <2>1, <2>2 DEF AllIds
<1>3. /\ IsFiniteSet(Roots(s)) /\ \A m \in Roots(s) : \E x \in rows : x.record = m
  BY <1>1, RootsFound
<1>4. \A i \in old : i \in incidents /\ IncidentOk(i)
  BY DEF IncidentsInv
<1>5. /\ IsFiniteSet(members) /\ \A m \in members : \E x \in rows : x.record = m
      /\ \A i \in old : i.members \subseteq members
  <2>1. IsFiniteSet(incidents) /\ old \in SUBSET incidents
    BY DEF IncidentsInv
  <2>2. IsFiniteSet(old)
    BY <2>1, FS_Subset
  <2> DEFINE f == [i \in old |-> i.members]
             U == {i.members : i \in old}
  <2>3. U = {f[i] : i \in old}
    OBVIOUS
  <2>4. IsFiniteSet(U)
    <3> HIDE DEF old, f, U
    <3> QED BY <2>2, <2>3, FiniteImage
  <2>5. \A T \in U : IsFiniteSet(T)
    BY <1>4 DEF IncidentOk
  <2>6. IsFiniteSet(UNION U)
    <3> HIDE DEF U
    <3> QED BY <2>4, <2>5, FS_UNION
  <2>7. IsFiniteSet(members)
    <3> HIDE DEF U
    <3>1. IsFiniteSet(Roots(s) \cup UNION U)
      BY <1>3, <2>6, FS_Union
    <3> QED BY <3>1 DEF U
  <2>8. ASSUME NEW m \in members PROVE \E x \in rows : x.record = m
    <3>1. CASE m \in Roots(s)
      BY <1>3, <3>1
    <3>2. CASE m \notin Roots(s)
      <4>1. PICK i \in old : m \in i.members
        BY <2>8, <3>2
      <4> QED BY <1>4, <4>1 DEF IncidentOk
    <3> QED BY <3>1, <3>2
  <2> QED BY <2>7, <2>8
<1> HIDE DEF members, old, bound
<1>6. n.id = c.incident /\ n.members = members /\ n.time = Latest({m.observed : m \in members}, 0)
  OBVIOUS
<1> HIDE DEF n
<1>7. /\ n.time \in Nat
      /\ \A m \in members : m.observed \in Nat /\ m.observed <= n.time
  BY <1>5, <1>6, IncidentTimes
<1>8. PICK v : v = n
  OBVIOUS
<1>15. IncidentOk(v)'
  BY <1>1, <1>2, <1>5, <1>6, <1>8 DEF IncidentOk
<1>9. \A i \in incidents : IncidentOk(i)'
  BY <1>1 DEF IncidentsInv, IncidentOk
<1>10. \A i \in incidents : i.time \in Nat
  BY IncidentTimes DEF IncidentsInv, IncidentOk
<1>11. ASSUME NEW i \in incidents PROVE \E j \in incidents' : j.id = i.id /\ j.time >= i.time
  <2>1. CASE i \in old
    <3>1. i.id = n.id /\ i.members \subseteq members
      BY <1>5, <1>6, <2>1 DEF old
    <3>2. IncidentOk(i)
      BY DEF IncidentsInv
    <3>3. /\ i.members = {} => i.time = 0
          /\ i.members # {} => \E m \in i.members : i.time = m.observed
      BY <3>2, IncidentTimes DEF IncidentOk
    <3>4. n.time >= i.time
      BY <1>7, <1>10, <3>1, <3>3
    <3> QED BY <1>1, <3>1, <3>4
  <2>2. CASE i \notin old
    BY <1>1, <1>10, <2>2
  <2> QED BY <2>1, <2>2
<1>12. \A i, j \in incidents' : i.id = j.id => i = j
  <2>1. \A i \in incidents \ old : i.id # n.id
    BY <1>6 DEF old
  <2> QED BY <1>1, <2>1 DEF IncidentsInv
<1>13. IsFiniteSet(incidents')
  <2>1. IsFiniteSet(incidents \ old)
    BY FS_Difference DEF IncidentsInv
  <2> QED BY <1>1, <2>1, FS_AddElement
<1>14. IncidentsInv'
  BY <1>1, <1>8, <1>9, <1>12, <1>13, <1>15 DEF IncidentsInv
<1> QED BY <1>1, <1>7, <1>10, <1>11, <1>14

-----------------------------------------------------------------------------
(* A step of a session s that leaves incidents, links, context and walk     *)
(* alone and takes no row from anybody keeps what readers are owed, once    *)
(* its own progress and the soundness of its rows are known.                *)
LEMMA WriterKeeps ==
  ASSUME EvidenceInv', ReaderInv, NEW s \in Sessions, rows \subseteq rows',
         \A o \in Sessions \ {s} : driver'[o] = driver[o] /\ pending'[o] = pending[o],
         ProgressOf(s)', RecordInv', UNCHANGED <<incidents, walk>>, links \subseteq links',
         context' = context \/ context'.version = context.version + 1
  PROVE  ReaderInv'
<1> USE DEF ReaderInv, EvidenceInv
<1>1. ProgressInv'
  <2>1. ASSUME NEW o \in Sessions \ {s} PROVE ProgressOf(o)'
    <3>1. Visible(o) \subseteq Visible(o)'
      BY <2>1 DEF Visible
    <3> QED BY <3>1, ProgressFrame DEF ProgressInv
  <2> QED BY <2>1 DEF ProgressInv
<1>2. IncidentsInv'
  BY DEF IncidentsInv, IncidentOk
<1>3. \A i \in incidents : i.time \in Nat
  BY IncidentTimes DEF IncidentsInv, IncidentOk
<1>4. WalkInv'
  BY <1>3, WalkFrame
<1> QED BY <1>1, <1>2, <1>4

LEMMA IngestReads ==
  ASSUME EvidenceInv, EvidenceInv', ReaderInv, NEW s \in Sessions, IngestStep(s)
  PROVE  ReaderInv'
<1> USE DEF ReaderInv
<1>1. ProgressOf(s)'
  BY ProgressIngest DEF ProgressInv
<1>2. PICK r : r = Envelope(s)
  OBVIOUS
<1>3. /\ rows' = rows /\ \A o \in Sessions \ {s} : driver'[o] = driver[o] /\ pending'[o] = pending[o]
      /\ pending'[s] = pending[s] \/ pending'[s] = pending[s] \union {Row(r, Case(s).received)}
  BY <1>2, IngestEffect
<1>4. Sound(r)
  <2>1. PICK kind \in Kinds : At(s, kind)
    BY IngestEffect
  <2>2. CanDerive(s) /\ DriverInv
    BY IngestEffect DEF EvidenceInv
  <2> QED BY <1>2, <2>1, <2>2, EnvelopeIs
<1>5. RecordInv'
  <2>1. IsFiniteSet(pending'[s])
    BY <1>3, FS_AddElement DEF RecordInv
  <2>2. \A x \in pending'[s] : Sound(x.record)
    <3>1. Row(r, Case(s).received).record = r
      BY DEF Row
    <3> QED BY <1>3, <1>4, <3>1 DEF RecordInv
  <2> QED BY <1>3, <2>1, <2>2 DEF RecordInv
<1> QED BY <1>1, <1>3, <1>5, WriterKeeps DEF IngestStep

(* A transaction that is undone, by a refusal or by a crash.                *)
LEMMA UndoReads ==
  ASSUME EvidenceInv, EvidenceInv', ReaderInv, NEW s \in Sessions, Refuse(s) \/ Crash(s)
  PROVE  ReaderInv'
<1> USE DEF ReaderInv
<1>1. /\ RollbackRows(s) /\ UNCHANGED <<incidents, links, context, walk>>
      /\ \A o \in Sessions \ {s} : driver'[o] = driver[o]
      /\ ~Running(s)'
  <2>1. CASE Refuse(s)
    <3>1. Running(s) /\ EndDriver(s, "failed") /\ DriverInv
      BY <2>1 DEF Refuse, AtIngest, At, EvidenceInv
    <3> QED BY <2>1, <3>1, EndDriverKeeps DEF Refuse
  <2>2. CASE Crash(s)
    <3>1. driver' = [driver EXCEPT ![s] = Idle] /\ driver \in [Sessions -> Drivers]
      BY <2>2 DEF Crash, EvidenceInv, DriverInv
    <3>2. driver'[s] = Idle /\ \A o \in Sessions \ {s} : driver'[o] = driver[o]
      BY <3>1
    <3> QED BY <2>2, <3>2, IdleDriver DEF Crash, Running
  <2> QED BY <2>1, <2>2
<1>2. /\ rows' = rows /\ pending'[s] = {} /\ \A o \in Sessions \ {s} : pending'[o] = pending[o]
  BY <1>1 DEF RollbackRows, EvidenceInv, PendingInv
<1>3. ProgressOf(s)'
  BY <1>1 DEF ProgressOf
<1>4. RecordInv'
  BY <1>2, FS_EmptySet DEF RecordInv
<1> QED BY <1>1, <1>2, <1>3, <1>4, WriterKeeps

LEMMA CommitReads ==
  ASSUME EvidenceInv, EvidenceInv', ReaderInv, NEW s \in Sessions, Commit(s)
  PROVE  ReaderInv'
<1> USE DEF ReaderInv
<1>1. /\ Running(s) /\ AtCommit(s) /\ NextTransaction(s) /\ DriverInv
      /\ UNCHANGED <<incidents, links, context, walk>>
  BY DEF Commit, EvidenceInv
<1>2. /\ rows' = rows \cup pending[s] /\ pending'[s] = {}
      /\ \A o \in Sessions \ {s} : pending'[o] = pending[o]
  BY DEF Commit, CommitRows, EvidenceInv, PendingInv
<1>3. \A o \in Sessions \ {s} : driver'[o] = driver[o]
  BY <1>1, NextTransactionKeeps
<1>4. ProgressOf(s)'
  <2>1. Visible(s) \subseteq Visible(s)'
    BY <1>2 DEF Visible
  <2> QED BY <1>1, <2>1, ProgressNext DEF ProgressInv, EvidenceInv
<1>5. RecordInv'
  <2>1. IsFiniteSet(rows')
    BY <1>2, FS_Union DEF RecordInv
  <2> QED BY <1>2, <2>1, FS_EmptySet DEF RecordInv
<1> QED BY <1>1, <1>2, <1>3, <1>4, <1>5, WriterKeeps

LEMMA RespondReads ==
  ASSUME EvidenceInv, EvidenceInv', ReaderInv, NEW s \in Sessions, Respond(s)
  PROVE  ReaderInv'
<1> USE DEF ReaderInv
<1>1. /\ At(s, "respond") /\ NextStep(s) /\ rows' = rows /\ pending' = pending /\ DriverInv
      /\ UNCHANGED <<incidents, links, context, walk>>
  BY DEF Respond, EvidenceInv, storeVars
<1>2. /\ driver'[s] = [driver[s] EXCEPT !.step = @ + 1]
      /\ \A o \in Sessions \ {s} : driver'[o] = driver[o]
  BY <1>1, NextStepKeeps
<1>3. /\ Case(s)' = Case(s) /\ driver'[s].transaction = driver[s].transaction
      /\ driver'[s].step = driver[s].step + 1 /\ Running(s)
      /\ driver[s].transaction \in Nat /\ driver[s].step \in Nat
  BY <1>1, <1>2 DEF Case, Running, At, DriverInv, Drivers
<1>4. ASSUME NEW k \in 1..Len(Plan(Case(s))), NEW j \in 1..Len(Plan(Case(s))[k]), Passed(s, k, j)'
      PROVE  Obtained(s, k, Plan(Case(s))[k][j])'
  <2>1. PICK what : what = Plan(Case(s))[k][j]
    OBVIOUS
  <2>2. Obtained(s, k, what)
    <3>1. CASE Passed(s, k, j)
      BY <1>3, <2>1, <3>1 DEF ProgressInv, ProgressOf
    <3>2. CASE ~Passed(s, k, j)
      <4>1. k \in Nat /\ j \in Nat
        <5>1. WellFormedCase(Case(s)) /\ Len(Plan(Case(s))) \in Nat
          BY <1>1, <1>3, StepShape
        <5>2. Len(Plan(Case(s))[k]) \in Nat
          BY <5>1, FirstStep
        <5> QED BY <5>1, <5>2
      <4>2. k = driver[s].transaction /\ j = driver[s].step
        BY <1>3, <1>4, <3>2, <4>1 DEF Passed
      <4>3. what = "respond"
        BY <1>1, <2>1, <4>2 DEF At, Steps
      <4> QED BY <4>3 DEF Obtained
    <3> QED BY <3>1, <3>2
  <2>3. Obtained(s, k, what)'
    <3>1. Visible(s) \subseteq Visible(s)'
      BY <1>1 DEF Visible
    <3> QED BY <1>3, <2>2, <3>1, ObtainedKeeps DEF EvidenceInv
  <2> QED BY <1>3, <2>1, <2>3
<1>5. ProgressOf(s)'
  BY <1>3, <1>4 DEF ProgressOf
<1>6. RecordInv'
  BY <1>1 DEF RecordInv
<1> QED BY <1>1, <1>2, <1>5, <1>6, WriterKeeps

(* The stages that write no evidence.                                       *)
LEMMA StageReads ==
  ASSUME EvidenceInv, EvidenceInv', ReaderInv, NEW s \in Sessions,
         Qualify(s) \/ Link(s) \/ Activate(s)
  PROVE  ReaderInv'
<1> USE DEF ReaderInv
<1>1. PICK what \in {"qualify", "link", "activate"} : At(s, what)
  BY DEF Qualify, Link, Activate
<1>2. /\ rows' = rows /\ pending' = pending /\ UNCHANGED walk /\ DriverInv /\ Running(s)
      /\ NextTransaction(s) \/ EndDriver(s, "failed")
  BY <1>1 DEF Qualify, Link, Activate, storeVars, EvidenceInv, At
<1>3. \A o \in Sessions \ {s} : driver'[o] = driver[o]
  BY <1>2, NextTransactionKeeps, EndDriverKeeps
<1>4. ProgressOf(s)'
  <2>1. CASE NextTransaction(s)
    <3>1. Visible(s) \subseteq Visible(s)'
      BY <1>2 DEF Visible
    <3> QED BY <1>1, <1>2, <2>1, <3>1, ProgressNext DEF ProgressInv, EvidenceInv
  <2>2. CASE EndDriver(s, "failed")
    <3>1. ~Running(s)'
      BY <1>2, <2>2, EndDriverKeeps
    <3> QED BY <3>1 DEF ProgressOf
  <2> QED BY <1>2, <2>1, <2>2
<1>5. RecordInv'
  BY <1>2 DEF RecordInv
<1>6. CASE Link(s) \/ Activate(s)
  <2>1. /\ UNCHANGED incidents /\ links \subseteq links'
        /\ context' = context \/ context'.version = context.version + 1
    BY <1>6 DEF Link, Activate
  <2> QED BY <1>2, <1>3, <1>4, <1>5, <2>1, WriterKeeps
<1>7. CASE Qualify(s)
  <2>1. /\ IncidentsInv'
        /\ \A i \in incidents : i.time \in Nat
        /\ \A j \in incidents' : j.time \in Nat
        /\ \A i \in incidents : \E j \in incidents' : j.id = i.id /\ j.time >= i.time
    BY <1>7, QualifyIncidents
  <2>2. WalkInv'
    BY <1>2, <1>7, <2>1, WalkFrame DEF Qualify
  <2>3. ProgressInv'
    <3>1. ASSUME NEW o \in Sessions \ {s} PROVE ProgressOf(o)'
      <4>1. Visible(o) \subseteq Visible(o)'
        BY <1>2 DEF Visible
      <4> QED BY <1>3, <4>1, ProgressFrame DEF ProgressInv, EvidenceInv
    <3> QED BY <1>4, <3>1 DEF ProgressInv
  <2> QED BY <1>5, <2>1, <2>2, <2>3
<1> QED BY <1>6, <1>7

LEMMA StartReads ==
  ASSUME EvidenceInv, EvidenceInv', ReaderInv, NEW s \in Sessions, NEW c \in Cases(s), Start(s, c)
  PROVE  ReaderInv'
<1> USE DEF ReaderInv
<1> DEFINE d == [Idle EXCEPT !.phase = "running", !.case = c]
<1>1. /\ rows' = rows /\ pending' = pending /\ UNCHANGED <<incidents, links, context, walk>>
      /\ driver' = [driver EXCEPT ![s] = d] /\ driver \in [Sessions -> Drivers]
  BY DEF Start, storeVars, EvidenceInv, DriverInv
<1>2. d.transaction = 1 /\ d.step = 1
  BY DEF Idle
<1> HIDE DEF d
<1>3. driver'[s] = d /\ \A o \in Sessions \ {s} : driver'[o] = driver[o]
  BY <1>1
<1>4. ProgressOf(s)'
  <2>1. ASSUME Running(s)', NEW k \in 1..Len(Plan(Case(s)')),
               NEW j \in 1..Len(Plan(Case(s)')[k]), Passed(s, k, j)'
        PROVE  FALSE
    <3>1. WellFormedCase(Case(s)')
      BY <2>1, CasesAssumption DEF EvidenceInv, DriverInv
    <3>2. Len(Plan(Case(s)')) \in Nat /\ Len(Plan(Case(s)')[k]) \in Nat
      BY <2>1, <3>1, PlanShape, FirstStep
    <3>3. k >= 1 /\ j >= 1 /\ k \in Nat /\ j \in Nat
      BY <2>1, <3>2
    <3> QED BY <1>2, <1>3, <2>1, <3>3 DEF Passed
  <2> QED BY <2>1 DEF ProgressOf
<1>5. RecordInv'
  BY <1>1 DEF RecordInv
<1> QED BY <1>1, <1>3, <1>4, <1>5, WriterKeeps

(* The reader itself.                                                       *)
LEMMA WalkMoves ==
  ASSUME WalkInv, UNCHANGED <<storeVars, pipeVars>>, NEW v, walk' = v,
         v.phase \in {"open", "ended"},
         v.phase = "ended" => ~v.again /\ v.missed = {},
         v.phase = "open" => OpenWalk(v)
  PROVE  WalkInv'
<1>1. rows' = rows /\ incidents' = incidents /\ links' = links /\ context' = context
  BY DEF storeVars, pipeVars
<1>2. /\ \A list : AllItems(list)' = AllItems(list)
      /\ Listed(v)' = Listed(v)
      /\ \A x : Gone(v, x)' <=> Gone(v, x)
  BY <1>1 DEF AllItems, Listed, Gone
<1>3. v.phase = "open" => OpenWalk(v)'
  BY <1>1, <1>2 DEF OpenWalk
<1> QED BY <1>1, <1>3 DEF WalkInv, WalkIsExact

LEMMA OpenReads ==
  ASSUME EvidenceInv, ReaderInv, NEW list \in Lists, NEW scope \in Scopes, NEW run,
         OpenList(list, scope, run)
  PROVE  WalkInv'
<1> USE DEF ReaderInv
<1> DEFINE v == [phase |-> "open", list |-> list, scope |-> scope, run |-> run,
                 version |-> context.version, start |-> {}, cursor |-> None, shown |-> {},
                 again |-> FALSE]
           w == [v EXCEPT !.start = Listed(v)]
<1>1. walk' = PageOf(w) /\ UNCHANGED <<storeVars, pipeVars>>
  BY DEF OpenList
<1>2. w = [phase |-> "open", list |-> list, scope |-> scope, run |-> run,
           version |-> context.version, start |-> Listed(v), cursor |-> None, shown |-> {},
           again |-> FALSE]
  <2> DEFINE With(x) == [phase |-> "open", list |-> list, scope |-> scope, run |-> run,
                         version |-> context.version, start |-> x, cursor |-> None,
                         shown |-> {}, again |-> FALSE]
  <2>1. ASSUME NEW x PROVE [v EXCEPT !.start = x] = With(x)
    <3> DEFINE u == [v EXCEPT !.start = x]
    <3>1. u = [v EXCEPT !.start = x]
      OBVIOUS
    <3> HIDE DEF u
    <3>2. u = With(x)
      BY <3>1
    <3> QED BY <3>2 DEF u
  <2>2. [v EXCEPT !.start = Listed(v)] = With(Listed(v))
    <3> HIDE DEF v, With
    <3> QED BY <2>1, Zenon
  <2> QED BY <2>2, Zenon
<1>3. /\ w.list = list /\ w.scope = scope /\ w.run = run /\ w.version = context.version
      /\ w.start = Listed(v) /\ w.cursor = None /\ w.shown = {}
  BY <1>2
<1>4. Listed(w) = Listed(v)
  BY <1>3 DEF Listed
<1>5. Listed(v) \subseteq Items
  <2>1. AllItems(list) \subseteq Items
    BY ListedItems DEF EvidenceInv
  <2> QED BY <2>1 DEF Listed
<1> HIDE DEF w, v
<1>6. OpenWalk(w)
  BY <1>2, <1>3, <1>4, <1>5 DEF OpenWalk, WalkInv, UpTo
<1>7. /\ PageOf(w).phase \in {"open", "ended"}
      /\ PageOf(w).phase = "ended" => ~PageOf(w).again /\ PageOf(w).missed = {}
      /\ PageOf(w).phase = "open" => OpenWalk(PageOf(w))
  BY <1>6, PageKeeps DEF EvidenceInv
<1>8. PICK u : u = PageOf(w)
  OBVIOUS
<1> QED BY <1>1, <1>7, <1>8, WalkMoves

LEMMA NextPageReads ==
  ASSUME EvidenceInv, ReaderInv, ReadNextPage
  PROVE  WalkInv'
<1> USE DEF ReaderInv
<1>1. walk' = PageOf(walk) /\ UNCHANGED <<storeVars, pipeVars>> /\ OpenWalk(walk)
  BY DEF ReadNextPage, WalkInv
<1>2. /\ PageOf(walk).phase \in {"open", "ended"}
      /\ PageOf(walk).phase = "ended" => ~PageOf(walk).again /\ PageOf(walk).missed = {}
      /\ PageOf(walk).phase = "open" => OpenWalk(PageOf(walk))
  BY <1>1, PageKeeps DEF EvidenceInv
<1>3. PICK u : u = PageOf(walk)
  OBVIOUS
<1> QED BY <1>1, <1>2, <1>3, WalkMoves

(* Readers and stuttering leave what the writers own alone.                 *)
LEMMA QuietReads ==
  ASSUME EvidenceInv', ReaderInv, UNCHANGED <<storeVars, pipeVars>>
  PROVE  ProgressInv' /\ RecordInv' /\ IncidentsInv'
<1> USE DEF ReaderInv
<1>1. rows' = rows /\ pending' = pending /\ driver' = driver /\ incidents' = incidents
  BY DEF storeVars, pipeVars
<1>2. ASSUME NEW o \in Sessions PROVE ProgressOf(o)'
  <2>1. Visible(o) \subseteq Visible(o)' /\ driver'[o] = driver[o]
    BY <1>1 DEF Visible
  <2> QED BY <2>1, ProgressFrame DEF ProgressInv, EvidenceInv
<1>3. RecordInv' /\ IncidentsInv'
  BY <1>1 DEF RecordInv, IncidentsInv, IncidentOk
<1> QED BY <1>2, <1>3 DEF ProgressInv

LEMMA InitReads == Init => ReaderInv
<1> SUFFICES ASSUME Init PROVE ReaderInv
  OBVIOUS
<1>1. /\ rows = {} /\ pending = [s \in Sessions |-> {}] /\ incidents = {}
      /\ driver = [s \in Sessions |-> Idle] /\ walk = Ended(FALSE, {})
      /\ context = [run |-> "BASELINE", version |-> 1]
  BY DEF Init, StoreInit
<1>2. ProgressInv
  BY <1>1, IdleDriver DEF ProgressInv, ProgressOf, Running
<1>3. RecordInv /\ IncidentsInv
  BY <1>1, FS_EmptySet DEF RecordInv, IncidentsInv
<1>4. WalkInv
  BY <1>1 DEF WalkInv, WalkIsExact, Ended
<1> QED BY <1>2, <1>3, <1>4 DEF ReaderInv

LEMMA NextReads == EvidenceInv /\ EvidenceInv' /\ ReaderInv /\ [Next]_vars => ReaderInv'
<1> SUFFICES ASSUME EvidenceInv, EvidenceInv', ReaderInv, [Next]_vars PROVE ReaderInv'
  OBVIOUS
<1>1. ASSUME NEW s \in Sessions, Work(s) \/ Crash(s) PROVE ReaderInv'
  BY <1>1, IngestReads, UndoReads, RespondReads, CommitReads, StageReads DEF Work
<1>2. ASSUME NEW s \in Sessions, NEW c \in Cases(s), Start(s, c) PROVE ReaderInv'
  BY <1>2, StartReads
<1>3. ASSUME NEW list \in Lists, NEW scope \in Scopes, NEW run, OpenList(list, scope, run)
      PROVE  ReaderInv'
  <2>1. UNCHANGED <<storeVars, pipeVars>>
    BY <1>3 DEF OpenList
  <2> QED BY <1>3, <2>1, QuietReads, OpenReads DEF ReaderInv
<1>4. CASE ReadNextPage
  <2>1. UNCHANGED <<storeVars, pipeVars>>
    BY <1>4 DEF ReadNextPage
  <2> QED BY <1>4, <2>1, QuietReads, NextPageReads DEF ReaderInv
<1>5. CASE UNCHANGED vars
  <2>1. UNCHANGED <<storeVars, pipeVars>> /\ UNCHANGED walk
    BY <1>5 DEF vars
  <2>2. UNCHANGED <<rows, incidents, links, context>>
    BY <2>1 DEF storeVars, pipeVars
  <2>3. \A i \in incidents : i.time \in Nat
    BY IncidentTimes DEF ReaderInv, IncidentsInv, IncidentOk
  <2>4. WalkInv'
    BY <2>1, <2>2, <2>3, WalkFrame DEF ReaderInv
  <2> QED BY <2>1, <2>4, QuietReads DEF ReaderInv
<1> QED BY <1>1, <1>2, <1>3, <1>4, <1>5 DEF Next

(* The inductive invariant of the readers, on top of that of the store.     *)
THEOREM ReaderInvariant == Spec => []ReaderInv
BY InitReads, NextReads, EvidenceInvariant, PTL DEF Spec

(* A reader that pages through the evidence or the incidents while cases    *)
(* run, crash and replace the active context is never shown an item twice   *)
(* and is shown every one that stays where it is (list_evidence,            *)
(* list_incidents).                                                         *)
THEOREM WalkTheorem == Spec => []WalkIsExact
<1>1. ReaderInv => WalkIsExact
  BY DEF ReaderInv, WalkInv
<1> QED BY <1>1, ReaderInvariant, PTL

-----------------------------------------------------------------------------
(***************************************************************************)
(* The origin of the records.  Every record is what its stage makes of the *)
(* parents it names, so that two records of one identity differ in nothing *)
(* that a rerun compares, and the members of an incident are the closure   *)
(* of its correlations.                                                    *)
(***************************************************************************)

\* What a stage makes of the records it is given.
SemanticOf(raw, created) ==
  Record("semantic", "1.0.0", raw.key, [meaning |-> raw.body.meaning, created |-> created],
         {raw}, Unbound, raw.observed)
ContextOf(raw, semantic, claims) ==
  Record("context", "1.0.0", raw.key, [claims |-> claims], {raw, semantic}, Unbound,
         semantic.observed)
FindingOf(raw, semantic, context_) ==
  Record("finding", "1.0.0", raw.key, [judged |-> <<context_.body.claims, semantic.body.meaning>>],
         {raw, semantic, context_}, Unbound, semantic.observed)
SamplesIn(refs) == {p \in refs : p.kind = "telemetry"}
CorrelationOf(c, refs) ==
  Record("correlation", "1.0.0",
         <<c.rule, Consistency(SamplesIn(refs), c.command).scope, {Identity(p) : p \in refs}>>,
         [reason |-> Consistency(SamplesIn(refs), c.command).reason], refs,
         Consistency(SamplesIn(refs), c.command).scope,
         Latest({t.observed : t \in SamplesIn(refs)}, c.command))

Is(r, kind, key) == Identity(r) = <<kind, "1.0.0", key>>

\* A correlation that a case makes: of all of its telemetry and, for a
\* command, of the chain that begins with its event.
CorrelationFor(r, c) ==
  /\ c.rule # None
  /\ IsFiniteSet(r.refs)
  /\ r = CorrelationOf(c, r.refs)
  /\ SamplesIn(r.refs) = TelemetryOf(c)
  /\ \A p \in r.refs \ TelemetryOf(c) : Identity(p) \in CyberIds(c)
  /\ c.event # None => RawRecord(c) \in r.refs
  /\ \A p \in r.refs : p.kind = "raw" => p.observed = c.command

\* Every record is what its stage makes of the parents it names.
Origin(r) ==
  /\ r.kind \in Kinds
  /\ r.kind = "raw" => \E c \in AllCases : c.event # None /\ r = RawRecord(c)
  /\ r.kind = "semantic" =>
       \E raw \in r.refs : Is(raw, "raw", r.key) /\ r = SemanticOf(raw, r.body.created)
  /\ r.kind = "context" =>
       \E raw, semantic \in r.refs :
         /\ Is(raw, "raw", r.key) /\ Is(semantic, "semantic", r.key)
         /\ r = ContextOf(raw, semantic, r.body.claims)
  /\ r.kind = "finding" =>
       \E raw, semantic, context_ \in r.refs :
         /\ Is(raw, "raw", r.key) /\ Is(semantic, "semantic", r.key)
         /\ Is(context_, "context", r.key)
         /\ r = FindingOf(raw, semantic, context_)
  /\ r.kind = "correlation" => \E c \in AllCases : CorrelationFor(r, c)

\* A semantic event was created when the raw one it names was received.
Stamped(x, S) ==
  x.record.kind = "semantic" =>
    \E y \in S : y.record \in x.record.refs /\ x.record.body.created = y.received

OriginInv ==
  /\ \A x \in rows : Origin(x.record) /\ Stamped(x, rows)
  /\ \A s \in Sessions : \A x \in pending[s] : Origin(x.record) /\ Stamped(x, Visible(s))

\* The members of an incident are policy findings and correlations of the
\* cases that were qualified as that incident.
MembersInv ==
  \A i \in incidents : \A m \in i.members :
    \/ m.kind = "finding"
    \/ \E c \in AllCases : c.incident # None /\ c.incident = i.id /\ CorrelationFor(m, c)
ScopesInv ==
  \A i \in incidents :
    LET bound == {m.scope : m \in i.members} \ {Unbound}
    IN  i.scope = IF bound = {} THEN Unbound ELSE CHOOSE b \in bound : TRUE

-----------------------------------------------------------------------------
(* What a session sees of an identity is one row, with its origin.          *)
LEMMA VisibleUnique ==
  ASSUME UniqueInv, NEW s \in Sessions, NEW x \in Visible(s), NEW y \in Visible(s),
         Identity(x.record) = Identity(y.record)
  PROVE  x = y
BY DEF UniqueInv, Visible

LEMMA VerifiedUnique ==
  ASSUME UniqueInv, NEW s \in Sessions, NEW p, NEW q, Verified(s, p), Verified(s, q),
         Identity(p) = Identity(q)
  PROVE  p = q
BY VisibleUnique DEF Verified

LEMMA VerifiedStored ==
  ASSUME UniqueInv, NEW s \in Sessions, NEW p, Verified(s, p)
  PROVE  Matching(s, Identity(p)) # {} /\ StoredRecord(s, Identity(p)) = p
<1>1. Matching(s, Identity(p)) # {}
  BY DEF Verified, Matching
<1>2. Verified(s, StoredRecord(s, Identity(p))) /\ Identity(StoredRecord(s, Identity(p))) = Identity(p)
  BY <1>1, Found
<1> QED BY <1>1, <1>2, VerifiedUnique

LEMMA VisibleOrigin ==
  ASSUME OriginInv, NEW s \in Sessions, NEW x \in Visible(s)
  PROVE  Origin(x.record) /\ Stamped(x, Visible(s))
<1>1. CASE x \in rows
  BY <1>1 DEF OriginInv, Stamped, Visible
<1>2. CASE x \in pending[s]
  BY <1>2 DEF OriginInv
<1> QED BY <1>1, <1>2 DEF Visible

LEMMA ParentsVisible ==
  ASSUME LineageInv, NEW s \in Sessions, NEW r, Verified(s, r), NEW p \in r.refs
  PROVE  Verified(s, p)
BY DEF LineageInv, Verified, Visible

LEMMA VerifiedOrigin ==
  ASSUME OriginInv, LineageInv, NEW s \in Sessions, NEW r, Verified(s, r)
  PROVE  Origin(r) /\ \A p \in r.refs : Verified(s, p)
<1>1. Origin(r)
  BY VisibleOrigin DEF Verified
<1> QED BY <1>1, ParentsVisible

-----------------------------------------------------------------------------
(* A case that comes to its correlation, or is past it, has seen its event  *)
(* and its telemetry in the store as they are in the case.                  *)
LEMMA InputsVerified ==
  ASSUME EvidenceInv, ProgressInv, NEW s \in Sessions,
         NEW what \in {"correlation", "qualify", "link"}, At(s, what)
  PROVE  /\ Case(s).event # None => Verified(s, RawRecord(Case(s)))
         /\ \A t \in TelemetryOf(Case(s)) : Verified(s, t)
<1> DEFINE c == Case(s)
           k == driver[s].transaction
<1>1. /\ Running(s) /\ WellFormedCase(c) /\ ~c.post /\ k \in 1..Len(Plan(c))
      /\ what = "correlation" => k = Skipped(c) + Len(c.telemetry) + 1
      /\ what # "correlation" => k > Skipped(c) + Len(c.telemetry) + Ruled(c)
  BY AtPlace DEF EvidenceInv
<1>2. /\ Len(c.telemetry) \in Nat /\ Skipped(c) \in Nat /\ Ruled(c) \in Nat /\ Len(Plan(c)) \in Nat
      /\ DOMAIN c.telemetry = 1..Len(c.telemetry)
  BY <1>1, PlanShape DEF WellFormedCase, Skipped, Ruled
<1>3. k > Skipped(c) + Len(c.telemetry) /\ k \in Nat
  BY <1>1, <1>2
<1>4. \A i \in 1..Len(Plan(c)) : \A j \in 1..Len(Plan(c)[i]) :
        i < k => Obtained(s, i, Plan(c)[i][j])
  BY <1>1 DEF ProgressInv, ProgressOf, Passed
<1>5. ASSUME c.event # None PROVE Verified(s, RawRecord(c))
  <2>1. Len(Plan(c)) >= 3 /\ Plan(c)[1] = <<"raw">> /\ Skipped(c) = 3
    BY <1>1, <1>5, PlanOrder DEF Skipped
  <2>2. 1 < k /\ 1 \in 1..Len(Plan(c)) /\ 1 \in 1..Len(Plan(c)[1]) /\ Plan(c)[1][1] = "raw"
    BY <1>2, <1>3, <2>1
  <2>3. Obtained(s, 1, Plan(c)[1][1])
    BY <1>4, <2>2
  <2> QED BY <2>2, <2>3 DEF Obtained
<1>6. ASSUME NEW i \in DOMAIN c.telemetry PROVE Verified(s, c.telemetry[i])
  <2> DEFINE n == Skipped(c) + i
  <2>1. n \in 1..Len(Plan(c)) /\ Plan(c)[n] = <<"telemetry">>
    BY <1>1, <1>6, PlanOrder
  <2>2. n < k /\ n - Skipped(c) = i
    BY <1>2, <1>3, <1>6
  <2>3. 1 \in 1..Len(Plan(c)[n]) /\ Plan(c)[n][1] = "telemetry"
    BY <2>1
  <2>4. Obtained(s, n, Plan(c)[n][1])
    <3> HIDE DEF n, k
    <3> QED BY <1>4, <2>1, <2>2, <2>3
  <2> HIDE DEF n
  <2> QED BY <2>2, <2>3, <2>4 DEF Obtained
<1> QED BY <1>5, <1>6 DEF TelemetryOf

(* The correlation of a case is made of the case and its stored chain.      *)
LEMMA CaseCorrelation ==
  ASSUME EvidenceInv, ProgressInv, RecordInv, NEW s \in Sessions,
         NEW what \in {"correlation", "qualify", "link"}, At(s, what), Case(s).rule # None,
         \A id \in CyberIds(Case(s)) : Matching(s, id) # {}
  PROVE  /\ CorrelationFor(CorrelationRecord(s), Case(s))
         /\ \A p \in CorrelationRecord(s).refs : Verified(s, p)
<1> DEFINE c == Case(s)
           r == CorrelationRecord(s)
           samples == {StoredRecord(s, Identity(t)) : t \in TelemetryOf(c)}
           chain == Parents(s, CyberIds(c))
<1>1. /\ WellFormedCase(c) /\ c \in AllCases
  BY AtPlace DEF EvidenceInv
<1>2. /\ c.event # None => Verified(s, RawRecord(c))
      /\ \A t \in TelemetryOf(c) : Verified(s, t)
  BY InputsVerified
<1>3. \A t \in TelemetryOf(c) : StoredRecord(s, Identity(t)) = t
  BY <1>2, VerifiedStored DEF EvidenceInv
<1>4. samples = TelemetryOf(c)
  BY <1>3
<1>5. \A id \in CyberIds(c) : Verified(s, StoredRecord(s, id)) /\ Identity(StoredRecord(s, id)) = id
  BY Found
<1>6. \A p \in chain : Verified(s, p) /\ Identity(p) \in CyberIds(c)
  BY <1>5 DEF Parents
<1>7. \A p \in chain : p.kind # "telemetry"
  BY <1>6 DEF CyberIds, RawId, SemanticId, ContextId, FindingId, Identity
<1>8. \A t \in TelemetryOf(c) : t.kind = "telemetry"
  BY <1>1 DEF WellFormedCase
<1>9. /\ Identity(RawRecord(c)) = RawId(c) /\ RawRecord(c).observed = c.command
      /\ RawRecord(c).kind = "raw"
  BY DEF RawRecord, Record, Identity, RawId
<1>10. c.event # None => RawRecord(c) \in chain /\ RawId(c) \in CyberIds(c)
  <2>1. c.event # None => StoredRecord(s, RawId(c)) = RawRecord(c)
    BY <1>2, <1>9, VerifiedStored DEF EvidenceInv
  <2> QED BY <2>1 DEF Parents, CyberIds
<1>11. \A p \in chain : p.kind = "raw" => p.observed = c.command
  <2>1. ASSUME NEW p \in chain, p.kind = "raw" PROVE p.observed = c.command
    <3>1. Identity(p) = RawId(c) /\ c.event # None
      BY <1>6, <2>1 DEF CyberIds, RawId, SemanticId, ContextId, FindingId, Identity
    <3>2. p = RawRecord(c)
      BY <1>2, <1>6, <1>9, <2>1, <3>1, VerifiedUnique DEF EvidenceInv
    <3> QED BY <1>9, <3>2
  <2> QED BY <2>1
<1>12. IsFiniteSet(TelemetryOf(c) \cup chain)
  <2>1. IsFiniteSet(TelemetryOf(c))
    <3>1. c.telemetry \in Seq(TelemetryOf(c))
      BY <1>1 DEF WellFormedCase
    <3>2. Len(c.telemetry) \in Nat /\ DOMAIN c.telemetry = 1..Len(c.telemetry)
      BY <3>1
    <3>3. IsFiniteSet(1..Len(c.telemetry))
      BY <3>2, FS_Interval
    <3>4. TelemetryOf(c) = {c.telemetry[i] : i \in 1..Len(c.telemetry)}
      BY <3>2 DEF TelemetryOf
    <3> QED BY <3>3, <3>4, FiniteImage
  <2>2. IsFiniteSet(chain)
    <3> DEFINE f == [id \in CyberIds(c) |-> StoredRecord(s, id)]
    <3>1. IsFiniteSet(CyberIds(c))
      <4>1. CyberIds(c) \subseteq ({RawId(c)} \cup {SemanticId(c)}) \cup ({ContextId(c)} \cup {FindingId(c)})
        BY DEF CyberIds
      <4>2. IsFiniteSet(({RawId(c)} \cup {SemanticId(c)}) \cup ({ContextId(c)} \cup {FindingId(c)}))
        BY FS_Singleton, FS_Union
      <4> QED BY <4>1, <4>2, FS_Subset
    <3>2. chain = {f[id] : id \in CyberIds(c)}
      BY DEF Parents
    <3> HIDE DEF f, chain
    <3> QED BY <3>1, <3>2, FiniteImage
  <2> QED BY <2>1, <2>2, FS_Union
<1>13. SamplesIn(TelemetryOf(c) \cup chain) = TelemetryOf(c)
  BY <1>7, <1>8 DEF SamplesIn
<1>14. r = CorrelationOf(c, TelemetryOf(c) \cup chain)
  <2> DEFINE Made(d, S, R) ==
        Record("correlation", "1.0.0",
               <<d.rule, Consistency(S, d.command).scope, {Identity(p) : p \in R}>>,
               [reason |-> Consistency(S, d.command).reason], R,
               Consistency(S, d.command).scope, Latest({t.observed : t \in S}, d.command))
  <2>1. r = Made(c, samples, samples \cup chain)
    BY DEF CorrelationRecord
  <2>2. CorrelationOf(c, TelemetryOf(c) \cup chain)
          = Made(c, SamplesIn(TelemetryOf(c) \cup chain), TelemetryOf(c) \cup chain)
    BY DEF CorrelationOf
  <2> HIDE DEF Made, samples, chain, r, c
  <2> QED BY <1>4, <1>13, <2>1, <2>2
<1>15. r.refs = TelemetryOf(c) \cup chain
  BY <1>14 DEF CorrelationOf, Record
<1> HIDE DEF r, chain
<1>16. CorrelationFor(r, c)
  BY <1>6, <1>8, <1>9, <1>10, <1>11, <1>12, <1>13, <1>14, <1>15 DEF CorrelationFor
<1> QED BY <1>2, <1>6, <1>15, <1>16 DEF r

(* Hence every stage derives a record of this origin.                       *)
LEMMA EnvelopeOrigin ==
  ASSUME EvidenceInv, ProgressInv, RecordInv, OriginInv, NEW s \in Sessions,
         NEW kind \in Kinds, At(s, kind), CanDerive(s)
  PROVE  /\ Origin(Envelope(s)) /\ Envelope(s).kind = kind
         /\ kind = "semantic" =>
              \E y \in Visible(s) : /\ y.record \in Envelope(s).refs
                                    /\ Envelope(s).body.created = y.received
<1> DEFINE c == Case(s)
           r == Envelope(s)
<1>1. /\ kind = "raw" => r = RawRecord(c)
      /\ kind = "semantic" => r = SemanticRecord(s)
      /\ kind = "context" => r = ContextRecord(s)
      /\ kind = "finding" => r = FindingRecord(s)
      /\ kind = "correlation" =>
           r = CorrelationRecord(s) /\ \A id \in CyberIds(c) : Matching(s, id) # {}
      /\ kind = "telemetry" => r = c.telemetry[driver[s].transaction - Skipped(c)]
  BY EnvelopeIs DEF EvidenceInv
<1>2. /\ WellFormedCase(c) /\ c \in AllCases
      /\ kind = "raw" => c.event # None
      /\ kind = "telemetry" => driver[s].transaction - Skipped(c) \in DOMAIN c.telemetry
      /\ kind = "correlation" => c.rule # None
  BY AtPlace DEF EvidenceInv
<1>3. ASSUME NEW j, At(s, j) PROVE j = kind
  BY <1>3 DEF At
<1>4. ASSUME NEW id, Matching(s, id) # {}
      PROVE  /\ Identity(StoredRecord(s, id)) = id /\ Stored(s, id) \in Visible(s)
             /\ StoredRecord(s, id) = Stored(s, id).record
  BY <1>4, Found DEF StoredRecord
<1>5. CASE kind = "raw"
  <2>1. r = RawRecord(c) /\ r.kind = "raw"
    BY <1>1, <1>5 DEF RawRecord, Record
  <2> HIDE DEF r
  <2>2. Origin(r)
    BY <1>2, <1>5, <2>1 DEF Origin, Kinds
  <2> QED BY <1>5, <2>1, <2>2 DEF r
<1>6. CASE kind = "semantic"
  <2> DEFINE raw == StoredRecord(s, RawId(c))
  <2>1. Matching(s, RawId(c)) # {}
    BY <1>3, <1>6 DEF CanDerive, ParentVerified
  <2>2. Is(raw, "raw", c.event) /\ raw.key = c.event
    BY <1>4, <2>1 DEF Is, RawId, Identity
  <2>3. r = SemanticOf(raw, Stored(s, RawId(c)).received)
    BY <1>1, <1>6, <2>2 DEF SemanticRecord, SemanticOf, StoredRecord
  <2>4. Stored(s, RawId(c)) \in Visible(s) /\ Stored(s, RawId(c)).record = raw
    BY <1>4, <2>1
  <2> HIDE DEF r, raw
  <2>5. /\ r.kind = "semantic" /\ r.key = c.event /\ r.refs = {raw}
        /\ r.body.created = Stored(s, RawId(c)).received
    BY <2>2, <2>3 DEF SemanticOf, Record
  <2>6. Origin(r)
    BY <2>2, <2>3, <2>5 DEF Origin, Kinds
  <2> QED BY <1>6, <2>4, <2>5, <2>6 DEF r
<1>7. ASSUME ParentVerified(s, SemanticId(c))
      PROVE  /\ Matching(s, SemanticId(c)) # {} /\ Matching(s, RawId(c)) # {}
  <2>1. /\ Identity(StoredRecord(s, SemanticId(c))) = SemanticId(c)
        /\ Stored(s, SemanticId(c)) \in Visible(s)
    BY <1>7, Found DEF ParentVerified
  <2>2. Shaped(StoredRecord(s, SemanticId(c)))
    BY <2>1, VisibleShaped DEF StoredRecord, EvidenceInv
  <2>3. \E p \in StoredRecord(s, SemanticId(c)).refs : Identity(p) = RawId(c)
    BY <2>1, <2>2 DEF Shaped, Identity, SemanticId, RawId
  <2> QED BY <1>7, <2>3, FoundThrough DEF ParentVerified
<1>8. CASE kind = "context"
  <2> DEFINE raw == StoredRecord(s, RawId(c))
             sem == StoredRecord(s, SemanticId(c))
  <2>1. Matching(s, SemanticId(c)) # {} /\ Matching(s, RawId(c)) # {}
    BY <1>3, <1>7, <1>8 DEF CanDerive
  <2>2. /\ Is(raw, "raw", c.event) /\ raw.key = c.event /\ Is(sem, "semantic", c.event)
    BY <1>4, <2>1 DEF Is, RawId, SemanticId, Identity
  <2>3. r = ContextOf(raw, sem, c.claims)
    BY <1>1, <1>8, <2>2 DEF ContextRecord, ContextOf, Parents
  <2> HIDE DEF r, raw, sem
  <2>5. /\ r.kind = "context" /\ r.key = c.event /\ r.refs = {raw, sem} /\ r.body.claims = c.claims
    BY <2>2, <2>3 DEF ContextOf, Record
  <2>6. Origin(r)
    BY <2>2, <2>3, <2>5 DEF Origin, Kinds
  <2> QED BY <1>8, <2>5, <2>6 DEF r
<1>9. CASE kind = "finding"
  <2> DEFINE raw == StoredRecord(s, RawId(c))
             sem == StoredRecord(s, SemanticId(c))
             con == StoredRecord(s, ContextId(c))
  <2>1. Matching(s, SemanticId(c)) # {} /\ Matching(s, RawId(c)) # {} /\ Matching(s, ContextId(c)) # {}
    BY <1>3, <1>7, <1>9 DEF CanDerive, ParentVerified
  <2>2. /\ Is(raw, "raw", c.event) /\ raw.key = c.event /\ Is(sem, "semantic", c.event)
        /\ Is(con, "context", c.event)
    BY <1>4, <2>1 DEF Is, RawId, SemanticId, ContextId, Identity
  <2>3. r = FindingOf(raw, sem, con)
    BY <1>1, <1>9, <2>2 DEF FindingRecord, FindingOf, Parents
  <2> HIDE DEF r, raw, sem, con
  <2>5. /\ r.kind = "finding" /\ r.key = c.event /\ r.refs = {raw, sem, con}
    BY <2>2, <2>3 DEF FindingOf, Record
  <2>6. Origin(r)
    BY <2>2, <2>3, <2>5 DEF Origin, Kinds
  <2> QED BY <1>9, <2>5, <2>6 DEF r
<1>10. CASE kind = "telemetry"
  <2>1. r \in TelemetryOf(c)
    BY <1>1, <1>2, <1>10 DEF TelemetryOf
  <2>2. r.kind = "telemetry"
    BY <1>2, <2>1 DEF WellFormedCase
  <2> HIDE DEF r
  <2> QED BY <1>10, <2>2 DEF Origin, Kinds, r
<1>11. CASE kind = "correlation"
  <2>1. CorrelationFor(r, c)
    BY <1>1, <1>2, <1>11, CaseCorrelation
  <2>2. r.kind = "correlation"
    BY <1>1, <1>11 DEF CorrelationRecord, Record
  <2> HIDE DEF r
  <2>3. Origin(r)
    BY <1>2, <2>1, <2>2 DEF Origin, Kinds
  <2> QED BY <1>11, <2>2, <2>3 DEF r
<1> QED BY <1>5, <1>6, <1>8, <1>9, <1>10, <1>11 DEF Kinds

-----------------------------------------------------------------------------
(* A record that is stored under the identity of a correlation which rests  *)
(* on stored parents is that correlation.                                   *)
LEMMA SameCorrelation ==
  ASSUME EvidenceInv, RecordInv, OriginInv, NEW s \in Sessions, NEW c \in AllCases,
         NEW q, CorrelationFor(q, c), \A p \in q.refs : Verified(s, p),
         NEW r, Verified(s, r), Identity(r) = Identity(q)
  PROVE  r = q
<1>1. /\ q.kind = "correlation"
      /\ q.key = <<c.rule, Consistency(SamplesIn(q.refs), c.command).scope, {Identity(p) : p \in q.refs}>>
  <2>1. q = CorrelationOf(c, q.refs)
    BY DEF CorrelationFor
  <2> QED BY <2>1 DEF CorrelationOf, Record
<1>2. r.kind = "correlation" /\ r.key = q.key
  BY <1>1 DEF Identity
<1>3. Origin(r) /\ \A p \in r.refs : Verified(s, p)
  BY VerifiedOrigin DEF EvidenceInv
<1>4. PICK d \in AllCases : CorrelationFor(r, d)
  BY <1>2, <1>3 DEF Origin
<1>5. r.key = <<d.rule, Consistency(SamplesIn(r.refs), d.command).scope, {Identity(p) : p \in r.refs}>>
  <2>1. r = CorrelationOf(d, r.refs)
    BY <1>4 DEF CorrelationFor
  <2> QED BY <2>1 DEF CorrelationOf, Record
<1>6. d.rule = c.rule /\ {Identity(p) : p \in r.refs} = {Identity(p) : p \in q.refs}
  BY <1>1, <1>2, <1>5
<1>7. r.refs = q.refs
  <2>1. ASSUME NEW p \in r.refs PROVE p \in q.refs
    <3>1. PICK u \in q.refs : Identity(u) = Identity(p)
      BY <1>6, <2>1
    <3> QED BY <1>3, <2>1, <3>1, VerifiedUnique DEF EvidenceInv
  <2>2. ASSUME NEW p \in q.refs PROVE p \in r.refs
    <3>1. PICK u \in r.refs : Identity(u) = Identity(p)
      BY <1>6, <2>2
    <3> QED BY <1>3, <2>2, <3>1, VerifiedUnique DEF EvidenceInv
  <2> QED BY <2>1, <2>2
<1>8. d.command = c.command
  <2>1. /\ WellFormedCase(c) /\ WellFormedCase(d) /\ c.rule # None /\ d.rule # None
    BY <1>4, CasesAssumption DEF AllCases, CorrelationFor
  <2>2. \A e : RawRecord(e).kind = "raw" /\ RawRecord(e).observed = e.command
    BY DEF RawRecord, Record
  <2>3. CASE c.event # None
    BY <1>4, <1>7, <2>2, <2>3 DEF CorrelationFor
  <2>4. CASE d.event # None
    BY <1>4, <1>7, <2>2, <2>4 DEF CorrelationFor
  <2>5. CASE c.event = None /\ d.event = None
    BY <2>1, <2>5 DEF WellFormedCase
  <2> QED BY <2>3, <2>4, <2>5
<1>9. r = CorrelationOf(d, r.refs) /\ q = CorrelationOf(c, q.refs)
  BY <1>4 DEF CorrelationFor
<1>10. CorrelationOf(d, q.refs) = CorrelationOf(c, q.refs)
  BY <1>6, <1>8 DEF CorrelationOf
<1> QED BY <1>7, <1>9, <1>10

-----------------------------------------------------------------------------
(* What was stamped stays so while rows are added.                          *)
LEMMA StampedGrows ==
  ASSUME NEW x, NEW S, NEW T, S \subseteq T, Stamped(x, S)
  PROVE  Stamped(x, T)
BY DEF Stamped

(* The store changes in one of three ways, or not at all.                   *)
LEMMA OriginInsert ==
  ASSUME EvidenceInv, ProgressInv, RecordInv, OriginInv, NEW s \in Sessions, IngestStep(s)
  PROVE  OriginInv'
<1>1. PICK r : r = Envelope(s)
  OBVIOUS
<1>2. PICK n : n = Row(r, Case(s).received)
  OBVIOUS
<1>3. /\ rows' = rows /\ \A o \in Sessions \ {s} : pending'[o] = pending[o]
      /\ pending'[s] = pending[s] \/ pending'[s] = pending[s] \union {n}
  BY <1>1, <1>2, IngestEffect
<1>4. n.record = r
  BY <1>2 DEF Row
<1>5. Origin(r) /\ Stamped(n, Visible(s))
  <2>1. PICK kind \in Kinds : At(s, kind)
    BY IngestEffect
  <2>2. CanDerive(s)
    BY IngestEffect
  <2>3. /\ Origin(r) /\ r.kind = kind
        /\ kind = "semantic" =>
              \E y \in Visible(s) : y.record \in r.refs /\ r.body.created = y.received
    BY <1>1, <2>1, <2>2, EnvelopeOrigin
  <2> QED BY <1>4, <2>3 DEF Stamped
<1>6. Visible(s) \subseteq Visible(s)' /\ \A o \in Sessions \ {s} : Visible(o)' = Visible(o)
  BY <1>3 DEF Visible
<1>7. ASSUME NEW o \in Sessions, NEW x \in pending'[o]
      PROVE  Origin(x.record) /\ Stamped(x, Visible(o)')
  <2>1. CASE x \in pending[o]
    <3>1. Origin(x.record) /\ Stamped(x, Visible(o))
      BY <2>1 DEF OriginInv
    <3>2. Visible(o) \subseteq Visible(o)'
      BY <1>6
    <3> QED BY <3>1, <3>2, StampedGrows
  <2>2. CASE x \notin pending[o]
    <3>1. o = s /\ x = n
      BY <1>3, <1>7, <2>2
    <3> QED BY <1>4, <1>5, <1>6, <3>1, StampedGrows
  <2> QED BY <2>1, <2>2
<1>8. \A x \in rows' : Origin(x.record) /\ Stamped(x, rows')
  BY <1>3 DEF OriginInv
<1> QED BY <1>7, <1>8 DEF OriginInv

LEMMA OriginCommit ==
  ASSUME OriginInv, pending = [o \in Sessions |-> pending[o]], NEW s \in Sessions, CommitRows(s)
  PROVE  OriginInv'
<1>1. /\ rows' = rows \union pending[s] /\ pending'[s] = {}
      /\ \A o \in Sessions \ {s} : pending'[o] = pending[o]
  BY DEF CommitRows
<1>2. rows' = Visible(s) /\ \A o \in Sessions \ {s} : Visible(o) \subseteq Visible(o)'
  BY <1>1 DEF Visible
<1>3. ASSUME NEW x \in rows' PROVE Origin(x.record) /\ Stamped(x, rows')
  BY <1>2, <1>3, VisibleOrigin
<1>4. ASSUME NEW o \in Sessions, NEW x \in pending'[o]
      PROVE  Origin(x.record) /\ Stamped(x, Visible(o)')
  <2>1. o \in Sessions \ {s} /\ x \in pending[o]
    BY <1>1, <1>4
  <2>2. Origin(x.record) /\ Stamped(x, Visible(o))
    BY <2>1 DEF OriginInv
  <2> QED BY <1>2, <2>1, <2>2, StampedGrows
<1> QED BY <1>3, <1>4 DEF OriginInv

LEMMA OriginRollback ==
  ASSUME OriginInv, pending = [o \in Sessions |-> pending[o]], NEW s \in Sessions, RollbackRows(s)
  PROVE  OriginInv'
<1>1. /\ rows' = rows /\ pending'[s] = {} /\ \A o \in Sessions \ {s} : pending'[o] = pending[o]
  BY DEF RollbackRows
<1>2. \A o \in Sessions \ {s} : Visible(o)' = Visible(o)
  BY <1>1 DEF Visible
<1>3. ASSUME NEW o \in Sessions, NEW x \in pending'[o]
      PROVE  Origin(x.record) /\ Stamped(x, Visible(o)')
  <2>1. o \in Sessions \ {s} /\ x \in pending[o]
    BY <1>1, <1>3
  <2> QED BY <1>2, <2>1 DEF OriginInv
<1> QED BY <1>1, <1>3 DEF OriginInv

LEMMA OriginFrame ==
  ASSUME OriginInv, UNCHANGED storeVars
  PROVE  OriginInv'
<1>1. rows' = rows /\ pending' = pending
  BY DEF storeVars
<1>2. \A o : Visible(o)' = Visible(o)
  BY <1>1 DEF Visible
<1> QED BY <1>1, <1>2 DEF OriginInv

LEMMA NextOrigin == EvidenceInv /\ ReaderInv /\ OriginInv /\ [Next]_vars => OriginInv'
<1> SUFFICES ASSUME EvidenceInv, ReaderInv, OriginInv, [Next]_vars PROVE OriginInv'
  OBVIOUS
<1>1. pending = [o \in Sessions |-> pending[o]]
  BY DEF EvidenceInv, PendingInv
<1>2. ASSUME NEW s \in Sessions, Work(s) \/ Crash(s) PROVE OriginInv'
  <2>1. CASE IngestStep(s)
    BY <2>1, OriginInsert DEF ReaderInv
  <2>2. CASE Commit(s)
    BY <1>1, <2>2, OriginCommit DEF Commit
  <2>3. CASE Refuse(s) \/ Crash(s)
    BY <1>1, <2>3, OriginRollback DEF Refuse, Crash
  <2>4. CASE Respond(s) \/ Qualify(s) \/ Link(s) \/ Activate(s)
    <3>1. UNCHANGED storeVars
      BY <2>4 DEF Respond, Qualify, Link, Activate
    <3> QED BY <3>1, OriginFrame
  <2> QED BY <1>2, <2>1, <2>2, <2>3, <2>4 DEF Work
<1>3. ASSUME UNCHANGED storeVars PROVE OriginInv'
  BY <1>3, OriginFrame
<1>4. ASSUME NEW s \in Sessions, NEW c \in Cases(s), Start(s, c) PROVE OriginInv'
  BY <1>3, <1>4 DEF Start
<1>5. ASSUME NEW list \in Lists, NEW scope \in Scopes, NEW run, OpenList(list, scope, run)
      PROVE  OriginInv'
  BY <1>3, <1>5 DEF OpenList
<1>6. CASE ReadNextPage
  BY <1>3, <1>6 DEF ReadNextPage
<1>7. CASE UNCHANGED vars
  BY <1>3, <1>7 DEF vars
<1> QED BY <1>2, <1>4, <1>5, <1>6, <1>7 DEF Next

LEMMA InitOrigin == Init => OriginInv
BY DEF Init, StoreInit, OriginInv

(* Every record in the store, committed or not, is what its stage makes of  *)
(* the parents it names (persist_semantic_evidence, persist_asset_context,  *)
(* persist_policy_finding, persist_correlation_finding).                    *)
THEOREM OriginInvariant == Spec => []OriginInv
BY InitOrigin, NextOrigin, EvidenceInvariant, ReaderInvariant, PTL DEF Spec

-----------------------------------------------------------------------------
(* Whoever derives a record from stored parents derives the stored one.     *)
LEMMA DerivedIsStored ==
  ASSUME EvidenceInv, ReaderInv, OriginInv, NEW s \in Sessions, NEW kind \in Kinds, At(s, kind),
         CanDerive(s), NEW y \in Visible(s), Identity(y.record) = Identity(Envelope(s)),
         kind \in {"raw", "context", "telemetry"} => y.record.body = Envelope(s).body
  PROVE  y.record = Envelope(s)
<1> DEFINE r == Envelope(s)
           z == y.record
<1>1. /\ Origin(r) /\ r.kind = kind /\ Sound(r)
      /\ kind = "semantic" =>
              \E x \in Visible(s) : x.record \in r.refs /\ r.body.created = x.received
  BY EnvelopeOrigin, EnvelopeIs DEF EvidenceInv, ReaderInv
<1>2. \A p \in r.refs : Verified(s, p)
  BY EnvelopeSound DEF AtIngest, EvidenceInv
<1>3. Verified(s, z)
  BY DEF Verified
<1>4. Origin(z) /\ \A p \in z.refs : Verified(s, p)
  BY <1>3, VerifiedOrigin DEF EvidenceInv
<1>5. z.kind = kind /\ z.key = r.key
  BY <1>1 DEF Identity
<1>6. ASSUME NEW p \in r.refs, NEW q \in z.refs, Identity(p) = Identity(q) PROVE p = q
  BY <1>2, <1>4, <1>6, VerifiedUnique DEF EvidenceInv
<1>7. CASE kind = "raw"
  <2>1. PICK c \in AllCases : c.event # None /\ r = RawRecord(c)
    BY <1>1, <1>7 DEF Origin
  <2>2. PICK d \in AllCases : d.event # None /\ z = RawRecord(d)
    BY <1>4, <1>5, <1>7 DEF Origin
  <2>3. \A e : /\ RawRecord(e).key = e.event /\ RawRecord(e).body = [meaning |-> e.meaning, bytes |-> e.bytes]
    BY DEF RawRecord, Record
  <2>4. c.event = d.event /\ c.meaning = d.meaning /\ c.bytes = d.bytes
    <3>1. r.body = z.body
      BY <1>7
    <3>2. r.body = [meaning |-> c.meaning, bytes |-> c.bytes]
      BY <2>1, <2>3
    <3>3. z.body = [meaning |-> d.meaning, bytes |-> d.bytes]
      BY <2>2, <2>3
    <3>4. c.event = d.event
      BY <1>5, <2>1, <2>2, <2>3
    <3> HIDE DEF r, z
    <3>5. r.body.meaning = c.meaning /\ r.body.bytes = c.bytes
      BY <3>2
    <3>6. z.body.meaning = d.meaning /\ z.body.bytes = d.bytes
      BY <3>3
    <3> QED BY <3>1, <3>4, <3>5, <3>6
  <2>5. c.command = d.command
    BY <2>1, <2>4, InputAssumption
  <2>6. RawRecord(c) = RawRecord(d)
    BY <2>4, <2>5 DEF RawRecord
  <2> QED BY <2>1, <2>2, <2>6
<1>8. CASE kind = "semantic"
  <2>1. PICK raw \in r.refs : Is(raw, "raw", r.key) /\ r = SemanticOf(raw, r.body.created)
    BY <1>1, <1>8 DEF Origin
  <2>2. PICK raw2 \in z.refs : Is(raw2, "raw", z.key) /\ z = SemanticOf(raw2, z.body.created)
    BY <1>4, <1>5, <1>8 DEF Origin
  <2>3. raw = raw2
    BY <1>5, <1>6, <2>1, <2>2 DEF Is
  <2>4. r.refs = {raw} /\ z.refs = {raw}
    BY <2>1, <2>2, <2>3 DEF SemanticOf, Record
  <2>5. PICK x \in Visible(s) : x.record \in r.refs /\ r.body.created = x.received
    BY <1>1, <1>8
  <2>6. PICK u \in Visible(s) : u.record \in z.refs /\ z.body.created = u.received
    BY <1>5, <1>8, VisibleOrigin DEF Stamped
  <2>7. x = u
    BY <2>4, <2>5, <2>6, VisibleUnique DEF EvidenceInv
  <2> QED BY <2>1, <2>2, <2>3, <2>5, <2>6, <2>7
<1>9. CASE kind = "context"
  <2>1. PICK raw \in r.refs, sem \in r.refs :
          /\ Is(raw, "raw", r.key) /\ Is(sem, "semantic", r.key)
          /\ r = ContextOf(raw, sem, r.body.claims)
    BY <1>1, <1>9 DEF Origin
  <2>2. PICK raw2 \in z.refs, sem2 \in z.refs :
          /\ Is(raw2, "raw", z.key) /\ Is(sem2, "semantic", z.key)
          /\ z = ContextOf(raw2, sem2, z.body.claims)
    BY <1>4, <1>5, <1>9 DEF Origin
  <2>3. raw = raw2 /\ sem = sem2
    BY <1>5, <1>6, <2>1, <2>2 DEF Is
  <2>4. r.body.claims = z.body.claims
    BY <1>9
  <2> QED BY <2>1, <2>2, <2>3, <2>4
<1>10. CASE kind = "finding"
  <2>1. PICK raw \in r.refs, sem \in r.refs, con \in r.refs :
          /\ Is(raw, "raw", r.key) /\ Is(sem, "semantic", r.key) /\ Is(con, "context", r.key)
          /\ r = FindingOf(raw, sem, con)
    BY <1>1, <1>10 DEF Origin
  <2>2. PICK raw2 \in z.refs, sem2 \in z.refs, con2 \in z.refs :
          /\ Is(raw2, "raw", z.key) /\ Is(sem2, "semantic", z.key) /\ Is(con2, "context", z.key)
          /\ z = FindingOf(raw2, sem2, con2)
    BY <1>4, <1>5, <1>10 DEF Origin
  <2>3. raw = raw2 /\ sem = sem2 /\ con = con2
    BY <1>5, <1>6, <2>1, <2>2 DEF Is
  <2> QED BY <2>1, <2>2, <2>3
<1>11. CASE kind = "telemetry"
  <2>1. Sound(z)
    BY DEF ReaderInv, RecordInv, Visible
  <2>2. r \in AllTelemetry /\ z \in AllTelemetry /\ r.body = z.body /\ Identity(r) = Identity(z)
    BY <1>1, <1>5, <1>11, <2>1 DEF Sound
  <2> QED BY <2>2, InputAssumption
<1>12. CASE kind = "correlation"
  <2>1. PICK c \in AllCases : CorrelationFor(r, c)
    BY <1>1, <1>12 DEF Origin
  <2> QED BY <1>2, <1>3, <2>1, SameCorrelation DEF ReaderInv
<1> QED BY <1>7, <1>8, <1>9, <1>10, <1>11, <1>12 DEF Kinds

(* A case that is run again, by whomever and whatever crashed before, meets *)
(* its own records as duplicates (_ingest_validated_evidence).              *)
THEOREM RerunTheorem == Spec => []RerunNeverConflicts
<1>1. ASSUME EvidenceInv, ReaderInv, OriginInv PROVE RerunNeverConflicts
  <2> SUFFICES ASSUME NEW s \in Sessions, AtIngest(s), CanDerive(s),
                      Outcome(s, Envelope(s)) = "identity_conflict"
               PROVE  /\ Envelope(s).kind \in {"raw", "context", "telemetry"}
                      /\ Stored(s, Identity(Envelope(s))).record.body # Envelope(s).body
    BY DEF RerunNeverConflicts
  <2>1. PICK kind \in Kinds : At(s, kind)
    BY DEF AtIngest
  <2>2. PICK r : r = Envelope(s)
    OBVIOUS
  <2>3. Matching(s, Identity(r)) # {} /\ ~Verified(s, r)
    BY <2>2 DEF Outcome
  <2>4. PICK y : y = Stored(s, Identity(r))
    OBVIOUS
  <2>5. y \in Visible(s) /\ Identity(y.record) = Identity(r)
    BY <2>3, <2>4, Found DEF StoredRecord
  <2>6. y.record # r
    BY <2>3, <2>5 DEF Verified
  <2>7. r.kind = kind
    BY <1>1, <2>1, <2>2, EnvelopeOrigin DEF ReaderInv
  <2>8. ~(kind \in {"raw", "context", "telemetry"} => y.record.body = r.body)
    BY <1>1, <2>1, <2>2, <2>5, <2>6, DerivedIsStored
  <2> QED BY <2>2, <2>4, <2>7, <2>8
<1> QED BY <1>1, EvidenceInvariant, ReaderInvariant, OriginInvariant, PTL

-----------------------------------------------------------------------------
(* The closure of roots that lie in a set which has the parents of its      *)
(* accepted records is within that set.                                     *)
LEMMA ClosureWithin ==
  ASSUME NEW roots, NEW scope, NEW H, roots \subseteq H,
         \A v \in H : Accepted(v, scope) => v.refs \subseteq H
  PROVE  VerifiedClosure(roots, scope) \subseteq H
<1> DEFINE Step(S) == S \cup UNION {v.refs : v \in {u \in S : Accepted(u, scope)}}
           Solves(f) == f = [n \in 0..LineageDepth |-> IF n = 0 THEN roots ELSE Step(f[n - 1])]
           V1 == Step(roots)
           V2 == Step(V1)
           V3 == Step(V2)
           V4 == Step(V3)
           V5 == Step(V4)
           g == [n \in 0..LineageDepth |->
                   IF n = 0 THEN roots ELSE IF n = 1 THEN V1 ELSE IF n = 2 THEN V2
                   ELSE IF n = 3 THEN V3 ELSE IF n = 4 THEN V4 ELSE V5]
           f == CHOOSE f : Solves(f)
<1>1. VerifiedClosure(roots, scope) = f[LineageDepth]
  BY DEF VerifiedClosure
<1>2. \A S : S \subseteq H => Step(S) \subseteq H
  OBVIOUS
<1> HIDE DEF Step
<1>3. 0..LineageDepth = {0, 1, 2, 3, 4, 5}
  BY DEF LineageDepth
<1>4. /\ g[0] = roots /\ g[1] = Step(g[0]) /\ g[2] = Step(g[1]) /\ g[3] = Step(g[2])
      /\ g[4] = Step(g[3]) /\ g[5] = Step(g[4])
  BY <1>3
<1>5. g = [n \in 0..LineageDepth |-> g[n]]
  OBVIOUS
<1> HIDE DEF g
<1>6. \A n \in 0..LineageDepth : g[n] = IF n = 0 THEN roots ELSE Step(g[n - 1])
  BY <1>3, <1>4
<1>7. Solves(g)
  BY <1>5, <1>6
<1>8. Solves(f)
  <2> HIDE DEF Solves
  <2> QED BY <1>7
<1> HIDE DEF f
<1>9. \A n \in 0..LineageDepth : f[n] = IF n = 0 THEN roots ELSE Step(f[n - 1])
  BY <1>8
<1>10. /\ f[0] = roots /\ f[1] = Step(f[0]) /\ f[2] = Step(f[1]) /\ f[3] = Step(f[2])
       /\ f[4] = Step(f[3]) /\ f[5] = Step(f[4])
  BY <1>3, <1>9
<1>11. f[1] \subseteq H /\ f[2] \subseteq H
  BY <1>2, <1>10
<1>12. f[3] \subseteq H /\ f[4] \subseteq H
  BY <1>2, <1>10, <1>11
<1>13. f[5] \subseteq H
  BY <1>2, <1>10, <1>12
<1> QED BY <1>1, <1>13 DEF LineageDepth

-----------------------------------------------------------------------------
Committed(r) == \E x \in rows : x.record = r
Cyber(r) == r.kind \in {"raw", "semantic", "context", "finding"}

(* Committed records are unique, and their parents are committed.           *)
LEMMA CommittedFacts ==
  ASSUME EvidenceInv, OriginInv, NEW r, Committed(r)
  PROVE  /\ Origin(r)
         /\ \A p \in r.refs : Committed(p)
         /\ \A q : Committed(q) /\ Identity(q) = Identity(r) => q = r
BY DEF EvidenceInv, OriginInv, LineageInv, UniqueInv, Committed

(* The chain of an event belongs to no run, is observed at one time, and is *)
(* ranked in the order of its derivation.                                   *)
LEMMA CyberLineage ==
  ASSUME EvidenceInv, OriginInv, NEW v, Committed(v), Cyber(v)
  PROVE  /\ v.scope = Unbound
         /\ \A p \in v.refs : /\ Committed(p) /\ Cyber(p)
                              /\ p.observed = v.observed /\ EventRank(p.kind) < EventRank(v.kind)
         /\ \E raw : Committed(raw) /\ Is(raw, "raw", v.key) /\ raw.observed = v.observed
<1>1. Origin(v) /\ \A p \in v.refs : Committed(p)
  BY CommittedFacts
<1>2. ASSUME NEW p, NEW q, Committed(p), Committed(q), Identity(p) = Identity(q) PROVE p = q
  BY <1>2, CommittedFacts
<1>3. /\ EventRank("raw") = 10 /\ EventRank("semantic") = 20 /\ EventRank("context") = 30
      /\ EventRank("finding") = 40
  BY DEF EventRank
<1>4. ASSUME NEW x, NEW kind, NEW key, Is(x, kind, key) PROVE x.kind = kind /\ x.key = key
  BY <1>4 DEF Is, Identity
<1>5. ASSUME NEW sem, Committed(sem), sem.kind = "semantic", NEW raw, Committed(raw),
             Is(raw, "raw", sem.key)
      PROVE  sem.observed = raw.observed
  <2>1. PICK r2 \in sem.refs : Is(r2, "raw", sem.key) /\ sem = SemanticOf(r2, sem.body.created)
    BY <1>5, CommittedFacts DEF Origin
  <2>2. Committed(r2)
    BY <1>5, <2>1, CommittedFacts
  <2>3. r2 = raw
    BY <1>2, <1>5, <2>1, <2>2 DEF Is
  <2> QED BY <2>1, <2>3 DEF SemanticOf, Record
<1>6. ASSUME NEW con, Committed(con), con.kind = "context", NEW sem, Committed(sem),
             Is(sem, "semantic", con.key)
      PROVE  con.observed = sem.observed
  <2>1. PICK r2 \in con.refs, s2 \in con.refs :
          Is(s2, "semantic", con.key) /\ con = ContextOf(r2, s2, con.body.claims)
    BY <1>6, CommittedFacts DEF Origin
  <2>2. Committed(s2)
    BY <1>6, <2>1, CommittedFacts
  <2>3. s2 = sem
    BY <1>2, <1>6, <2>1, <2>2 DEF Is
  <2> QED BY <2>1, <2>3 DEF ContextOf, Record
<1>7. CASE v.kind = "raw"
  <2>1. PICK c \in AllCases : v = RawRecord(c)
    BY <1>1, <1>7 DEF Origin
  <2>2. v.scope = Unbound /\ v.refs = {} /\ Is(v, "raw", v.key)
    BY <2>1 DEF RawRecord, Record, Is, Identity
  <2> QED BY <2>2
<1>8. CASE v.kind = "semantic"
  <2>1. PICK raw \in v.refs : Is(raw, "raw", v.key) /\ v = SemanticOf(raw, v.body.created)
    BY <1>1, <1>8 DEF Origin
  <2>2. v.scope = Unbound /\ v.refs = {raw} /\ v.observed = raw.observed
    BY <2>1 DEF SemanticOf, Record
  <2>3. raw.kind = "raw" /\ Committed(raw)
    BY <1>1, <1>4, <2>1
  <2> QED BY <1>3, <1>8, <2>1, <2>2, <2>3 DEF Cyber
<1>9. CASE v.kind = "context"
  <2>1. PICK raw \in v.refs, sem \in v.refs :
          /\ Is(raw, "raw", v.key) /\ Is(sem, "semantic", v.key)
          /\ v = ContextOf(raw, sem, v.body.claims)
    BY <1>1, <1>9 DEF Origin
  <2>2. v.scope = Unbound /\ v.refs = {raw, sem} /\ v.observed = sem.observed
    BY <2>1 DEF ContextOf, Record
  <2>3. /\ raw.kind = "raw" /\ Committed(raw) /\ sem.kind = "semantic" /\ sem.key = v.key
        /\ Committed(sem)
    BY <1>1, <1>4, <2>1
  <2>4. sem.observed = raw.observed
    BY <1>5, <2>1, <2>3
  <2>5. Cyber(raw) /\ Cyber(sem) /\ EventRank(raw.kind) < EventRank(v.kind)
        /\ EventRank(sem.kind) < EventRank(v.kind)
    BY <1>3, <1>9, <2>3 DEF Cyber
  <2> QED BY <2>1, <2>2, <2>3, <2>4, <2>5
<1>10. CASE v.kind = "finding"
  <2>1. PICK raw \in v.refs, sem \in v.refs, con \in v.refs :
          /\ Is(raw, "raw", v.key) /\ Is(sem, "semantic", v.key) /\ Is(con, "context", v.key)
          /\ v = FindingOf(raw, sem, con)
    BY <1>1, <1>10 DEF Origin
  <2>2. v.scope = Unbound /\ v.refs = {raw, sem, con} /\ v.observed = sem.observed
    BY <2>1 DEF FindingOf, Record
  <2>3. /\ raw.kind = "raw" /\ Committed(raw) /\ sem.kind = "semantic" /\ sem.key = v.key
        /\ Committed(sem) /\ con.kind = "context" /\ con.key = v.key /\ Committed(con)
    BY <1>1, <1>4, <2>1
  <2>4. sem.observed = raw.observed /\ con.observed = sem.observed
    BY <1>5, <1>6, <2>1, <2>3
  <2>5. /\ Cyber(raw) /\ Cyber(sem) /\ Cyber(con)
        /\ EventRank(raw.kind) < EventRank(v.kind) /\ EventRank(sem.kind) < EventRank(v.kind)
        /\ EventRank(con.kind) < EventRank(v.kind)
    BY <1>3, <1>10, <2>3 DEF Cyber
  <2> QED BY <2>1, <2>2, <2>3, <2>4, <2>5
<1> QED BY <1>7, <1>8, <1>9, <1>10 DEF Cyber

(* The parents of a correlation are the telemetry of its case and cyber     *)
(* records observed at the time of the command.                             *)
LEMMA CorrelationLineage ==
  ASSUME EvidenceInv, OriginInv, NEW v, Committed(v), NEW c \in AllCases, CorrelationFor(v, c)
  PROVE  /\ SamplesIn(v.refs) = TelemetryOf(c)
         /\ \A p \in v.refs :
              /\ Committed(p)
              /\ p \in TelemetryOf(c) \/ (Cyber(p) /\ p.observed = c.command /\ c.event # None)
<1>1. SamplesIn(v.refs) = TelemetryOf(c)
  BY DEF CorrelationFor
<1>2. \A p \in v.refs : Committed(p)
  BY CommittedFacts
<1>3. ASSUME NEW p \in v.refs, p \notin TelemetryOf(c)
      PROVE  Cyber(p) /\ p.observed = c.command /\ c.event # None
  <2>1. Identity(p) \in CyberIds(c)
    BY <1>3 DEF CorrelationFor
  <2>2. Cyber(p) /\ p.key = c.event /\ c.event # None
    BY <2>1 DEF CyberIds, RawId, SemanticId, ContextId, FindingId, Identity, Cyber
  <2>3. RawRecord(c) \in v.refs /\ Is(RawRecord(c), "raw", c.event) /\ RawRecord(c).observed = c.command
    BY <2>2 DEF CorrelationFor, RawRecord, Record, Is, Identity
  <2>4. PICK raw : Committed(raw) /\ Is(raw, "raw", p.key) /\ raw.observed = p.observed
    BY <1>2, <1>3, <2>2, CyberLineage
  <2>5. Committed(RawRecord(c)) /\ Identity(RawRecord(c)) = Identity(raw)
    BY <1>2, <2>2, <2>3, <2>4 DEF Is
  <2>6. raw = RawRecord(c)
    BY <2>4, <2>5, CommittedFacts
  <2> QED BY <2>2, <2>3, <2>4, <2>6
<1> QED BY <1>1, <1>2, <1>3

-----------------------------------------------------------------------------
(* The scope of a correlation: it is that of every sample unless the        *)
(* configurations differ or it is bound to no run.                          *)
LEMMA OneElement ==
  ASSUME NEW S, IsFiniteSet(S), ~(Cardinality(S) > 1), NEW x \in S, NEW y \in S
  PROVE  x = y
<1>1. Cardinality(S) \in Nat
  BY FS_CardinalityType
<1>2. Cardinality(S) # 0
  BY FS_EmptySet
<1>3. Cardinality(S) = 1
  BY <1>1, <1>2
<1>4. \E z : S = {z}
  BY <1>3, FS_Singleton
<1> QED BY <1>4

LEMMA ScopeIsShared ==
  ASSUME NEW S, IsFiniteSet(S), NEW command,
         \A t \in S : t.scope = <<t.scope[1], t.scope[2]>>
  PROVE  LET verdict == Consistency(S, command)
         IN  /\ verdict.reason # "CONFIGURATION_MISMATCH" /\ verdict.scope[1] # None =>
                  \A t \in S : t.scope = verdict.scope
             /\ (\A t, u \in S : t.scope = u.scope) =>
                  \/ verdict.scope = Unbound
                  \/ \E t \in S : verdict.scope = t.scope
<1> DEFINE runs == {t.scope[1] : t \in S}
           configurations == {t.scope[2] : t \in S}
           verdict == Consistency(S, command)
           f == [t \in S |-> t.scope[1]]
           g == [t \in S |-> t.scope[2]]
<1>1. IsFiniteSet(runs) /\ IsFiniteSet(configurations)
  <2>1. runs = {f[t] : t \in S} /\ configurations = {g[t] : t \in S}
    OBVIOUS
  <2> HIDE DEF runs, configurations, f, g
  <2> QED BY <2>1, FiniteImage
<1>2. Unbound[1] = None
  BY DEF Unbound
<1>3. CASE S = {}
  <2>1. verdict.scope = Unbound
    BY <1>3 DEF Consistency
  <2> QED BY <1>3, <2>1
<1>4. CASE S # {} /\ Cardinality(runs) > 1
  <2>1. verdict.scope = Unbound
    BY <1>4 DEF Consistency
  <2> QED BY <1>2, <2>1
<1>5. CASE S # {} /\ ~(Cardinality(runs) > 1) /\ Cardinality(runs) = 1
           /\ Cardinality(configurations) > 1
  <2>1. verdict.reason = "CONFIGURATION_MISMATCH"
    BY <1>5 DEF Consistency
  <2>2. ASSUME \A t, u \in S : t.scope = u.scope PROVE FALSE
    <3>1. PICK t \in S : TRUE
      BY <1>5
    <3>2. configurations = {t.scope[2]}
      BY <2>2, <3>1
    <3>3. Cardinality(configurations) = 1
      BY <3>2, FS_Singleton
    <3> QED BY <1>5, <3>3
  <2> QED BY <2>1, <2>2
<1>6. CASE S # {} /\ ~(Cardinality(runs) > 1)
           /\ ~(Cardinality(runs) = 1 /\ Cardinality(configurations) > 1)
  <2>1. verdict.scope = (CHOOSE t \in S : TRUE).scope
    BY <1>6 DEF Consistency
  <2>2. PICK u \in S : verdict.scope = u.scope
    BY <1>6, <2>1
  <2>3. Cardinality(runs) = 1
    <3>1. Cardinality(runs) \in Nat
      BY <1>1, FS_CardinalityType
    <3>2. runs # {}
      BY <1>6
    <3>3. Cardinality(runs) # 0
      <4> HIDE DEF runs
      <4> QED BY <1>1, <3>2, FS_EmptySet
    <3> QED BY <1>6, <3>1, <3>3
  <2>4. ASSUME NEW t \in S PROVE t.scope = u.scope
    <3>1. /\ t.scope[1] \in runs /\ u.scope[1] \in runs
          /\ t.scope[2] \in configurations /\ u.scope[2] \in configurations
      OBVIOUS
    <3>2. t.scope[1] = u.scope[1]
      <4> HIDE DEF runs
      <4> QED BY <1>1, <1>6, <3>1, OneElement
    <3>3. t.scope[2] = u.scope[2]
      <4> HIDE DEF configurations, runs
      <4> QED BY <1>1, <1>6, <2>3, <3>1, OneElement
    <3>4. t.scope = <<t.scope[1], t.scope[2]>> /\ u.scope = <<u.scope[1], u.scope[2]>>
      OBVIOUS
    <3> QED BY <3>2, <3>3, <3>4
  <2> QED BY <2>2, <2>4
<1> QED BY <1>3, <1>4, <1>5, <1>6

(* What a committed sample is.                                              *)
LEMMA SampleLineage ==
  ASSUME NEW c \in AllCases, NEW t \in TelemetryOf(c)
  PROVE  /\ t.kind = "telemetry" /\ t.refs = {} /\ t.observed \in Nat
         /\ t.scope = <<t.scope[1], t.scope[2]>>
<1>1. WellFormedCase(c)
  BY CasesAssumption DEF AllCases
<1> QED BY <1>1 DEF WellFormedCase

LEMMA SamplesFinite ==
  ASSUME NEW c \in AllCases
  PROVE  IsFiniteSet(TelemetryOf(c))
<1>1. WellFormedCase(c)
  BY CasesAssumption DEF AllCases
<1>2. c.telemetry \in Seq(TelemetryOf(c))
  BY <1>1 DEF WellFormedCase
<1>3. Len(c.telemetry) \in Nat /\ DOMAIN c.telemetry = 1..Len(c.telemetry)
  BY <1>2
<1>4. IsFiniteSet(1..Len(c.telemetry))
  BY <1>3, FS_Interval
<1>5. TelemetryOf(c) = {c.telemetry[i] : i \in 1..Len(c.telemetry)}
  BY <1>3 DEF TelemetryOf
<1> QED BY <1>4, <1>5, FiniteImage

LEMMA CorrelationFields ==
  ASSUME NEW c \in AllCases, NEW v, CorrelationFor(v, c)
  PROVE  /\ v.kind = "correlation"
         /\ v.scope = Consistency(TelemetryOf(c), c.command).scope
         /\ v.body.reason = Consistency(TelemetryOf(c), c.command).reason
         /\ v.observed = Latest({t.observed : t \in TelemetryOf(c)}, c.command)
<1>1. v = CorrelationOf(c, v.refs) /\ SamplesIn(v.refs) = TelemetryOf(c)
  BY DEF CorrelationFor
<1> DEFINE verdict == Consistency(SamplesIn(v.refs), c.command)
<1>2. /\ v.kind = "correlation" /\ v.scope = verdict.scope
      /\ v.body = [reason |-> verdict.reason]
      /\ v.observed = Latest({t.observed : t \in SamplesIn(v.refs)}, c.command)
  BY <1>1 DEF CorrelationOf, Record
<1> QED BY <1>1, <1>2

(* The replay of one correlation finding.                                   *)
LEMMA CorrelationReplay ==
  ASSUME EvidenceInv, OriginInv, NEW r, Committed(r), r.kind = "correlation",
         r.body.reason # "CONFIGURATION_MISMATCH"
  PROVE  ReplayForCorrelation(r) = {}
<1>1. PICK c \in AllCases : CorrelationFor(r, c)
  BY CommittedFacts DEF Origin
<1>2. /\ r.scope = Consistency(TelemetryOf(c), c.command).scope
      /\ r.body.reason = Consistency(TelemetryOf(c), c.command).reason
  BY <1>1, CorrelationFields
<1>3. r.scope[1] # None => \A t \in TelemetryOf(c) : t.scope = r.scope
  BY <1>2, SamplesFinite, SampleLineage, ScopeIsShared
<1>4. \A p \in r.refs : Committed(p) /\ (p \in TelemetryOf(c) \/ Cyber(p))
  BY <1>1, CorrelationLineage
<1> DEFINE Chain == {p \in {x.record : x \in rows} : Cyber(p)}
           H == {r} \cup (TelemetryOf(c) \cap r.refs) \cup Chain
<1>5. \A p : p \in Chain <=> Committed(p) /\ Cyber(p)
  BY DEF Committed
<1> HIDE DEF Chain
<1>6. \A v \in H : v.refs \subseteq H
  <2>1. r.refs \subseteq H
    BY <1>4, <1>5
  <2>2. \A v \in TelemetryOf(c) : v.refs = {}
    BY SampleLineage
  <2>3. \A v \in Chain : v.refs \subseteq Chain
    BY <1>5, CyberLineage
  <2> QED BY <2>1, <2>2, <2>3
<1>7. ASSUME NEW v \in H PROVE Accepted(v, r.scope)
  <2>1. Committed(v)
    BY <1>4, <1>5
  <2>2. CASE v \in Chain
    <3>1. v.scope = Unbound
      BY <1>5, <2>2, CyberLineage
    <3> QED BY <2>1, <3>1 DEF Accepted, Committed, Unbound
  <2>3. CASE v \in TelemetryOf(c)
    BY <1>3, <2>1, <2>3 DEF Accepted, Committed
  <2>4. CASE v = r
    BY <2>1, <2>4 DEF Accepted, Committed
  <2> QED BY <2>2, <2>3, <2>4
<1>8. VerifiedClosure({r}, r.scope) \subseteq H
  <2>1. {r} \subseteq H
    OBVIOUS
  <2> HIDE DEF H
  <2> QED BY <1>6, <2>1, ClosureWithin
<1> HIDE DEF H
<1> QED BY <1>7, <1>8 DEF ReplayForCorrelation, Gaps

-----------------------------------------------------------------------------
(* Only qualification changes incidents; what it adds are the finding and   *)
(* the correlation of its case.                                             *)
LEMMA RootsOrigin ==
  ASSUME EvidenceInv, ReaderInv, OriginInv, NEW s \in Sessions, At(s, "qualify"), NEW m \in Roots(s)
  PROVE  \/ m.kind = "finding"
         \/ /\ Case(s) \in AllCases /\ Case(s).incident # None
            /\ CorrelationFor(m, Case(s))
<1> DEFINE c == Case(s)
<1>1. c \in AllCases /\ c.incident # None
  BY AtPlace DEF EvidenceInv
<1>2. /\ c.event # None => \A id \in CyberIds(c) : Matching(s, id) # {}
      /\ c.rule # None => Matching(s, Identity(CorrelationRecord(s))) # {}
  BY RootsFound DEF ReaderInv
<1>3. \A id \in CyberIds(c) : Matching(s, id) # {}
  BY <1>2 DEF CyberIds
<1>4. CASE c.event # None /\ m = StoredRecord(s, FindingId(c))
  <2>1. Identity(m) = FindingId(c)
    BY <1>3, <1>4, Found DEF CyberIds
  <2> QED BY <2>1 DEF FindingId, Identity
<1>5. CASE c.rule # None /\ m = StoredRecord(s, Identity(CorrelationRecord(s)))
  <2>1. PICK q : q = CorrelationRecord(s)
    OBVIOUS
  <2>2. CorrelationFor(q, c) /\ \A p \in q.refs : Verified(s, p)
    BY <1>3, <1>5, <2>1, CaseCorrelation DEF ReaderInv
  <2>3. PICK id : id = Identity(q)
    OBVIOUS
  <2>4. Verified(s, m) /\ Identity(m) = Identity(q)
    BY <1>2, <1>5, <2>1, <2>3, Found
  <2>5. m = q
    BY <1>1, <2>2, <2>4, SameCorrelation DEF ReaderInv
  <2> QED BY <1>1, <2>2, <2>5
<1> QED BY <1>4, <1>5 DEF Roots

LEMMA QualifyMembers ==
  ASSUME EvidenceInv, ReaderInv, OriginInv, MembersInv, ScopesInv, NEW s \in Sessions, Qualify(s)
  PROVE  MembersInv' /\ ScopesInv'
<1> DEFINE c == Case(s)
           old == {i \in incidents : i.id = c.incident}
           members == Roots(s) \cup UNION {i.members : i \in old}
           bound == {m.scope : m \in members} \ {Unbound}
           n == [id |-> c.incident, members |-> members,
                 scope |-> IF bound = {} THEN Unbound ELSE CHOOSE b \in bound : TRUE,
                 time |-> Latest({m.observed : m \in members}, 0)]
<1>1. At(s, "qualify") /\ incidents' = (incidents \ old) \cup {n}
  BY DEF Qualify
<1>2. n.id = c.incident /\ n.members = members
      /\ n.scope = IF bound = {} THEN Unbound ELSE CHOOSE b \in bound : TRUE
  OBVIOUS
<1> HIDE DEF n
<1>3. ASSUME NEW m \in members
      PROVE  \/ m.kind = "finding"
             \/ \E d \in AllCases : d.incident # None /\ d.incident = n.id /\ CorrelationFor(m, d)
  <2>1. CASE m \in Roots(s)
    BY <1>1, <1>2, <2>1, RootsOrigin
  <2>2. CASE m \notin Roots(s)
    <3>1. PICK i \in old : m \in i.members
      BY <1>3, <2>2
    <3> QED BY <1>2, <3>1 DEF MembersInv
  <2> QED BY <2>1, <2>2
<1>4. n.scope = LET b == {m.scope : m \in n.members} \ {Unbound}
                IN  IF b = {} THEN Unbound ELSE CHOOSE a \in b : TRUE
  BY <1>2
<1> HIDE DEF members, bound
<1>5. MembersInv'
  BY <1>1, <1>2, <1>3 DEF MembersInv
<1>6. ScopesInv'
  BY <1>1, <1>4 DEF ScopesInv
<1> QED BY <1>5, <1>6

LEMMA NextMembers ==
  EvidenceInv /\ ReaderInv /\ OriginInv /\ MembersInv /\ ScopesInv /\ [Next]_vars
    => MembersInv' /\ ScopesInv'
<1> SUFFICES ASSUME EvidenceInv, ReaderInv, OriginInv, MembersInv, ScopesInv, [Next]_vars
             PROVE  MembersInv' /\ ScopesInv'
  OBVIOUS
<1>1. ASSUME UNCHANGED incidents PROVE MembersInv' /\ ScopesInv'
  BY <1>1 DEF MembersInv, ScopesInv
<1>2. ASSUME NEW s \in Sessions, Work(s) \/ Crash(s) PROVE MembersInv' /\ ScopesInv'
  <2>1. CASE Qualify(s)
    BY <2>1, QualifyMembers
  <2>2. CASE ~Qualify(s)
    <3>1. UNCHANGED incidents
      BY <1>2, <2>2 DEF Work, IngestStep, Refuse, Respond, Commit, Link, Activate, Crash
    <3> QED BY <1>1, <3>1
  <2> QED BY <2>1, <2>2
<1>3. ASSUME NEW s \in Sessions, NEW c \in Cases(s), Start(s, c) PROVE MembersInv' /\ ScopesInv'
  BY <1>1, <1>3 DEF Start
<1>4. ASSUME UNCHANGED pipeVars PROVE MembersInv' /\ ScopesInv'
  BY <1>1, <1>4 DEF pipeVars
<1>5. ASSUME NEW list \in Lists, NEW scope \in Scopes, NEW run, OpenList(list, scope, run)
      PROVE  MembersInv' /\ ScopesInv'
  BY <1>4, <1>5 DEF OpenList
<1>6. CASE ReadNextPage
  BY <1>4, <1>6 DEF ReadNextPage
<1>7. CASE UNCHANGED vars
  BY <1>4, <1>7 DEF vars
<1> QED BY <1>2, <1>3, <1>5, <1>6, <1>7 DEF Next

-----------------------------------------------------------------------------
(* What the replay of an incident can reach: its members, their samples and *)
(* the chains of events.                                                    *)
Reach(i) ==
  i.members \cup SamplesIn(UNION {m.refs : m \in i.members})
  \cup {p \in {x.record : x \in rows} : Cyber(p)}

LEMMA ReachIs ==
  ASSUME EvidenceInv, ReaderInv, OriginInv, MembersInv, ScopesInv, NEW i \in incidents,
         NEW v \in Reach(i)
  PROVE  /\ Committed(v)
         /\ \/ Cyber(v)
            \/ \E c \in AllCases : /\ c.incident # None /\ c.incident = i.id /\ c.rule # None
                                   /\ v \in TelemetryOf(c)
            \/ \E c \in AllCases : /\ c.incident # None /\ c.incident = i.id
                                   /\ v \in i.members /\ CorrelationFor(v, c)
<1>1. \A m \in i.members : Committed(m)
  BY DEF ReaderInv, IncidentsInv, IncidentOk, Committed
<1>2. CASE v \in i.members
  BY <1>1, <1>2 DEF MembersInv, Cyber
<1>3. CASE v \in SamplesIn(UNION {m.refs : m \in i.members})
  <2>1. PICK m \in i.members : v \in m.refs /\ v.kind = "telemetry"
    BY <1>3 DEF SamplesIn
  <2>2. Committed(v)
    BY <1>1, <2>1, CommittedFacts
  <2>3. CASE m.kind = "finding"
    <3>1. Cyber(v)
      BY <1>1, <2>1, <2>3, CyberLineage DEF Cyber
    <3> QED BY <2>2, <3>1
  <2>4. CASE \E c \in AllCases : c.incident # None /\ c.incident = i.id /\ CorrelationFor(m, c)
    BY <2>1, <2>2, <2>4 DEF CorrelationFor, SamplesIn
  <2> QED BY <2>3, <2>4 DEF MembersInv
<1>4. CASE v \in {p \in {x.record : x \in rows} : Cyber(p)}
  BY <1>4 DEF Committed
<1> QED BY <1>2, <1>3, <1>4 DEF Reach

LEMMA ReachIsClosed ==
  ASSUME EvidenceInv, ReaderInv, OriginInv, MembersInv, ScopesInv, NEW i \in incidents,
         NEW v \in Reach(i)
  PROVE  v.refs \subseteq Reach(i)
<1>1. \A p : Committed(p) /\ Cyber(p) => p \in Reach(i)
  BY DEF Reach, Committed
<1>2. CASE Cyber(v)
  BY <1>1, <1>2, ReachIs, CyberLineage
<1>3. CASE \E c \in AllCases : v \in TelemetryOf(c)
  BY <1>3, SampleLineage
<1>4. ASSUME NEW c \in AllCases, v \in i.members, CorrelationFor(v, c)
      PROVE  v.refs \subseteq Reach(i)
  <2>1. Committed(v)
    BY ReachIs
  <2>2. \A p \in v.refs : Committed(p) /\ (p \in TelemetryOf(c) \/ Cyber(p))
    BY <1>4, <2>1, CorrelationLineage
  <2>3. ASSUME NEW p \in v.refs, p \in TelemetryOf(c) PROVE p \in Reach(i)
    <3>1. p.kind = "telemetry"
      BY <2>3, SampleLineage
    <3> QED BY <1>4, <2>3, <3>1 DEF Reach, SamplesIn
  <2> QED BY <1>1, <2>2, <2>3
<1> QED BY <1>2, <1>3, <1>4, ReachIs

LEMMA ReachIsAccepted ==
  ASSUME EvidenceInv, ReaderInv, OriginInv, MembersInv, ScopesInv, NEW i \in incidents,
         NEW v \in Reach(i)
  PROVE  Accepted(v, i.scope)
<1> DEFINE Held(t) == \E c \in AllCases : /\ c.incident # None /\ c.incident = i.id
                                          /\ c.rule # None /\ t \in TelemetryOf(c)
<1>1. \A t, u : Held(t) /\ Held(u) => t.scope = u.scope
  BY QualificationAssumption
<1>2. ASSUME NEW m, NEW c \in AllCases, c.incident # None, c.incident = i.id, CorrelationFor(m, c)
      PROVE  m.scope = Unbound \/ \E t : Held(t) /\ m.scope = t.scope
  <2>1. m.scope = Consistency(TelemetryOf(c), c.command).scope /\ c.rule # None
    BY <1>2, CorrelationFields DEF CorrelationFor
  <2>2. \A t \in TelemetryOf(c) : Held(t)
    BY <1>2, <2>1
  <2>3. \A t, u \in TelemetryOf(c) : t.scope = u.scope
    BY <1>1, <2>2
  <2>4. m.scope = Unbound \/ \E t \in TelemetryOf(c) : m.scope = t.scope
    BY <2>1, <2>3, SamplesFinite, SampleLineage, ScopeIsShared
  <2> HIDE DEF Held
  <2> QED BY <2>2, <2>4
<1>3. \A m \in i.members : m.scope = Unbound \/ \E t : Held(t) /\ m.scope = t.scope
  <2> TAKE m \in i.members
  <2>1. CASE m.kind = "finding"
    <3>1. Committed(m) /\ Cyber(m)
      BY <2>1 DEF ReaderInv, IncidentsInv, IncidentOk, Committed, Cyber
    <3> QED BY <3>1, CyberLineage
  <2>2. CASE m.kind # "finding"
    <3>1. PICK c \in AllCases : c.incident # None /\ c.incident = i.id /\ CorrelationFor(m, c)
      BY <2>2 DEF MembersInv
    <3> HIDE DEF Held
    <3> QED BY <1>2, <3>1
  <2> QED BY <2>1, <2>2
<1>4. i.scope = Unbound \/ \E t : Held(t) /\ i.scope = t.scope
  <2> DEFINE bound == {m.scope : m \in i.members} \ {Unbound}
  <2>1. i.scope = IF bound = {} THEN Unbound ELSE CHOOSE b \in bound : TRUE
    BY DEF ScopesInv
  <2>2. i.scope = Unbound \/ i.scope \in bound
    <3> HIDE DEF bound
    <3> QED BY <2>1
  <2> HIDE DEF Held
  <2> QED BY <1>3, <2>2
<1>5. Committed(v)
  BY ReachIs
<1>6. v.scope = Unbound \/ \E t : Held(t) /\ v.scope = t.scope
  <2>1. CASE Cyber(v)
    BY <1>5, <2>1, CyberLineage
  <2>2. CASE Held(v)
    BY <2>2
  <2>3. CASE v \in i.members
    BY <1>3, <2>3
  <2> QED BY <2>1, <2>2, <2>3, ReachIs
<1>7. v.scope[1] # None /\ i.scope[1] # None => v.scope = i.scope
  <2> HIDE DEF Held
  <2> QED BY <1>1, <1>4, <1>6 DEF Unbound
<1> QED BY <1>5, <1>7 DEF Accepted, Committed

LEMMA ReplayWithin ==
  ASSUME EvidenceInv, ReaderInv, OriginInv, MembersInv, ScopesInv, NEW i \in incidents
  PROVE  VerifiedClosure(i.members, i.scope) \subseteq Reach(i)
<1>1. i.members \subseteq Reach(i)
  BY DEF Reach
<1> QED BY <1>1, ReachIsClosed, ClosureWithin

(* A record is shown after the records it was derived from.                 *)
LEMMA ReachIsOrdered ==
  ASSUME EvidenceInv, ReaderInv, OriginInv, MembersInv, ScopesInv, NEW i \in incidents,
         NEW v \in Reach(i), NEW p \in v.refs
  PROVE  ReplayBefore(p, v)
<1>1. Committed(v)
  BY ReachIs
<1>2. CASE Cyber(v)
  BY <1>1, <1>2, CyberLineage DEF ReplayBefore
<1>3. CASE \E c \in AllCases : v \in TelemetryOf(c)
  BY <1>3, SampleLineage
<1>4. ASSUME NEW c \in AllCases, c.incident # None, CorrelationFor(v, c)
      PROVE  ReplayBefore(p, v)
  <2> DEFINE times == {t.observed : t \in TelemetryOf(c)}
             f == [t \in TelemetryOf(c) |-> t.observed]
  <2>1. v.kind = "correlation" /\ v.observed = Latest(times, c.command) /\ c.rule # None
    BY <1>4, CorrelationFields DEF CorrelationFor
  <2>2. times \subseteq Nat /\ c.command \in Nat
    <3>1. WellFormedCase(c)
      BY CasesAssumption DEF AllCases
    <3> QED BY <3>1, SampleLineage DEF WellFormedCase
  <2>3. IsFiniteSet(times)
    <3>1. times = {f[t] : t \in TelemetryOf(c)}
      OBVIOUS
    <3> HIDE DEF times, f
    <3> QED BY <3>1, SamplesFinite, FiniteImage
  <2>4. /\ v.observed \in Nat
        /\ times = {} => v.observed = c.command
        /\ \A u \in times : u <= v.observed
    <3> HIDE DEF times
    <3> QED BY <2>1, <2>2, <2>3, LatestIsMaximum
  <2>5. p \in TelemetryOf(c) \/ (Cyber(p) /\ p.observed = c.command /\ c.event # None)
    BY <1>1, <1>4, CorrelationLineage
  <2>6. p.observed \in Nat /\ p.observed <= v.observed
    <3>1. CASE p \in TelemetryOf(c)
      BY <2>2, <2>4, <3>1
    <3>2. CASE p.observed = c.command /\ c.event # None /\ c.telemetry # <<>>
      <4>1. PICK t \in TelemetryOf(c) : t.observed >= c.command
        BY <1>4, <2>1, <3>2, QualificationAssumption
      <4>2. t.observed \in Nat /\ t.observed <= v.observed
        BY <2>2, <2>4
      <4> QED BY <2>2, <2>4, <3>2, <4>1, <4>2
    <3>3. CASE p.observed = c.command /\ c.telemetry = <<>>
      <4>1. times = {}
        BY <3>3 DEF TelemetryOf
      <4> HIDE DEF times
      <4> QED BY <2>2, <2>4, <3>3, <4>1
    <3> QED BY <2>5, <3>1, <3>2, <3>3
  <2>7. EventRank(p.kind) < EventRank(v.kind)
    <3>1. p.kind \in {"raw", "semantic", "context", "finding", "telemetry"}
      BY <2>5, SampleLineage DEF Cyber
    <3> QED BY <2>1, <3>1 DEF EventRank
  <2> QED BY <2>4, <2>6, <2>7 DEF ReplayBefore
<1> QED BY <1>2, <1>3, <1>4, ReachIs

-----------------------------------------------------------------------------
(* What incidents consist of, on top of the origin of every record.         *)
THEOREM MembersInvariant == Spec => [](MembersInv /\ ScopesInv)
<1>1. Init => MembersInv /\ ScopesInv
  BY DEF Init, MembersInv, ScopesInv
<1> QED BY <1>1, NextMembers, EvidenceInvariant, ReaderInvariant, OriginInvariant, PTL DEF Spec

(* The replay of a correlation finding or of an incident has no gaps, save  *)
(* for a finding about mixed configurations (replay_for_incident,           *)
(* replay_for_correlation, _verified_closure).                              *)
THEOREM CompleteReplayTheorem == Spec => []ReplayIsComplete
<1>1. ASSUME EvidenceInv, ReaderInv, OriginInv, MembersInv, ScopesInv PROVE ReplayIsComplete
  <2>1. ASSUME NEW x \in rows, x.record.kind = "correlation",
               x.record.body.reason # "CONFIGURATION_MISMATCH"
        PROVE  ReplayForCorrelation(x.record) = {}
    <3>1. Committed(x.record)
      BY DEF Committed
    <3> QED BY <1>1, <2>1, <3>1, CorrelationReplay
  <2>2. ASSUME NEW i \in incidents PROVE ReplayForIncident(i) = {}
    <3>1. VerifiedClosure(i.members, i.scope) \subseteq Reach(i)
      BY <1>1, ReplayWithin
    <3>2. \A v \in Reach(i) : Accepted(v, i.scope)
      BY <1>1, ReachIsAccepted
    <3> QED BY <3>1, <3>2 DEF ReplayForIncident, Gaps
  <2> QED BY <2>1, <2>2 DEF ReplayIsComplete
<1> QED BY <1>1, EvidenceInvariant, ReaderInvariant, OriginInvariant, MembersInvariant, PTL

(* The replay of an incident shows every record after the records it was    *)
(* derived from (_ordered_events).                                          *)
THEOREM OrderedReplayTheorem == Spec => []ReplayFollowsLineage
<1>1. ASSUME EvidenceInv, ReaderInv, OriginInv, MembersInv, ScopesInv PROVE ReplayFollowsLineage
  <2>1. ASSUME NEW i \in incidents, NEW v \in VerifiedClosure(i.members, i.scope), NEW p \in v.refs
        PROVE  ReplayBefore(p, v)
    <3>1. v \in Reach(i)
      BY <1>1, <2>1, ReplayWithin
    <3> QED BY <1>1, <2>1, <3>1, ReachIsOrdered
  <2> QED BY <2>1 DEF ReplayFollowsLineage
<1> QED BY <1>1, EvidenceInvariant, ReaderInvariant, OriginInvariant, MembersInvariant, PTL

=============================================================================
