---------------------------- MODULE PolicyProofs ----------------------------
(***************************************************************************)
(* Proofs about the decoder, the resolution of identities and the policy:  *)
(* for every event and every set of claims, what approval takes and which  *)
(* reason is given.                                                        *)
(***************************************************************************)
EXTENDS PolicyContext, FiniteSetTheorems, WellFoundedInduction, TLAPS

-----------------------------------------------------------------------------
(* Early returns.                                                           *)

\* A check decides if it applies and none before it does.
Decides(checks, k) ==
  /\ k \in DOMAIN checks /\ checks[k] # None
  /\ \A j \in DOMAIN checks : checks[j] # None => k <= j

\* The first check that applies is the one returned (FirstApplying).
LEMMA FirstDecides ==
  ASSUME NEW checks, NEW n \in Nat, DOMAIN checks = 1..n, NEW k \in 1..n, Decides(checks, k)
  PROVE  FirstApplying(checks) = checks[k]
<1> DEFINE applying == {i \in DOMAIN checks : checks[i] # None}
<1>1. k \in applying /\ \A j \in applying : k <= j
  BY DEF Decides
<1>2. applying \subseteq Nat
  OBVIOUS
<1>3. \A i \in applying : (\A j \in applying : i <= j) => i = k
  BY <1>1, <1>2
<1> HIDE DEF applying
<1>4. (CHOOSE i \in applying : \A j \in applying : i <= j) = k
  BY <1>1, <1>3
<1>5. applying # {}
  BY <1>1
<1> QED
  BY <1>4, <1>5 DEF FirstApplying, applying

\* If none applies, none is returned.
LEMMA NoneDecides ==
  ASSUME NEW checks, \A j \in DOMAIN checks : checks[j] = None
  PROVE  FirstApplying(checks) = None
BY DEF FirstApplying

\* If none is returned, none applies.
LEMMA AllChecksPassed ==
  ASSUME NEW checks, NEW n \in Nat, DOMAIN checks = 1..n, FirstApplying(checks) = None
  PROVE  \A m \in 1..n : checks[m] = None
<1> SUFFICES ASSUME NEW m \in 1..n, checks[m] # None PROVE FALSE
  OBVIOUS
<1> DEFINE applying == {i \in DOMAIN checks : checks[i] # None}
<1>1. m \in applying /\ applying \subseteq Nat /\ applying # {}
  OBVIOUS
<1> HIDE DEF applying
<1>2. PICK k \in applying : \A j \in applying : <<j, k>> \notin OpToRel(<, Nat)
  BY <1>1, NatLessThanWellFounded, WFMin
<1>3. \A j \in Nat : <<j, k>> \notin OpToRel(<, Nat) => ~(j < k)
  BY <1>1, <1>2 DEF OpToRel
<1>6. \A j \in applying : j \in Nat /\ k \in Nat /\ ~(j < k)
  BY <1>1, <1>2, <1>3
<1>4. \A j \in applying : k <= j
  BY <1>6
<1>5. Decides(checks, k) /\ k \in 1..n
  BY <1>2, <1>4 DEF Decides, applying
<1> QED
  BY <1>5, FirstDecides DEF Decides

LEMMA PairIn ==
  ASSUME NEW S, NEW T, NEW s \in S, NEW t \in T
  PROVE  <<s, t>> \in S \X T
OBVIOUS

\* A check that applies returns something.
LEMMA PairIsThere ==
  /\ \A s \in InterpretationStatus, r \in ReasonCode : <<s, r>> # None
  /\ \A s \in PolicyStatus, r \in PolicyReasonCode : <<s, r>> # None
<1>1. /\ None \notin InterpretationStatus \X ReasonCode
      /\ None \notin PolicyStatus \X PolicyReasonCode
  BY NoneAssumption
<1>2. ASSUME NEW S, NEW T, None \notin S \X T, NEW s \in S, NEW t \in T
      PROVE  <<s, t>> # None
  BY <1>2, PairIn
<1> QED
  BY <1>1, <1>2

-----------------------------------------------------------------------------
(* The decoder.                                                             *)

LEMMA RegisterIs ==
  \E top \in Nat : Register = 0..top /\ 5 <= top
<1>1. PICK top : top = 65535
  OBVIOUS
<1>2. top \in Nat /\ 5 <= top
  BY <1>1, SMT
<1>3. Register = 0..top
  BY <1>1, SMT DEF Register
<1> QED
  BY <1>2, <1>3

\* What the nine points of the profile have in common.
LEMMA PointFacts ==
  ASSUME NEW p \in Points
  PROVE  /\ p.table \in Tables /\ p.address \in Register /\ p.max \in Register
         /\ p.id # None /\ p.access \in {ReadOnly, Commandable}
         /\ p.functions \subseteq {2, 3, 4, 6}
         /\ \A f \in p.functions : Functions[f].table = p.table
         /\ p.access = ReadOnly <=> 6 \notin p.functions
<1>1. p.id # None
  BY NoneAssumption DEF AllPoints
<1>2. p.address \in {0, 1, 2, 3, 4, 5}
  BY DEF Points, Command, Measurement, State
<1>3. p.address \in Register
  BY <1>2, RegisterIs
<1>4. p.max \in Register
  BY ProfileIsValid DEF ValidProfile
<1>5. \/ p.access = ReadOnly /\ p.functions = {2} /\ p.table = "discrete_input"
      \/ p.access = ReadOnly /\ p.functions = {4} /\ p.table = "input_register"
      \/ p.access = Commandable /\ p.functions = {3, 6} /\ p.table = "holding_register"
  BY DEF Points, Command, Measurement, State
<1>6. /\ Functions[2].table = "discrete_input" /\ Functions[4].table = "input_register"
      /\ Functions[3].table = "holding_register" /\ Functions[6].table = "holding_register"
  BY DEF Functions, SupportedFunction
<1>7. ReadOnly # Commandable
  BY DEF ReadOnly, Commandable
<1>8. p.table \in Tables
  BY <1>5 DEF Tables
<1>9. \A f \in p.functions : Functions[f].table = p.table
  BY <1>5, <1>6
<1> QED
  BY <1>1, <1>3, <1>4, <1>5, <1>7, <1>8, <1>9

LEMMA FunctionFacts ==
  /\ DOMAIN Functions = {2, 3, 4, 6}
  /\ Functions[2].category = "READ" /\ Functions[3].category = "READ"
  /\ Functions[4].category = "READ" /\ Functions[6].category = "WRITE"
BY DEF Functions, SupportedFunction

\* The category of a function code (Category).
LEMMA Categories ==
  ASSUME NEW f
  PROVE  /\ Category(f) = "WRITE" <=> f = 6
         /\ Category(f) = "READ" <=> f \in {2, 3, 4}
BY FunctionFacts DEF Category, Known

LEMMA PointAtIs ==
  ASSUME NEW e
  PROVE  /\ PointAt(e) # None =>
              /\ PointAt(e) \in Points /\ e.unit = UnitId
              /\ PointAt(e).table = e.table /\ PointAt(e).address = e.address
         /\ \A p \in Points : e.unit = UnitId /\ p.table = e.table /\ p.address = e.address =>
              PointAt(e) = p
<1> DEFINE found == {p \in Points : e.unit = UnitId /\ p.table = e.table /\ p.address = e.address}
<1>1. PointAt(e) = IF found = {} THEN None ELSE CHOOSE p \in found : TRUE
  BY DEF PointAt
<1>8. \A p, q \in Points : p # q => <<p.table, p.address>> # <<q.table, q.address>>
  BY ProfileIsValid DEF ValidProfile
<1>2. \A p, q \in found : p = q
  BY <1>8
<1>3. found \subseteq Points
  OBVIOUS
<1>4. \A p \in found : e.unit = UnitId /\ p.table = e.table /\ p.address = e.address
  OBVIOUS
<1>5. \A p \in Points : e.unit = UnitId /\ p.table = e.table /\ p.address = e.address =>
        p \in found
  OBVIOUS
<1> HIDE DEF found
<1>6. ASSUME PointAt(e) # None
      PROVE  PointAt(e) \in found
  BY <1>1, <1>6
<1>7. ASSUME NEW p \in found
      PROVE  PointAt(e) = p
  BY <1>1, <1>2
<1> QED
  BY <1>3, <1>4, <1>5, <1>6, <1>7

\* The value is one that the point can hold (_decode_value).
LEMMA ValueErrorIs ==
  ASSUME NEW e \in Events, NEW p \in Points
  PROVE  /\ ValueError(e.raw, p) = None
            <=> e.raw.type = "int" /\ e.raw.value >= 0 /\ e.raw.value <= p.max
         /\ ValueError(e.raw, p) # None => ValueError(e.raw, p) \in ReasonCode
<1>1. e.raw.type \in {"none", "text", "boolean", "int"} /\ e.raw.value \in Int
  BY EventsAssumption
<1>2. PICK top \in Nat : Register = 0..top
  BY RegisterIs
<1>3. p.max \in 0..top
  BY <1>2, PointFacts
<1>4. None \notin ReasonCode
  BY NoneAssumption
<1>5. CASE e.raw.type = "none"
  BY <1>4, <1>5 DEF ValueError, ReasonCode
<1>6. CASE e.raw.type \in {"text", "boolean"}
  BY <1>4, <1>6 DEF ValueError, ReasonCode
<1>7. CASE e.raw.type = "int" /\ e.raw.value \notin Register
  BY <1>1, <1>2, <1>3, <1>4, <1>7 DEF ValueError, ReasonCode
<1>8. CASE e.raw.type = "int" /\ e.raw.value \in Register /\ e.raw.value > p.max
  BY <1>1, <1>2, <1>3, <1>4, <1>8 DEF ValueError, ReasonCode
<1>9. CASE e.raw.type = "int" /\ e.raw.value \in 0..p.max
  BY <1>1, <1>2, <1>3, <1>4, <1>9 DEF ValueError, ReasonCode
<1> QED
  BY <1>1, <1>2, <1>3, <1>5, <1>6, <1>7, <1>8, <1>9

LEMMA EnvelopePassed ==
  ASSUME NEW e \in Events
  PROVE  FirstApplying(Envelope(e)) = None
         <=> /\ e.verified /\ e.expectedProfile /\ e.protocol = 0 /\ Known(e.function)
             /\ e.table \in Tables /\ e.address \in Register
<1>1. DOMAIN Envelope(e) = 1..6
  BY DEF Envelope
<1>2. /\ <<"MALFORMED", "SOURCE_EVIDENCE_NOT_VERIFIED">> # None
      /\ <<"MALFORMED", "PROFILE_DIGEST_MISMATCH">> # None
      /\ <<"MALFORMED", "PROTOCOL_ID_INVALID">> # None
      /\ <<"UNSUPPORTED", "FUNCTION_NOT_SUPPORTED">> # None
      /\ <<"UNSUPPORTED", "FUNCTION_TABLE_MISMATCH">> # None
      /\ <<"MALFORMED", "ADDRESS_INVALID">> # None
  BY PairIsThere DEF InterpretationStatus, ReasonCode
<1>3. Envelope(e)[1] = None <=> e.verified
  BY <1>2 DEF Envelope, Check
<1>4. Envelope(e)[2] = None <=> e.expectedProfile
  BY <1>2 DEF Envelope, Check
<1>5. Envelope(e)[3] = None <=> e.protocol = 0
  BY <1>2 DEF Envelope, Check
<1>6. Envelope(e)[4] = None <=> Known(e.function)
  BY <1>2 DEF Envelope, Check
<1>7. Envelope(e)[5] = None <=> e.table \in Tables
  BY <1>2 DEF Envelope, Check
<1>8. Envelope(e)[6] = None <=> e.address \in Register
  BY <1>2 DEF Envelope, Check
<1>9. FirstApplying(Envelope(e)) = None
      <=> \A j \in 1..6 : Envelope(e)[j] = None
  BY <1>1, AllChecksPassed, NoneDecides
<1>10. (\A j \in 1..6 : Envelope(e)[j] = None)
       <=> /\ Envelope(e)[1] = None /\ Envelope(e)[2] = None /\ Envelope(e)[3] = None
           /\ Envelope(e)[4] = None /\ Envelope(e)[5] = None /\ Envelope(e)[6] = None
  OBVIOUS
<1> QED
  BY <1>3, <1>4, <1>5, <1>6, <1>7, <1>8, <1>9, <1>10

LEMMA TargetPassed ==
  ASSUME NEW e \in Events, NEW p \in Points
  PROVE  FirstApplying(Target(e, p)) = None
         <=> /\ Functions[e.function].table = e.table /\ e.function \in p.functions
             /\ e.raw.type = "int" /\ e.raw.value >= 0 /\ e.raw.value <= p.max
<1>1. DOMAIN Target(e, p) = 1..4
  BY DEF Target
<1>2. /\ <<"UNSUPPORTED", "FUNCTION_TABLE_MISMATCH">> # None
      /\ <<"UNMAPPED", "ADDRESS_NOT_IN_PROFILE">> # None
      /\ \A r \in ReasonCode : <<"MALFORMED", r>> # None
  BY PairIsThere DEF InterpretationStatus, ReasonCode
<1>3. p # None
  BY NoneAssumption
<1>4. PICK error : error = ValueError(e.raw, p)
  OBVIOUS
<1>5. Target(e, p)[1] = None <=> Functions[e.function].table = e.table
  BY <1>2 DEF Target, Check
<1>6. Target(e, p)[2] = None
  BY <1>2, <1>3 DEF Target, Check
<1>7. Target(e, p)[3] = None <=> e.function \in p.functions
  BY <1>2, <1>3 DEF Target, Check
<1>8. Target(e, p)[4] = IF error # None THEN <<"MALFORMED", error>> ELSE None
  BY <1>3, <1>4 DEF Target, Check
<1>9. error # None => error \in ReasonCode
  BY <1>4, ValueErrorIs
<1>10. Target(e, p)[4] = None <=> error = None
  BY <1>2, <1>8, <1>9
<1>11. FirstApplying(Target(e, p)) = None
       <=> \A j \in 1..4 : Target(e, p)[j] = None
  BY <1>1, AllChecksPassed, NoneDecides
<1>12. (\A j \in 1..4 : Target(e, p)[j] = None)
       <=> /\ Target(e, p)[1] = None /\ Target(e, p)[2] = None
           /\ Target(e, p)[3] = None /\ Target(e, p)[4] = None
  OBVIOUS
<1> QED
  BY <1>4, <1>5, <1>6, <1>7, <1>10, <1>11, <1>12, ValueErrorIs

LEMMA TargetMissed ==
  ASSUME NEW e
  PROVE  FirstApplying(Target(e, None)) # None
<1>1. DOMAIN Target(e, None) = 1..4
  BY DEF Target
<1>2. Target(e, None)[2] # None
  BY PairIsThere DEF Target, Check, InterpretationStatus, ReasonCode
<1>3. 4 \in Nat /\ 2 \in 1..4
  OBVIOUS
<1> QED
  BY <1>1, <1>2, <1>3, AllChecksPassed

\* The event is one that the point understands.
Fits(e, p) ==
  /\ e.verified /\ e.expectedProfile /\ e.protocol = 0 /\ e.unit = UnitId
  /\ p.table = e.table /\ p.address = e.address /\ e.function \in p.functions
  /\ e.raw.type = "int" /\ e.raw.value >= 0 /\ e.raw.value <= p.max

\* An event that fits a point is mapped to it.
LEMMA DecodedPoint ==
  ASSUME NEW e \in Events, NEW p \in Points, Fits(e, p)
  PROVE  /\ DecodeEvent(e).point = p.id /\ DecodeEvent(e).access = p.access
         /\ DecodeEvent(e).compatibility = "COMPATIBLE"
<1>1. PointAt(e) = p /\ p # None
  BY PointAtIs, NoneAssumption DEF Fits
<1>2. /\ Known(e.function) /\ e.table \in Tables /\ e.address \in Register
      /\ Functions[e.function].table = e.table
  BY PointFacts, FunctionFacts DEF Fits, Known
<1>3. FirstApplying(Envelope(e)) = None
  BY <1>2, EnvelopePassed DEF Fits
<1>4. ~NotCommandable(e, p)
  BY PointFacts, Categories DEF NotCommandable, Fits
<1>5. FirstApplying(Target(e, p)) = None
  BY <1>2, TargetPassed DEF Fits
<1>6. DecodeEvent(e) = BuildResult(e, "MAPPED", "NONE", "COMPATIBLE", p, e.raw.value)
  BY <1>1, <1>3, <1>4, <1>5 DEF DecodeEvent
<1> QED
  BY <1>1, <1>6 DEF BuildResult

LEMMA DecodedCategory ==
  ASSUME NEW e
  PROVE  DecodeEvent(e).category = Category(e.function)
BY DEF DecodeEvent, NeutralResult, BuildResult

\* An event is mapped to a point that it fits, or is a write that the point
\* does not allow.
LEMMA DecodedOtherwise ==
  ASSUME NEW e \in Events
  PROVE  \/ DecodeEvent(e).point = None
         \/ DecodeEvent(e).category = "WRITE" /\ DecodeEvent(e).compatibility = "INCOMPATIBLE"
         \/ \E p \in Points : Fits(e, p)
<1>1. CASE FirstApplying(Envelope(e)) # None
  BY <1>1 DEF DecodeEvent, NeutralResult, BuildResult
<1>2. CASE NotCommandable(e, PointAt(e)) /\ FirstApplying(Envelope(e)) = None
  BY <1>2 DEF DecodeEvent, BuildResult, NotCommandable
<1>3. CASE /\ FirstApplying(Envelope(e)) = None /\ ~NotCommandable(e, PointAt(e))
           /\ FirstApplying(Target(e, PointAt(e))) # None
  BY <1>3 DEF DecodeEvent, NeutralResult, BuildResult
<1>4. CASE /\ FirstApplying(Envelope(e)) = None
           /\ FirstApplying(Target(e, PointAt(e))) = None
  <2>1. PointAt(e) # None
    BY <1>4, TargetMissed
  <2>2. Fits(e, PointAt(e))
    BY <1>4, <2>1, PointAtIs, EnvelopePassed, TargetPassed DEF Fits
  <2> QED
    BY <2>1, <2>2, PointAtIs
<1> QED
  BY <1>1, <1>2, <1>3, <1>4

-----------------------------------------------------------------------------
(* Identities.                                                              *)

LEMMA AssetFields ==
  \A k, r, z : LET a == Asset(k, r, z) IN a.key = k /\ a.zone = z /\ a.enabled # FALSE
BY DEF Asset

\* The eleven assets.
LEMMA AssetList ==
  Assets =
    {Asset("PLC-01", "CONTROL_EXECUTION", "OT_CONTROL_ZONE"),
     Asset("HMI-01", "OPERATOR_INTERFACE", "OT_CONTROL_ZONE"),
     Asset("ENG-WS-01", "ENGINEERING_MAINTENANCE", "OT_CONTROL_ZONE"),
     Asset("IT-WS-01", "ENTERPRISE_USER", "IT_ZONE"),
     Asset("MON-01", "PASSIVE_MONITOR", "MONITORING_ZONE"),
     Asset("SOC-01", "ANALYST_PLATFORM", "SOC_ZONE"),
     Asset("TK-101", "PROCESS", "PROCESS_ZONE"), Asset("P-101", "PROCESS", "PROCESS_ZONE"),
     Asset("PL-101", "PROCESS", "PROCESS_ZONE"), Asset("CV-101", "PROCESS", "PROCESS_ZONE"),
     Asset("TK-102", "PROCESS", "PROCESS_ZONE")}
BY DEF Assets, Process

LEMMA FiniteEleven ==
  ASSUME NEW a, NEW b, NEW c, NEW d, NEW e, NEW f, NEW g, NEW h, NEW i, NEW j, NEW k
  PROVE  IsFiniteSet({a, b, c, d, e, f, g, h, i, j, k})
<1>1. IsFiniteSet({a})
  BY FS_Singleton
<1>2. IsFiniteSet({a} \cup {b})
  BY <1>1, FS_AddElement
<1>3. IsFiniteSet(({a} \cup {b}) \cup {c})
  BY <1>2, FS_AddElement
<1>4. {a, b, c} = ({a} \cup {b}) \cup {c}
  OBVIOUS
<1>5. IsFiniteSet({a, b, c} \cup {d})
  BY <1>3, <1>4, FS_AddElement
<1>6. {a, b, c, d} = {a, b, c} \cup {d}
  OBVIOUS
<1>7. IsFiniteSet({a, b, c, d} \cup {e})
  BY <1>5, <1>6, FS_AddElement
<1>8. {a, b, c, d, e} = {a, b, c, d} \cup {e}
  OBVIOUS
<1>9. IsFiniteSet({a, b, c, d, e} \cup {f})
  BY <1>7, <1>8, FS_AddElement
<1>10. {a, b, c, d, e, f} = {a, b, c, d, e} \cup {f}
  OBVIOUS
<1>11. IsFiniteSet({a, b, c, d, e, f} \cup {g})
  BY <1>9, <1>10, FS_AddElement
<1>12. {a, b, c, d, e, f, g} = {a, b, c, d, e, f} \cup {g}
  OBVIOUS
<1>13. IsFiniteSet({a, b, c, d, e, f, g} \cup {h})
  BY <1>11, <1>12, FS_AddElement
<1>14. {a, b, c, d, e, f, g, h} = {a, b, c, d, e, f, g} \cup {h}
  OBVIOUS
<1>15. IsFiniteSet({a, b, c, d, e, f, g, h} \cup {i})
  BY <1>13, <1>14, FS_AddElement
<1>16. {a, b, c, d, e, f, g, h, i} = {a, b, c, d, e, f, g, h} \cup {i}
  OBVIOUS
<1>17. IsFiniteSet({a, b, c, d, e, f, g, h, i} \cup {j})
  BY <1>15, <1>16, FS_AddElement
<1>18. {a, b, c, d, e, f, g, h, i, j} = {a, b, c, d, e, f, g, h, i} \cup {j}
  OBVIOUS
<1>19. IsFiniteSet({a, b, c, d, e, f, g, h, i, j} \cup {k})
  BY <1>17, <1>18, FS_AddElement
<1>20. {a, b, c, d, e, f, g, h, i, j, k} = {a, b, c, d, e, f, g, h, i, j} \cup {k}
  OBVIOUS
<1> QED
  BY <1>19, <1>20

LEMMA AssetsFinite == IsFiniteSet(Assets)
BY AssetList, FiniteEleven

LEMMA AssetFacts ==
  ASSUME NEW a \in Assets
  PROVE  /\ a.enabled # FALSE
         /\ a.key \in {"PLC-01", "HMI-01", "ENG-WS-01"} => a.zone = "OT_CONTROL_ZONE"
         /\ a.key = "IT-WS-01" => a.zone = "IT_ZONE"
<1>1. /\ \A k, r, z : Asset(k, r, z).key = k
      /\ \A k, r, z : Asset(k, r, z).zone = z
      /\ \A k, r, z : Asset(k, r, z).enabled # FALSE
  BY AssetFields
<1>2. PICK k, r, z :
        /\ a = Asset(k, r, z)
        /\ k \in {"PLC-01", "HMI-01", "ENG-WS-01"} => z = "OT_CONTROL_ZONE"
        /\ k = "IT-WS-01" => z = "IT_ZONE"
  BY AssetList
<1>3. a.key = k /\ a.zone = z
  BY <1>1, <1>2
<1>4. a.enabled # FALSE
  BY <1>2 DEF Asset
<1> QED
  BY <1>2, <1>3, <1>4

\* What is known of one end of a communication: nothing, a contradiction, or
\* an asset.
EndOf(side) ==
  /\ side.status \in {"RESOLVED", "UNKNOWN", "CONFLICT"}
  /\ side.status = "RESOLVED" =>
       \E a \in Assets : side.key = a.key /\ side.zone = a.zone /\ side.enabled # FALSE

\* An identity is resolved to the asset that all of its claims name, and
\* only then (resolve_identity).
LEMMA Resolution ==
  ASSUME NEW claimed, claimed # {}
  PROVE  /\ EndOf(ResolveIdentity(claimed))
         /\ \A a \in Assets : claimed \subseteq Identifiers(a) =>
              /\ ResolveIdentity(claimed).status = "RESOLVED"
              /\ ResolveIdentity(claimed).key = a.key
         /\ ResolveIdentity(claimed).status = "RESOLVED" =>
              \E a \in Assets : /\ claimed \subseteq Identifiers(a)
                                /\ ResolveIdentity(claimed).key = a.key
<1> DEFINE named == {a \in Assets : Identifiers(a) \cap claimed # {}}
           allKnown == claimed \subseteq UNION {Identifiers(a) : a \in Assets}
           asset == CHOOSE a \in named : TRUE
           found == [status |-> "RESOLVED", key |-> asset.key, zone |-> asset.zone,
                     enabled |-> asset.enabled]
<1>1. ResolveIdentity(claimed) =
        IF named = {} THEN Unresolved("UNKNOWN")
        ELSE IF ~allKnown \/ Cardinality(named) # 1 THEN Unresolved("CONFLICT")
        ELSE found
  BY DEF ResolveIdentity
<1>2. \A a, b \in Assets : a # b => Identifiers(a) \cap Identifiers(b) = {}
  BY ProfilesAgree DEF AgreeingProfiles
<1>3. IsFiniteSet(named)
  BY AssetsFinite, FS_Subset
<1>4. named \subseteq Assets
  OBVIOUS
<1>5. ASSUME NEW a \in Assets, claimed \subseteq Identifiers(a)
      PROVE  named = {a} /\ allKnown
  BY <1>2, <1>5
<1>6. ASSUME NEW a \in Assets, named = {a}, allKnown
      PROVE  claimed \subseteq Identifiers(a)
  BY <1>6
<1> HIDE DEF named, allKnown
<1>7. named # {} => asset \in named
  OBVIOUS
<1>8. Cardinality(named) = 1 => \E a : named = {a}
  BY <1>3, FS_Singleton
<1>9. \A a : Cardinality({a}) = 1
  BY FS_Singleton
<1>10. \A a : named = {a} => asset = a
  BY <1>7
<1> HIDE DEF asset
<1>11. /\ found.status = "RESOLVED" /\ found.key = asset.key /\ found.zone = asset.zone
       /\ found.enabled = asset.enabled
  OBVIOUS
<1>12. /\ Unresolved("UNKNOWN").status = "UNKNOWN" /\ Unresolved("CONFLICT").status = "CONFLICT"
  BY DEF Unresolved
<1> HIDE DEF found
<1>13. ASSUME NEW a \in Assets, claimed \subseteq Identifiers(a)
       PROVE  /\ ResolveIdentity(claimed).status = "RESOLVED"
              /\ ResolveIdentity(claimed).key = a.key
  <2>1. named = {a} /\ allKnown
    BY <1>5, <1>13
  <2>2. asset = a /\ Cardinality(named) = 1 /\ named # {}
    BY <2>1, <1>9, <1>10
  <2>3. ResolveIdentity(claimed) = found
    BY <1>1, <2>1, <2>2
  <2> QED
    BY <1>11, <2>2, <2>3
<1>14. ASSUME ResolveIdentity(claimed).status = "RESOLVED"
       PROVE  \E a \in Assets : /\ claimed \subseteq Identifiers(a)
                                /\ ResolveIdentity(claimed).key = a.key
                                /\ ResolveIdentity(claimed).zone = a.zone
                                /\ ResolveIdentity(claimed).enabled = a.enabled
  <2>1. named # {} /\ allKnown /\ Cardinality(named) = 1 /\ ResolveIdentity(claimed) = found
    BY <1>1, <1>12, <1>14
  <2>2. named = {asset} /\ asset \in Assets
    BY <2>1, <1>4, <1>7, <1>8
  <2>3. claimed \subseteq Identifiers(asset)
    BY <2>1, <2>2, <1>6
  <2> QED
    BY <1>11, <2>1, <2>2, <2>3
<1>15. ResolveIdentity(claimed).status \in {"RESOLVED", "UNKNOWN", "CONFLICT"}
  BY <1>1, <1>11, <1>12
<1>16. EndOf(ResolveIdentity(claimed))
  BY <1>14, <1>15, AssetFacts DEF EndOf
<1> QED
  BY <1>13, <1>14, <1>16

-----------------------------------------------------------------------------
(* Paths and rules.                                                         *)

LEMMA PathFacts ==
  ASSUME NEW p \in GovernedPaths
  PROVE  /\ p.target = "PLC-01" /\ p.targetZone = "OT_CONTROL_ZONE" /\ "modbus_tcp" \in p.protocols
         /\ \/ p.id = "PATH-HMI-PLC" /\ p.source = "HMI-01" /\ p.sourceZone = "OT_CONTROL_ZONE"
            \/ p.id = "PATH-ENG-PLC" /\ p.source = "ENG-WS-01" /\ p.sourceZone = "OT_CONTROL_ZONE"
            \/ p.id = "PATH-IT-PLC" /\ p.source = "IT-WS-01" /\ p.sourceZone = "IT_ZONE"
BY DEF GovernedPaths, Path

LEMMA PathFrom ==
  /\ \E p \in GovernedPaths : p.source = "HMI-01" /\ p.id = "PATH-HMI-PLC"
  /\ \E p \in GovernedPaths : p.source = "ENG-WS-01" /\ p.id = "PATH-ENG-PLC"
BY DEF GovernedPaths, Path

\* No two paths join the same assets.
LEMMA PathUnique ==
  ASSUME NEW p \in GovernedPaths, NEW q \in GovernedPaths, p.source = q.source
  PROVE  p = q
BY DEF GovernedPaths, Path

LEMMA PathOfIs ==
  ASSUME NEW c
  PROVE  /\ PathOf(c) # None =>
              /\ PathOf(c) \in GovernedPaths
              /\ PathOf(c).source = c.source.key /\ PathOf(c).target = c.target.key
         /\ \A p \in GovernedPaths : p.source = c.source.key /\ p.target = c.target.key =>
              PathOf(c) = p /\ PathOf(c) # None
<1> DEFINE found == {p \in GovernedPaths : p.source = c.source.key /\ p.target = c.target.key}
<1>1. PathOf(c) = IF found = {} THEN None ELSE CHOOSE p \in found : TRUE
  BY DEF PathOf
<1>2. \A p, q \in found : p = q
  BY PathUnique
<1>3. \A p : p \in found <=>
        p \in GovernedPaths /\ p.source = c.source.key /\ p.target = c.target.key
  OBVIOUS
<1> HIDE DEF found
<1>4. ASSUME PathOf(c) # None
      PROVE  PathOf(c) \in found
  BY <1>1, <1>4
<1>5. ASSUME NEW p \in found
      PROVE  PathOf(c) = p
  BY <1>1, <1>2
<1>6. None \notin GovernedPaths
  BY NoneAssumption
<1> QED
  BY <1>3, <1>4, <1>5, <1>6

LEMMA RuleFields ==
  \A id, path, ops, points, decision, reason :
    LET r == Rule(id, path, ops, points, decision, reason)
    IN  /\ r.path = path /\ r.operations = ops /\ r.points = points
        /\ r.decision = decision /\ r.reason = reason
BY DEF Rule

Pump == "transfer_pump_command_percent"
Valve == "control_valve_command_percent"

LEMMA RuleCases ==
  ASSUME NEW r \in Rules
  PROVE  \/ /\ r = Rule("ACP-001", "PATH-HMI-PLC", {"READ"}, AllPoints, "APPROVED", Match)
            /\ r.path = "PATH-HMI-PLC" /\ r.operations = {"READ"} /\ r.points = AllPoints
            /\ r.decision = "APPROVED" /\ r.reason = Match
         \/ /\ r = Rule("ACP-002", "PATH-HMI-PLC", {"WRITE"}, {Pump}, "APPROVED", Match)
            /\ r.path = "PATH-HMI-PLC" /\ r.operations = {"WRITE"} /\ r.points = {Pump}
            /\ r.decision = "APPROVED" /\ r.reason = Match
         \/ /\ r = Rule("ACP-003", "PATH-HMI-PLC", {"WRITE"}, {Valve}, "APPROVED", Match)
            /\ r.path = "PATH-HMI-PLC" /\ r.operations = {"WRITE"} /\ r.points = {Valve}
            /\ r.decision = "APPROVED" /\ r.reason = Match
         \/ /\ r = Rule("ACP-004", "PATH-ENG-PLC", {"READ"}, AllPoints, "APPROVED", Match)
            /\ r.path = "PATH-ENG-PLC" /\ r.operations = {"READ"} /\ r.points = AllPoints
            /\ r.decision = "APPROVED" /\ r.reason = Match
         \/ /\ r = Rule("ACP-005", "PATH-ENG-PLC", {"WRITE"}, Commands, "DENIED",
                        "SOURCE_ROLE_NOT_APPROVED")
            /\ r.path = "PATH-ENG-PLC" /\ r.operations = {"WRITE"} /\ r.points = Commands
            /\ r.decision = "DENIED" /\ r.reason = "SOURCE_ROLE_NOT_APPROVED"
         \/ /\ r = Rule("ACP-006", "PATH-IT-PLC", {"READ", "WRITE"}, AllPoints, "DENIED",
                        "COMMUNICATION_NOT_APPROVED")
            /\ r.path = "PATH-IT-PLC" /\ r.operations = {"READ", "WRITE"}
            /\ r.points = AllPoints
            /\ r.decision = "DENIED" /\ r.reason = "COMMUNICATION_NOT_APPROVED"
BY RuleFields DEF Rules, Pump, Valve

\* No event matches two rules of a path (validate_policy_structure).
LEMMA MatchUnique ==
  ASSUME NEW meaning, NEW path,
         NEW q \in MatchingRules(meaning, path), NEW r \in MatchingRules(meaning, path)
  PROVE  q = r
<1>1. /\ q \in Rules /\ q.path = path.id /\ meaning.category \in q.operations
      /\ meaning.point \in q.points
      /\ r \in Rules /\ r.path = path.id /\ meaning.category \in r.operations
      /\ meaning.point \in r.points
  BY DEF MatchingRules
<1>2. Pump # Valve
  BY DEF Pump, Valve
<1> QED
  BY <1>1, <1>2, RuleCases

LEMMA MatchingRuleIs ==
  ASSUME NEW meaning, NEW path
  PROVE  /\ MatchingRules(meaning, path) = {} => MatchingRule(meaning, path) = None
         /\ \A r \in MatchingRules(meaning, path) : MatchingRule(meaning, path) = r
<1> DEFINE matches == MatchingRules(meaning, path)
<1>1. ASSUME matches = {}
      PROVE  MatchingRule(meaning, path) = None
  <2>1. Cardinality(matches) = 0
    BY <1>1, FS_EmptySet
  <2> QED
    BY <1>1, <2>1 DEF MatchingRule
<1>2. ASSUME NEW r \in matches
      PROVE  MatchingRule(meaning, path) = r
  <2>1. matches = {r}
    BY MatchUnique
  <2>2. Cardinality(matches) = 1
    BY <2>1, FS_Singleton
  <2>3. (CHOOSE q \in matches : TRUE) = r
    BY <2>1
  <2> QED
    BY <2>1, <2>2, <2>3 DEF MatchingRule
<1> QED
  BY <1>1, <1>2

\* Which points can be commanded.
LEMMA CommandIds ==
  ASSUME NEW p \in Points, p.access = Commandable
  PROVE  p.id \in {Pump, Valve}
<1>1. ReadOnly # Commandable
  BY DEF ReadOnly, Commandable
<1> QED
  BY <1>1 DEF Points, Command, Measurement, State, Pump, Valve

-----------------------------------------------------------------------------
(* The decision.                                                            *)

LEMMA ReasonList ==
  /\ DOMAIN ReasonPrecedence = 1..18
  /\ ReasonPrecedence[1] = "SOURCE_EVIDENCE_NOT_VERIFIED"
  /\ ReasonPrecedence[2] = "SEMANTIC_EVIDENCE_NOT_VERIFIED"
  /\ ReasonPrecedence[3] = "PROFILE_VERSION_UNSUPPORTED"
  /\ ReasonPrecedence[4] = "POLICY_PROFILE_INVALID"
  /\ ReasonPrecedence[5] = "IDENTITY_CONFLICT"
  /\ ReasonPrecedence[6] = "SOURCE_UNKNOWN"
  /\ ReasonPrecedence[7] = "DESTINATION_UNKNOWN"
  /\ ReasonPrecedence[8] = "SOURCE_DISABLED"
  /\ ReasonPrecedence[9] = "DESTINATION_DISABLED"
  /\ ReasonPrecedence[10] = "SOURCE_ZONE_UNEXPECTED"
  /\ ReasonPrecedence[11] = "DESTINATION_ZONE_UNEXPECTED"
  /\ ReasonPrecedence[12] = "POINT_WRITE_NOT_APPROVED"
  /\ ReasonPrecedence[13] = "PROTOCOL_NOT_APPROVED"
  /\ ReasonPrecedence[14] = "OPERATION_NOT_APPROVED"
  /\ ReasonPrecedence[15] = "SOURCE_ROLE_NOT_APPROVED"
  /\ ReasonPrecedence[16] = "COMMUNICATION_NOT_APPROVED"
  /\ ReasonPrecedence[17] = "POLICY_NOT_CLASSIFIED"
  /\ ReasonPrecedence[18] = Match
BY DEF ReasonPrecedence

LEMMA ReasonThere ==
  ASSUME NEW s \in PolicyStatus, NEW n \in 1..18
  PROVE  /\ <<s, ReasonPrecedence[n]>> # None
         /\ ReasonPrecedence[n] # None
<1>1. ReasonPrecedence[n] \in PolicyReasonCode
  BY ReasonList DEF PolicyReasonCode
<1> QED
  BY <1>1, PairIsThere, NoneAssumption

\* The early returns that do not need a path: who may not be judged, and why.
LEMMA IdentityOutcome ==
  ASSUME NEW e \in Events, NEW c, EndOf(c.source), EndOf(c.target)
  PROVE  LET first == FirstApplying(IdentityChecks(e, c))
             both == c.source.status = "RESOLVED" /\ c.target.status = "RESOLVED"
             clear == e.verified /\ e.semanticVerified
             conflict == "CONFLICT" \in {c.source.status, c.target.status}
         IN  \/ ~e.verified /\ first = <<"UNKNOWN", "SOURCE_EVIDENCE_NOT_VERIFIED">>
             \/ /\ e.verified /\ ~e.semanticVerified
                /\ first = <<"UNKNOWN", "SEMANTIC_EVIDENCE_NOT_VERIFIED">>
             \/ clear /\ conflict /\ first = <<"UNKNOWN", "IDENTITY_CONFLICT">>
             \/ /\ clear /\ ~conflict /\ c.source.status = "UNKNOWN"
                /\ first = <<"UNKNOWN", "SOURCE_UNKNOWN">>
             \/ /\ clear /\ ~conflict /\ c.source.status = "RESOLVED"
                /\ c.target.status = "UNKNOWN" /\ first = <<"UNKNOWN", "DESTINATION_UNKNOWN">>
             \/ /\ clear /\ both /\ PathOf(c) = None
                /\ first = <<"UNKNOWN", "POLICY_NOT_CLASSIFIED">>
             \/ clear /\ both /\ PathOf(c) # None /\ first = None
<1> DEFINE checks == IdentityChecks(e, c)
           clear == e.verified /\ e.semanticVerified
           conflict == "CONFLICT" \in {c.source.status, c.target.status}
<1>1. DOMAIN checks = 1..8 /\ 8 \in Nat
  BY DEF IdentityChecks
<1>2. /\ <<"UNKNOWN", "SOURCE_EVIDENCE_NOT_VERIFIED">> # None
      /\ <<"UNKNOWN", "SEMANTIC_EVIDENCE_NOT_VERIFIED">> # None
      /\ <<"UNKNOWN", "IDENTITY_CONFLICT">> # None
      /\ <<"UNKNOWN", "SOURCE_UNKNOWN">> # None
      /\ <<"UNKNOWN", "DESTINATION_UNKNOWN">> # None
      /\ <<"UNKNOWN", "POLICY_NOT_CLASSIFIED">> # None
  <2>1. "UNKNOWN" \in PolicyStatus /\ {1, 2, 5, 6, 7, 17} \subseteq 1..18
    BY DEF PolicyStatus
  <2> QED
    BY <2>1, ReasonThere, ReasonList
<1>3. checks[1] = IF ~e.verified THEN <<"UNKNOWN", "SOURCE_EVIDENCE_NOT_VERIFIED">> ELSE None
  BY DEF IdentityChecks, Check
<1>4. checks[2] = IF ~e.semanticVerified THEN <<"UNKNOWN", "SEMANTIC_EVIDENCE_NOT_VERIFIED">>
                  ELSE None
  BY DEF IdentityChecks, Check
<1>5. checks[3] = IF conflict THEN <<"UNKNOWN", "IDENTITY_CONFLICT">> ELSE None
  BY DEF IdentityChecks, Check
<1>6. checks[4] = IF c.source.status = "UNKNOWN" THEN <<"UNKNOWN", "SOURCE_UNKNOWN">> ELSE None
  BY DEF IdentityChecks, Check
<1>7. checks[5] = IF c.target.status = "UNKNOWN" THEN <<"UNKNOWN", "DESTINATION_UNKNOWN">> ELSE None
  BY DEF IdentityChecks, Check
<1>8. c.source.enabled # FALSE => checks[6] = None
  BY DEF IdentityChecks, Check
<1>9. c.target.enabled # FALSE => checks[7] = None
  BY DEF IdentityChecks, Check
<1>10. checks[8] = IF PathOf(c) = None THEN <<"UNKNOWN", "POLICY_NOT_CLASSIFIED">> ELSE None
  BY DEF IdentityChecks, Check
<1> HIDE DEF checks
<1>11. ASSUME NEW k \in 1..8, checks[k] # None, \A j \in 1..8 : j < k => checks[j] = None
       PROVE  FirstApplying(checks) = checks[k]
  <2>1. Decides(checks, k)
    BY <1>1, <1>11 DEF Decides
  <2> QED
    BY <1>1, <2>1, FirstDecides
<1>12. /\ c.source.status \in {"RESOLVED", "UNKNOWN", "CONFLICT"}
       /\ c.target.status \in {"RESOLVED", "UNKNOWN", "CONFLICT"}
       /\ c.source.status = "RESOLVED" => c.source.enabled # FALSE
       /\ c.target.status = "RESOLVED" => c.target.enabled # FALSE
  BY DEF EndOf
<1>13. CASE ~e.verified
  BY <1>2, <1>3, <1>11, <1>13 DEF checks
<1>14. CASE e.verified /\ ~e.semanticVerified
  BY <1>2, <1>3, <1>4, <1>11, <1>14 DEF checks
<1>15. CASE clear /\ conflict
  BY <1>2, <1>3, <1>4, <1>5, <1>11, <1>15 DEF checks
<1>16. CASE clear /\ ~conflict /\ c.source.status = "UNKNOWN"
  BY <1>2, <1>3, <1>4, <1>5, <1>6, <1>11, <1>16 DEF checks
<1>17. CASE clear /\ ~conflict /\ c.source.status = "RESOLVED" /\ c.target.status = "UNKNOWN"
  BY <1>2, <1>3, <1>4, <1>5, <1>6, <1>7, <1>11, <1>17 DEF checks
<1>18. CASE clear /\ c.source.status = "RESOLVED" /\ c.target.status = "RESOLVED"
  <2>1. /\ checks[1] = None /\ checks[2] = None /\ checks[3] = None /\ checks[4] = None
        /\ checks[5] = None /\ checks[6] = None /\ checks[7] = None
    BY <1>3, <1>4, <1>5, <1>6, <1>7, <1>8, <1>9, <1>12, <1>18
  <2>2. CASE PathOf(c) = None
    <3>1. FirstApplying(checks) = checks[8]
      BY <1>2, <1>10, <1>11, <2>1, <2>2
    <3> QED
      BY <1>10, <1>18, <2>2, <3>1 DEF checks
  <2>3. CASE PathOf(c) # None
    <3>1. \A j \in DOMAIN checks : checks[j] = None
      BY <1>1, <1>10, <2>1, <2>3
    <3>2. FirstApplying(checks) = None
      BY <3>1, NoneDecides
    <3> QED
      BY <1>18, <2>3, <3>2 DEF checks
  <2> QED
    BY <2>2, <2>3
<1> QED
  BY <1>12, <1>13, <1>14, <1>15, <1>16, <1>17, <1>18

\* The early returns on a governed path: what is denied, and why.
LEMMA PathOutcome ==
  ASSUME NEW meaning, NEW c, PathOf(c) # None, EndOf(c.source), EndOf(c.target),
         c.source.status = "RESOLVED", c.target.status = "RESOLVED"
  PROVE  LET path == PathOf(c)
             matches == MatchingRules(meaning, path)
             first == FirstApplying(PathChecks(meaning, c, path, MatchingRule(meaning, path)))
         IN  \/ WriteRefused(meaning) /\ first = <<"DENIED", "POINT_WRITE_NOT_APPROVED">>
             \/ /\ ~WriteRefused(meaning) /\ matches = {}
                /\ first = <<"DENIED", "OPERATION_NOT_APPROVED">>
             \/ /\ ~WriteRefused(meaning)
                /\ \E r \in matches : r.decision = "DENIED" /\ first = <<"DENIED", r.reason>>
             \/ /\ ~WriteRefused(meaning)
                /\ \E r \in matches : r.decision = "APPROVED" /\ first = None
<1>1. PICK path : path = PathOf(c)
  OBVIOUS
<1>2. PICK rule : rule = MatchingRule(meaning, path)
  OBVIOUS
<1> DEFINE matches == MatchingRules(meaning, path)
           checks == PathChecks(meaning, c, path, rule)
<1>3. path \in GovernedPaths /\ path.source = c.source.key /\ path.target = c.target.key
  BY <1>1, PathOfIs
<1>4. c.source.zone = path.sourceZone /\ c.target.zone = path.targetZone
  <2>1. PICK a \in Assets : c.source.key = a.key /\ c.source.zone = a.zone
    BY DEF EndOf
  <2>2. PICK b \in Assets : c.target.key = b.key /\ c.target.zone = b.zone
    BY DEF EndOf
  <2> QED
    BY <1>3, <2>1, <2>2, AssetFacts, PathFacts
<1>5. "modbus_tcp" \in path.protocols
  BY <1>3, PathFacts
<1>6. DOMAIN checks = 1..5 /\ 5 \in Nat
  BY DEF PathChecks
<1>7. checks[1] = None /\ checks[2] = None
  BY <1>4 DEF PathChecks, Check
<1>8. checks[3] = IF WriteRefused(meaning) THEN <<"DENIED", "POINT_WRITE_NOT_APPROVED">> ELSE None
  BY DEF PathChecks, Check
<1>9. checks[4] = None
  BY <1>5 DEF PathChecks, Check
<1>10. checks[5] = IF Decided(rule)[1] # "APPROVED" THEN <<Decided(rule)[1], Decided(rule)[2]>>
                   ELSE None
  BY DEF PathChecks, Check
<1> HIDE DEF checks
<1>11. ASSUME NEW k \in 1..5, checks[k] # None, \A j \in 1..5 : j < k => checks[j] = None
       PROVE  FirstApplying(checks) = checks[k]
  <2>1. Decides(checks, k)
    BY <1>6, <1>11 DEF Decides
  <2> QED
    BY <1>6, <2>1, FirstDecides
<1>12. /\ <<"DENIED", "POINT_WRITE_NOT_APPROVED">> # None
       /\ <<"DENIED", "OPERATION_NOT_APPROVED">> # None
       /\ <<"DENIED", "SOURCE_ROLE_NOT_APPROVED">> # None
       /\ <<"DENIED", "COMMUNICATION_NOT_APPROVED">> # None
  <2>1. "DENIED" \in PolicyStatus /\ {12, 14, 15, 16} \subseteq 1..18
    BY DEF PolicyStatus
  <2> QED
    BY <2>1, ReasonThere, ReasonList
<1>13. CASE WriteRefused(meaning)
  <2>1. FirstApplying(checks) = <<"DENIED", "POINT_WRITE_NOT_APPROVED">>
    BY <1>7, <1>8, <1>11, <1>12, <1>13
  <2> QED
    BY <1>1, <1>2, <1>13, <2>1 DEF checks
<1>14. CASE ~WriteRefused(meaning) /\ matches = {}
  <2>1. Decided(rule) = <<"DENIED", "OPERATION_NOT_APPROVED">>
    BY <1>2, <1>14, MatchingRuleIs DEF Decided
  <2>2. checks[5] = <<"DENIED", "OPERATION_NOT_APPROVED">>
    BY <1>10, <2>1
  <2>3. FirstApplying(checks) = <<"DENIED", "OPERATION_NOT_APPROVED">>
    BY <1>7, <1>8, <1>9, <1>11, <1>12, <1>14, <2>2
  <2> QED
    BY <1>1, <1>2, <1>14, <2>3 DEF checks
<1>15. CASE ~WriteRefused(meaning) /\ matches # {}
  <2>1. rule \in matches
    BY <1>2, <1>15, MatchingRuleIs
  <2>2. rule \in Rules /\ rule # None
    BY <2>1, NoneAssumption DEF MatchingRules
  <2>3. Decided(rule) = <<rule.decision, rule.reason>>
    BY <2>2 DEF Decided
  <2>4. CASE rule.decision = "APPROVED"
    <3>1. checks[5] = None
      BY <1>10, <2>3, <2>4
    <3>2. \A j \in DOMAIN checks : checks[j] = None
      BY <1>6, <1>7, <1>8, <1>9, <1>15, <3>1
    <3>3. FirstApplying(checks) = None
      BY <3>2, NoneDecides
    <3> QED
      BY <1>1, <1>2, <1>15, <2>1, <2>4, <3>3 DEF checks
  <2>5. CASE /\ rule.decision = "DENIED"
             /\ rule.reason \in {"SOURCE_ROLE_NOT_APPROVED", "COMMUNICATION_NOT_APPROVED"}
    <3>1. checks[5] = <<"DENIED", rule.reason>>
      BY <1>10, <2>3, <2>5
    <3>2. FirstApplying(checks) = <<"DENIED", rule.reason>>
      BY <1>7, <1>8, <1>9, <1>11, <1>12, <1>15, <2>5, <3>1
    <3> QED
      BY <1>1, <1>2, <1>15, <2>1, <2>5, <3>2 DEF checks
  <2> QED
    BY <2>2, <2>4, <2>5, RuleCases
<1> QED
  BY <1>13, <1>14, <1>15

\* What evaluate_policy decides.
LEMMA PolicyOutcome ==
  ASSUME NEW e \in Events, NEW meaning, NEW c, EndOf(c.source), EndOf(c.target)
  PROVE  LET judged == EvaluatePolicy(e, meaning, c)
             path == PathOf(c)
             matches == MatchingRules(meaning, path)
             both == c.source.status = "RESOLVED" /\ c.target.status = "RESOLVED"
             clear == e.verified /\ e.semanticVerified
             conflict == "CONFLICT" \in {c.source.status, c.target.status}
             onPath == clear /\ both /\ path # None
         IN  \/ /\ ~e.verified
                /\ judged = [status |-> "UNKNOWN", reason |-> "SOURCE_EVIDENCE_NOT_VERIFIED"]
             \/ /\ e.verified /\ ~e.semanticVerified
                /\ judged = [status |-> "UNKNOWN", reason |-> "SEMANTIC_EVIDENCE_NOT_VERIFIED"]
             \/ /\ clear /\ conflict
                /\ judged = [status |-> "UNKNOWN", reason |-> "IDENTITY_CONFLICT"]
             \/ /\ clear /\ ~conflict /\ c.source.status = "UNKNOWN"
                /\ judged = [status |-> "UNKNOWN", reason |-> "SOURCE_UNKNOWN"]
             \/ /\ clear /\ ~conflict /\ c.source.status = "RESOLVED" /\ c.target.status = "UNKNOWN"
                /\ judged = [status |-> "UNKNOWN", reason |-> "DESTINATION_UNKNOWN"]
             \/ /\ clear /\ both /\ path = None
                /\ judged = [status |-> "UNKNOWN", reason |-> "POLICY_NOT_CLASSIFIED"]
             \/ /\ onPath /\ WriteRefused(meaning)
                /\ judged = [status |-> "DENIED", reason |-> "POINT_WRITE_NOT_APPROVED"]
             \/ /\ onPath /\ ~WriteRefused(meaning) /\ matches = {}
                /\ judged = [status |-> "DENIED", reason |-> "OPERATION_NOT_APPROVED"]
             \/ /\ onPath /\ ~WriteRefused(meaning)
                /\ \E r \in matches : /\ r.decision = "DENIED"
                                      /\ judged = [status |-> "DENIED", reason |-> r.reason]
             \/ /\ onPath /\ ~WriteRefused(meaning)
                /\ \E r \in matches : /\ r.decision = "APPROVED"
                                      /\ judged = [status |-> "APPROVED", reason |-> Match]
<1>1. PICK first : first = FirstApplying(IdentityChecks(e, c))
  OBVIOUS
<1>2. PICK path : path = PathOf(c)
  OBVIOUS
<1>3. PICK late : late = FirstApplying(PathChecks(meaning, c, path, MatchingRule(meaning, path)))
  OBVIOUS
<1>4. EvaluatePolicy(e, meaning, c) =
        IF first # None THEN [status |-> first[1], reason |-> first[2]]
        ELSE IF late # None THEN [status |-> late[1], reason |-> late[2]]
        ELSE [status |-> "APPROVED", reason |-> Match]
  BY <1>1, <1>2, <1>3 DEF EvaluatePolicy
<1>5. \A s \in PolicyStatus : \A n \in 1..18 : <<s, ReasonPrecedence[n]>> # None
  BY ReasonThere
<1>6. /\ <<"UNKNOWN", "SOURCE_EVIDENCE_NOT_VERIFIED">> # None
      /\ <<"UNKNOWN", "SEMANTIC_EVIDENCE_NOT_VERIFIED">> # None
      /\ <<"UNKNOWN", "IDENTITY_CONFLICT">> # None
      /\ <<"UNKNOWN", "SOURCE_UNKNOWN">> # None
      /\ <<"UNKNOWN", "DESTINATION_UNKNOWN">> # None
      /\ <<"UNKNOWN", "POLICY_NOT_CLASSIFIED">> # None
      /\ <<"DENIED", "POINT_WRITE_NOT_APPROVED">> # None
      /\ <<"DENIED", "OPERATION_NOT_APPROVED">> # None
      /\ <<"DENIED", "SOURCE_ROLE_NOT_APPROVED">> # None
      /\ <<"DENIED", "COMMUNICATION_NOT_APPROVED">> # None
  <2>1. /\ {"UNKNOWN", "DENIED"} \subseteq PolicyStatus
        /\ {1, 2, 5, 6, 7, 12, 14, 15, 16, 17} \subseteq 1..18
    BY DEF PolicyStatus
  <2> QED
    BY <1>5, <2>1, ReasonList
<1> DEFINE both == c.source.status = "RESOLVED" /\ c.target.status = "RESOLVED"
           clear == e.verified /\ e.semanticVerified
           conflict == "CONFLICT" \in {c.source.status, c.target.status}
<1>7. CASE ~e.verified /\ first = <<"UNKNOWN", "SOURCE_EVIDENCE_NOT_VERIFIED">>
  BY <1>4, <1>6, <1>7
<1>8. CASE /\ e.verified /\ ~e.semanticVerified
           /\ first = <<"UNKNOWN", "SEMANTIC_EVIDENCE_NOT_VERIFIED">>
  BY <1>4, <1>6, <1>8
<1>9. CASE clear /\ conflict /\ first = <<"UNKNOWN", "IDENTITY_CONFLICT">>
  BY <1>4, <1>6, <1>9
<1>10. CASE /\ clear /\ ~conflict /\ c.source.status = "UNKNOWN"
            /\ first = <<"UNKNOWN", "SOURCE_UNKNOWN">>
  BY <1>4, <1>6, <1>10
<1>11. CASE /\ clear /\ ~conflict /\ c.source.status = "RESOLVED"
            /\ c.target.status = "UNKNOWN" /\ first = <<"UNKNOWN", "DESTINATION_UNKNOWN">>
  BY <1>4, <1>6, <1>11
<1>12. CASE clear /\ both /\ path = None /\ first = <<"UNKNOWN", "POLICY_NOT_CLASSIFIED">>
  BY <1>2, <1>4, <1>6, <1>12
<1>13. CASE clear /\ both /\ path # None /\ first = None
  <2>1. EvaluatePolicy(e, meaning, c) =
          IF late # None THEN [status |-> late[1], reason |-> late[2]]
          ELSE [status |-> "APPROVED", reason |-> Match]
    BY <1>4, <1>13
  <2>2. \/ WriteRefused(meaning) /\ late = <<"DENIED", "POINT_WRITE_NOT_APPROVED">>
        \/ /\ ~WriteRefused(meaning) /\ MatchingRules(meaning, path) = {}
           /\ late = <<"DENIED", "OPERATION_NOT_APPROVED">>
        \/ /\ ~WriteRefused(meaning)
           /\ \E r \in MatchingRules(meaning, path) :
                r.decision = "DENIED" /\ late = <<"DENIED", r.reason>>
        \/ /\ ~WriteRefused(meaning)
           /\ \E r \in MatchingRules(meaning, path) : r.decision = "APPROVED" /\ late = None
    BY <1>2, <1>3, <1>13, PathOutcome
  <2>3. CASE WriteRefused(meaning) /\ late = <<"DENIED", "POINT_WRITE_NOT_APPROVED">>
    BY <1>2, <1>6, <1>13, <2>1, <2>3
  <2>4. CASE /\ ~WriteRefused(meaning) /\ MatchingRules(meaning, path) = {}
             /\ late = <<"DENIED", "OPERATION_NOT_APPROVED">>
    BY <1>2, <1>6, <1>13, <2>1, <2>4
  <2>5. ASSUME ~WriteRefused(meaning), NEW r \in MatchingRules(meaning, path),
               r.decision = "DENIED", late = <<"DENIED", r.reason>>
        PROVE  EvaluatePolicy(e, meaning, c) = [status |-> "DENIED", reason |-> r.reason]
    <3>1. r \in Rules
      BY DEF MatchingRules
    <3>2. r.reason \in {"SOURCE_ROLE_NOT_APPROVED", "COMMUNICATION_NOT_APPROVED"}
      BY <2>5, <3>1, RuleCases
    <3> QED
      BY <1>6, <2>1, <2>5, <3>2
  <2>6. ASSUME late = None
        PROVE  EvaluatePolicy(e, meaning, c) = [status |-> "APPROVED", reason |-> Match]
    BY <2>1, <2>6
  <2> QED
    BY <1>2, <1>13, <2>2, <2>3, <2>4, <2>5, <2>6
<1> QED
  BY <1>1, <1>2, <1>7, <1>8, <1>9, <1>10, <1>11, <1>12, <1>13, IdentityOutcome

-----------------------------------------------------------------------------
(* Approval.                                                                *)

\* The two ends of a communication, in terms of the claims about them.
LEMMA ContextEnds ==
  ASSUME NEW e, NEW c, NEW meaning, NEW ends, ends = AssetContext(e, c, meaning)
  PROVE  /\ EndOf(ends.source) /\ EndOf(ends.target)
         /\ \A key : Names(c.source, "LOGICAL_ID", e.source, key)
                     <=> ends.source.status = "RESOLVED" /\ ends.source.key = key
         /\ \A key : Names(c.target, "PROTOCOL_ENDPOINT_ID", e.target, key)
                     <=> ends.target.status = "RESOLVED" /\ ends.target.key = key
<1>1. PICK source : source = ClaimsOr(c.source, "LOGICAL_ID", e.source)
  OBVIOUS
<1>2. PICK target : target = ClaimsOr(c.target, "PROTOCOL_ENDPOINT_ID", e.target)
  OBVIOUS
<1>3. source # {} /\ target # {}
  BY <1>1, <1>2 DEF ClaimsOr
<1>4. ends.source = ResolveIdentity(source) /\ ends.target = ResolveIdentity(target)
  BY <1>1, <1>2 DEF AssetContext
<1>5. ASSUME NEW claimed, claimed # {}, NEW key
      PROVE  (\E a \in Assets : a.key = key /\ claimed \subseteq Identifiers(a))
             <=> /\ ResolveIdentity(claimed).status = "RESOLVED"
                 /\ ResolveIdentity(claimed).key = key
  BY <1>5, Resolution
<1>6. EndOf(ResolveIdentity(source)) /\ EndOf(ResolveIdentity(target))
  BY <1>3, Resolution
<1>7. ASSUME NEW key
      PROVE  /\ Names(c.source, "LOGICAL_ID", e.source, key)
                <=> /\ ResolveIdentity(source).status = "RESOLVED"
                    /\ ResolveIdentity(source).key = key
             /\ Names(c.target, "PROTOCOL_ENDPOINT_ID", e.target, key)
                <=> /\ ResolveIdentity(target).status = "RESOLVED"
                    /\ ResolveIdentity(target).key = key
  <2>1. Names(c.source, "LOGICAL_ID", e.source, key)
        <=> \E a \in Assets : a.key = key /\ source \subseteq Identifiers(a)
    BY <1>1 DEF Names
  <2>2. Names(c.target, "PROTOCOL_ENDPOINT_ID", e.target, key)
        <=> \E a \in Assets : a.key = key /\ target \subseteq Identifiers(a)
    BY <1>2 DEF Names
  <2> QED
    BY <1>3, <1>5, <2>1, <2>2
<1> QED
  BY <1>4, <1>6, <1>7

\* A matching rule approves what an operator does, and what an engineer reads.
LEMMA MatchedRule ==
  ASSUME NEW meaning, NEW path \in GovernedPaths, NEW r \in MatchingRules(meaning, path)
  PROVE  /\ r \in Rules /\ r.decision \in {"APPROVED", "DENIED"} /\ meaning.point \in AllPoints
         /\ r.decision = "APPROVED" <=>
              \/ path.source = "HMI-01"
              \/ path.source = "ENG-WS-01" /\ meaning.category = "READ"
         /\ r.decision = "APPROVED" => r.reason = Match
         /\ r.decision = "DENIED" =>
              r.reason \in {"SOURCE_ROLE_NOT_APPROVED", "COMMUNICATION_NOT_APPROVED"}
<1>1. /\ r \in Rules /\ r.path = path.id /\ meaning.category \in r.operations
      /\ meaning.point \in r.points
  BY DEF MatchingRules
<1>2. meaning.point \in AllPoints
  BY <1>1, ProfilesAgree DEF AgreeingProfiles
<1> QED
  BY <1>1, <1>2, RuleCases, PathFacts

\* A read of a point, or a command to one, has a rule on its path.
LEMMA RuleExists ==
  ASSUME NEW meaning, NEW path \in GovernedPaths, NEW p \in Points, meaning.point = p.id,
         \/ /\ path.source \in {"HMI-01", "ENG-WS-01"} /\ meaning.category = "READ"
         \/ /\ path.source = "HMI-01" /\ meaning.category = "WRITE" /\ p.access = Commandable
  PROVE  MatchingRules(meaning, path) # {}
<1>1. p.id \in AllPoints
  BY DEF AllPoints
<1>2. /\ path.source = "HMI-01" => path.id = "PATH-HMI-PLC"
      /\ path.source = "ENG-WS-01" => path.id = "PATH-ENG-PLC"
  BY PathFacts
<1>3. CASE path.source = "HMI-01" /\ meaning.category = "READ"
  <2>1. PICK r \in Rules : r = Rule("ACP-001", "PATH-HMI-PLC", {"READ"}, AllPoints, "APPROVED", Match)
    BY DEF Rules
  <2>2. r.path = "PATH-HMI-PLC" /\ r.operations = {"READ"} /\ r.points = AllPoints
    BY <2>1, RuleFields
  <2> QED
    BY <1>1, <1>2, <1>3, <2>2 DEF MatchingRules
<1>4. CASE path.source = "ENG-WS-01" /\ meaning.category = "READ"
  <2>1. PICK r \in Rules : r = Rule("ACP-004", "PATH-ENG-PLC", {"READ"}, AllPoints, "APPROVED", Match)
    BY DEF Rules
  <2>2. r.path = "PATH-ENG-PLC" /\ r.operations = {"READ"} /\ r.points = AllPoints
    BY <2>1, RuleFields
  <2> QED
    BY <1>1, <1>2, <1>4, <2>2 DEF MatchingRules
<1>5. CASE path.source = "HMI-01" /\ meaning.category = "WRITE" /\ p.access = Commandable
  <2>1. PICK q \in Rules : q = Rule("ACP-002", "PATH-HMI-PLC", {"WRITE"}, {Pump}, "APPROVED", Match)
    BY DEF Rules, Pump
  <2>2. PICK r \in Rules : r = Rule("ACP-003", "PATH-HMI-PLC", {"WRITE"}, {Valve}, "APPROVED", Match)
    BY DEF Rules, Valve
  <2>3. /\ q.path = "PATH-HMI-PLC" /\ q.operations = {"WRITE"} /\ q.points = {Pump}
        /\ r.path = "PATH-HMI-PLC" /\ r.operations = {"WRITE"} /\ r.points = {Valve}
    BY <2>1, <2>2, RuleFields
  <2>4. p.id \in {Pump, Valve}
    BY <1>5, CommandIds
  <2> QED
    BY <1>2, <1>5, <2>3, <2>4 DEF MatchingRules
<1> QED
  BY <1>3, <1>4, <1>5

\* An event is approved exactly if it and its claims deserve it.
LEMMA ApprovedIff ==
  ASSUME NEW e \in Events, NEW c
  PROVE  LET meaning == DecodeEvent(e)
             judged == EvaluatePolicy(e, meaning, AssetContext(e, c, meaning))
         IN  /\ judged.status = "APPROVED" <=> Approvable(e, c)
             /\ judged.status # "ERROR"
<1>1. PICK meaning : meaning = DecodeEvent(e)
  OBVIOUS
<1>2. PICK ends : ends = AssetContext(e, c, meaning)
  OBVIOUS
<1>3. PICK judged : judged = EvaluatePolicy(e, meaning, ends)
  OBVIOUS
<1>4. PICK path : path = PathOf(ends)
  OBVIOUS
<1>5. /\ EndOf(ends.source) /\ EndOf(ends.target)
      /\ \A key : Names(c.source, "LOGICAL_ID", e.source, key)
                  <=> ends.source.status = "RESOLVED" /\ ends.source.key = key
      /\ \A key : Names(c.target, "PROTOCOL_ENDPOINT_ID", e.target, key)
                  <=> ends.target.status = "RESOLVED" /\ ends.target.key = key
  <2>1. EndOf(ends.source) /\ EndOf(ends.target)
    BY <1>2, ContextEnds
  <2>2. ASSUME NEW key
        PROVE  Names(c.source, "LOGICAL_ID", e.source, key)
                  <=> ends.source.status = "RESOLVED" /\ ends.source.key = key
    BY <1>2, ContextEnds
  <2>3. ASSUME NEW key
        PROVE  Names(c.target, "PROTOCOL_ENDPOINT_ID", e.target, key)
                  <=> ends.target.status = "RESOLVED" /\ ends.target.key = key
    BY <1>2, ContextEnds
  <2> QED
    BY <2>1, <2>2, <2>3
<1> DEFINE onPath == /\ e.verified /\ e.semanticVerified /\ path # None
                     /\ ends.source.status = "RESOLVED" /\ ends.target.status = "RESOLVED"
           matches == MatchingRules(meaning, path)
<1>6. \/ judged.status \in {"UNKNOWN", "DENIED"}
      \/ /\ onPath /\ ~WriteRefused(meaning) /\ judged.status = "APPROVED"
         /\ \E r \in matches : r.decision = "APPROVED"
  BY <1>3, <1>4, <1>5, PolicyOutcome
<1>7. onPath /\ ~WriteRefused(meaning) =>
        \/ matches = {}
        \/ \E r \in matches : r.decision = "DENIED"
        \/ judged.status = "APPROVED"
  BY <1>3, <1>4, <1>5, PolicyOutcome
<1>8. meaning.category = Category(e.function)
  BY <1>1, DecodedCategory
<1>9. Approvable(e, c) <=>
        /\ e.semanticVerified
        /\ \E p \in Points : Fits(e, p)
        /\ \/ Names(c.source, "LOGICAL_ID", e.source, "HMI-01")
           \/ Names(c.source, "LOGICAL_ID", e.source, "ENG-WS-01") /\ e.function # 6
        /\ Names(c.target, "PROTOCOL_ENDPOINT_ID", e.target, "PLC-01")
  BY DEF Approvable, Fits
<1>10. ASSUME judged.status = "APPROVED"
       PROVE  Approvable(e, c)
  <2>1. onPath /\ ~WriteRefused(meaning)
    BY <1>6, <1>10
  <2>2. PICK r \in matches : r.decision = "APPROVED"
    BY <1>6, <1>10
  <2>3. path \in GovernedPaths /\ path.source = ends.source.key /\ path.target = ends.target.key
    BY <1>4, <2>1, PathOfIs
  <2>4. /\ meaning.point \in AllPoints
        /\ path.source = "HMI-01" \/ (path.source = "ENG-WS-01" /\ meaning.category = "READ")
    BY <2>2, <2>3, MatchedRule
  <2>5. meaning.point # None
    BY <2>4, NoneAssumption
  <2>6. \E p \in Points : Fits(e, p)
    BY <1>1, <2>1, <2>5, DecodedOtherwise DEF WriteRefused
  <2>7. meaning.category = "READ" => e.function # 6
    BY <1>8, Categories
  <2>8. path.target = "PLC-01"
    BY <2>3, PathFacts
  <2> QED
    BY <1>5, <1>9, <2>1, <2>3, <2>4, <2>6, <2>7, <2>8
<1>11. ASSUME Approvable(e, c)
       PROVE  judged.status = "APPROVED"
  <2>1. PICK p \in Points : Fits(e, p)
    BY <1>9, <1>11
  <2>2. /\ ends.source.status = "RESOLVED" /\ ends.target.status = "RESOLVED"
        /\ ends.target.key = "PLC-01"
        /\ ends.source.key = "HMI-01" \/ (ends.source.key = "ENG-WS-01" /\ e.function # 6)
    BY <1>5, <1>9, <1>11
  <2>3. PICK q \in GovernedPaths : q.source = ends.source.key
    BY <2>2, PathFrom
  <2>4. q.target = ends.target.key
    BY <2>2, PathFacts
  <2>5. path = q /\ path # None
    BY <1>4, <2>3, <2>4, PathOfIs
  <2>6. onPath
    BY <1>9, <1>11, <2>1, <2>2, <2>5 DEF Fits
  <2>7. meaning.point = p.id /\ meaning.access = p.access /\ meaning.compatibility = "COMPATIBLE"
    BY <1>1, <2>1, DecodedPoint
  <2>8. /\ e.function \in {2, 3, 4, 6}
        /\ e.function = 6 => p.access = Commandable /\ p.access # ReadOnly
    BY <2>1, PointFacts DEF Fits
  <2>9. ~WriteRefused(meaning)
    BY <1>8, <2>7, <2>8, Categories DEF WriteRefused
  <2>10. \/ path.source \in {"HMI-01", "ENG-WS-01"} /\ meaning.category = "READ"
         \/ path.source = "HMI-01" /\ meaning.category = "WRITE" /\ p.access = Commandable
    BY <1>8, <2>2, <2>3, <2>5, <2>8, Categories
  <2>11. matches # {}
    BY <2>3, <2>5, <2>7, <2>10, RuleExists
  <2>12. \A r \in matches : r.decision = "APPROVED"
    BY <2>3, <2>5, <2>10, MatchedRule
  <2> QED
    BY <1>7, <2>6, <2>9, <2>11, <2>12
<1>12. judged.status # "ERROR"
  BY <1>6
<1> QED
  BY <1>1, <1>2, <1>3, <1>10, <1>11, <1>12

-----------------------------------------------------------------------------
(* The behaviour: every stage stores what it makes of the stored ones.      *)
PolicyInv ==
  /\ event \in Events
  /\ stage \in {"raw", "semantic", "context", "finding"}
  /\ stage # "raw" => semantic = DecodeEvent(event)
  /\ stage \in {"context", "finding"} => context = AssetContext(event, claims, semantic)
  /\ stage = "finding" => finding = EvaluatePolicy(event, semantic, context)

\* Each of the three transactions stores the outcome for what is stored
\* (persist_semantic_evidence, persist_asset_context, persist_policy_finding).
THEOREM PolicyInvariant == Spec => []PolicyInv
<1>1. Init => PolicyInv
  BY DEF Init, PolicyInv
<1>2. PolicyInv /\ [Next]_vars => PolicyInv'
  <2> SUFFICES ASSUME PolicyInv, [Next]_vars PROVE PolicyInv'
    OBVIOUS
  <2>1. CASE Decode
    BY <2>1 DEF Decode, PolicyInv
  <2>2. CASE Resolve
    BY <2>2 DEF Resolve, PolicyInv
  <2>3. CASE Judge
    BY <2>3 DEF Judge, PolicyInv
  <2>4. CASE UNCHANGED vars
    BY <2>4 DEF vars, PolicyInv
  <2> QED
    BY <2>1, <2>2, <2>3, <2>4 DEF Next
<1> QED
  BY <1>1, <1>2, PTL DEF Spec

\* For every event and all claims: a communication is approved exactly if the
\* raw event and its claims deserve it, and no two rules contradict each other
\* (decode_event, resolve_identity, evaluate_policy, _matching_rule).
THEOREM ApprovalTheorem == Spec => []ApprovalIsJustified
<1>1. PolicyInv => ApprovalIsJustified
  BY ApprovedIff DEF PolicyInv, ApprovalIsJustified
<1> QED
  BY <1>1, PolicyInvariant, PTL

-----------------------------------------------------------------------------
(* The reason.                                                              *)

\* The primary reason is the candidate that is ranked first.
LEMMA PrimaryReason ==
  ASSUME NEW K, NEW n \in 1..18, ReasonPrecedence[n] \in K,
         \A m \in 1..18 : m < n => ReasonPrecedence[m] \notin K
  PROVE  SelectPrimaryReason(K) = ReasonPrecedence[n]
<1> DEFINE checks == [i \in DOMAIN ReasonPrecedence |->
                       IF ReasonPrecedence[i] \in K THEN ReasonPrecedence[i] ELSE None]
<1>1. DOMAIN checks = 1..18 /\ 18 \in Nat
  BY ReasonList
<1>2. \A m \in 1..18 : checks[m] = IF ReasonPrecedence[m] \in K THEN ReasonPrecedence[m] ELSE None
  BY ReasonList
<1>3. \A m \in 1..18 : ReasonPrecedence[m] # None
  BY ReasonThere DEF PolicyStatus
<1>4. SelectPrimaryReason(K) = FirstApplying(checks)
  BY DEF SelectPrimaryReason
<1> HIDE DEF checks
<1>5. Decides(checks, n)
  <2>1. checks[n] # None
    BY <1>2, <1>3
  <2>2. ASSUME NEW m \in 1..18, checks[m] # None
        PROVE  n <= m
    <3>1. ~(m < n)
      BY <1>2, <2>2
    <3> QED
      BY <3>1
  <2> QED
    BY <1>1, <2>1, <2>2 DEF Decides
<1>6. FirstApplying(checks) = checks[n]
  BY <1>1, <1>5, FirstDecides
<1> QED
  BY <1>2, <1>4, <1>6

LEMMA CandidateIff ==
  ASSUME NEW x
  PROVE  LET path == PathOf(context) IN
         x \in Candidates <=>
           \/ path # None /\ \E r \in MatchingRules(semantic, path) : x = r.reason
           \/ ~event.verified /\ x = "SOURCE_EVIDENCE_NOT_VERIFIED"
           \/ ~event.semanticVerified /\ x = "SEMANTIC_EVIDENCE_NOT_VERIFIED"
           \/ "CONFLICT" \in Statuses /\ x = "IDENTITY_CONFLICT"
           \/ context.source.status = "UNKNOWN" /\ x = "SOURCE_UNKNOWN"
           \/ context.target.status = "UNKNOWN" /\ x = "DESTINATION_UNKNOWN"
           \/ path = None /\ x = "POLICY_NOT_CLASSIFIED"
           \/ WriteRefused(semantic) /\ x = "POINT_WRITE_NOT_APPROVED"
           \/ /\ path # None /\ MatchingRules(semantic, path) = {}
              /\ x = "OPERATION_NOT_APPROVED"
<1>1. PICK path : path = PathOf(context)
  OBVIOUS
<1>2. PICK rules : rules = IF path = None THEN {} ELSE MatchingRules(semantic, path)
  OBVIOUS
<1>3. Candidates =
        {r.reason : r \in rules}
        \cup (IF ~event.verified THEN {"SOURCE_EVIDENCE_NOT_VERIFIED"} ELSE {})
        \cup (IF ~event.semanticVerified THEN {"SEMANTIC_EVIDENCE_NOT_VERIFIED"} ELSE {})
        \cup (IF "CONFLICT" \in Statuses THEN {"IDENTITY_CONFLICT"} ELSE {})
        \cup (IF context.source.status = "UNKNOWN" THEN {"SOURCE_UNKNOWN"} ELSE {})
        \cup (IF context.target.status = "UNKNOWN" THEN {"DESTINATION_UNKNOWN"} ELSE {})
        \cup (IF WriteRefused(semantic) THEN {"POINT_WRITE_NOT_APPROVED"} ELSE {})
        \cup (IF path = None THEN {"POLICY_NOT_CLASSIFIED"}
              ELSE IF rules = {} THEN {"OPERATION_NOT_APPROVED"} ELSE {})
  BY <1>1, <1>2 DEF Candidates
<1>4. x \in Candidates <=>
        \/ \E r \in rules : x = r.reason
        \/ ~event.verified /\ x = "SOURCE_EVIDENCE_NOT_VERIFIED"
        \/ ~event.semanticVerified /\ x = "SEMANTIC_EVIDENCE_NOT_VERIFIED"
        \/ "CONFLICT" \in Statuses /\ x = "IDENTITY_CONFLICT"
        \/ context.source.status = "UNKNOWN" /\ x = "SOURCE_UNKNOWN"
        \/ context.target.status = "UNKNOWN" /\ x = "DESTINATION_UNKNOWN"
        \/ path = None /\ x = "POLICY_NOT_CLASSIFIED"
        \/ WriteRefused(semantic) /\ x = "POINT_WRITE_NOT_APPROVED"
        \/ path # None /\ rules = {} /\ x = "OPERATION_NOT_APPROVED"
  BY <1>3
<1>5. CASE path = None
  <2>1. rules = {}
    BY <1>2, <1>5
  <2> QED
    BY <1>1, <1>4, <1>5, <2>1
<1>6. CASE path # None
  <2>1. rules = MatchingRules(semantic, path)
    BY <1>2, <1>6
  <2> QED
    BY <1>1, <1>4, <1>6, <2>1
<1> QED
  BY <1>5, <1>6

\* Which reasons are candidates, in the order of their rank.
LEMMA CandidateRanks ==
  ASSUME EndOf(context.source), EndOf(context.target)
  PROVE  LET path == PathOf(context)
             matches == MatchingRules(semantic, path)
             K == Candidates
         IN  /\ ReasonPrecedence[1] \in K <=> ~event.verified
             /\ ReasonPrecedence[2] \in K <=> ~event.semanticVerified
             /\ {ReasonPrecedence[n] : n \in {3, 4, 8, 9, 10, 11, 13}} \cap K = {}
             /\ ReasonPrecedence[5] \in K <=> "CONFLICT" \in Statuses
             /\ ReasonPrecedence[6] \in K <=> context.source.status = "UNKNOWN"
             /\ ReasonPrecedence[7] \in K <=> context.target.status = "UNKNOWN"
             /\ ReasonPrecedence[12] \in K <=> WriteRefused(semantic)
             /\ ReasonPrecedence[14] \in K <=> path # None /\ matches = {}
             /\ path = None => ReasonPrecedence[15] \notin K /\ ReasonPrecedence[16] \notin K
             /\ path = None => ReasonPrecedence[17] \in K
             /\ path # None => ReasonPrecedence[17] \notin K
             /\ path # None => \A r \in matches : /\ r.reason \in K
                                                  /\ \A n \in {15, 16, 18} :
                                                       ReasonPrecedence[n] \in K =>
                                                         ReasonPrecedence[n] = r.reason
<1>1. PICK path : path = PathOf(context)
  OBVIOUS
<1> DEFINE matches == MatchingRules(semantic, path)
<1>2. path # None => path \in GovernedPaths
  BY <1>1, PathOfIs
<1>3. \A r \in matches : path # None =>
        r.reason \in {Match, "SOURCE_ROLE_NOT_APPROVED", "COMMUNICATION_NOT_APPROVED"}
  BY <1>2, MatchedRule
<1>4. \A q, r \in matches : q = r
  BY MatchUnique
<1> HIDE DEF matches
<1>5. \A x : x \in Candidates <=>
           \/ path # None /\ \E r \in matches : x = r.reason
           \/ ~event.verified /\ x = "SOURCE_EVIDENCE_NOT_VERIFIED"
           \/ ~event.semanticVerified /\ x = "SEMANTIC_EVIDENCE_NOT_VERIFIED"
           \/ "CONFLICT" \in Statuses /\ x = "IDENTITY_CONFLICT"
           \/ context.source.status = "UNKNOWN" /\ x = "SOURCE_UNKNOWN"
           \/ context.target.status = "UNKNOWN" /\ x = "DESTINATION_UNKNOWN"
           \/ path = None /\ x = "POLICY_NOT_CLASSIFIED"
           \/ WriteRefused(semantic) /\ x = "POINT_WRITE_NOT_APPROVED"
           \/ path # None /\ matches = {} /\ x = "OPERATION_NOT_APPROVED"
  BY <1>1, CandidateIff DEF matches
<1>6. Match = "POLICY_MATCH_APPROVED"
  BY DEF Match
<1>7. /\ ReasonPrecedence[1] \in Candidates <=> ~event.verified
      /\ ReasonPrecedence[2] \in Candidates <=> ~event.semanticVerified
      /\ ReasonPrecedence[5] \in Candidates <=> "CONFLICT" \in Statuses
      /\ ReasonPrecedence[6] \in Candidates <=> context.source.status = "UNKNOWN"
      /\ ReasonPrecedence[7] \in Candidates <=> context.target.status = "UNKNOWN"
  BY <1>3, <1>5, <1>6, ReasonList
<1>8. {ReasonPrecedence[n] : n \in {3, 4, 8, 9, 10, 11, 13}} \cap Candidates = {}
  BY <1>3, <1>5, <1>6, ReasonList
<1>9. /\ ReasonPrecedence[12] \in Candidates <=> WriteRefused(semantic)
      /\ ReasonPrecedence[14] \in Candidates <=> path # None /\ matches = {}
      /\ ReasonPrecedence[17] \in Candidates <=> path = None
  BY <1>3, <1>5, <1>6, ReasonList
<1>10. path = None => ReasonPrecedence[15] \notin Candidates /\ ReasonPrecedence[16] \notin Candidates
  BY <1>5, <1>6, ReasonList
<1>11. ASSUME path # None, NEW r \in matches
       PROVE  /\ r.reason \in Candidates
              /\ \A n \in {15, 16, 18} : ReasonPrecedence[n] \in Candidates =>
                   ReasonPrecedence[n] = r.reason
  BY <1>4, <1>5, <1>6, <1>11, ReasonList
<1> QED
  BY <1>1, <1>7, <1>8, <1>9, <1>10, <1>11 DEF matches

\* For every event and all claims: the reason given is the candidate that the
\* contract ranks first, except that a refused write on a path nobody governs
\* is answered POLICY_NOT_CLASSIFIED (evaluate_policy, REASON_PRECEDENCE).
THEOREM ReasonTheorem == Spec => []OnlyUngovernedWriteDiffers
<1>1. ASSUME PolicyInv, stage = "finding"
      PROVE  \/ finding.reason = SelectPrimaryReason(Candidates)
             \/ /\ SelectPrimaryReason(Candidates) = "POINT_WRITE_NOT_APPROVED"
                /\ PathOf(context) = None
                /\ finding.reason = "POLICY_NOT_CLASSIFIED"
  <2>1. event \in Events /\ finding = EvaluatePolicy(event, semantic, context)
    BY <1>1 DEF PolicyInv
  <2>2. EndOf(context.source) /\ EndOf(context.target)
    BY <1>1, ContextEnds DEF PolicyInv
  <2>3. PICK path : path = PathOf(context)
    OBVIOUS
  <2>4. PICK matches : matches = MatchingRules(semantic, path)
    OBVIOUS
  <2>5. PICK K : K = Candidates
    OBVIOUS
  <2> SUFFICES \/ finding.reason = SelectPrimaryReason(K)
               \/ /\ SelectPrimaryReason(K) = "POINT_WRITE_NOT_APPROVED"
                  /\ path = None
                  /\ finding.reason = "POLICY_NOT_CLASSIFIED"
    BY <2>3, <2>5
  <2>6. /\ ReasonPrecedence[1] \in K <=> ~event.verified
        /\ ReasonPrecedence[2] \in K <=> ~event.semanticVerified
        /\ {ReasonPrecedence[n] : n \in {3, 4, 8, 9, 10, 11, 13}} \cap K = {}
        /\ ReasonPrecedence[5] \in K <=> "CONFLICT" \in Statuses
        /\ ReasonPrecedence[6] \in K <=> context.source.status = "UNKNOWN"
        /\ ReasonPrecedence[7] \in K <=> context.target.status = "UNKNOWN"
        /\ ReasonPrecedence[12] \in K <=> WriteRefused(semantic)
        /\ ReasonPrecedence[14] \in K <=> path # None /\ matches = {}
        /\ path = None => ReasonPrecedence[15] \notin K /\ ReasonPrecedence[16] \notin K
        /\ path = None => ReasonPrecedence[17] \in K
        /\ path # None => ReasonPrecedence[17] \notin K
        /\ path # None => \A r \in matches : /\ r.reason \in K
                                             /\ \A n \in {15, 16, 18} :
                                                  ReasonPrecedence[n] \in K =>
                                                    ReasonPrecedence[n] = r.reason
    BY <2>2, <2>3, <2>4, <2>5, CandidateRanks
  <2>7. \A n \in {3, 4, 8, 9, 10, 11, 13} : ReasonPrecedence[n] \notin K
    BY <2>6
  <2>8. ASSUME NEW n \in 1..18, ReasonPrecedence[n] \in K, finding.reason = ReasonPrecedence[n],
               \A m \in 1..18 : m < n => ReasonPrecedence[m] \notin K
        PROVE  finding.reason = SelectPrimaryReason(K)
    BY <2>8, PrimaryReason
  <2> DEFINE both == context.source.status = "RESOLVED" /\ context.target.status = "RESOLVED"
             clear == event.verified /\ event.semanticVerified
             conflict == "CONFLICT" \in {context.source.status, context.target.status}
             onPath == clear /\ both /\ path # None
  <2>9. \/ ~event.verified /\ finding.reason = "SOURCE_EVIDENCE_NOT_VERIFIED"
        \/ /\ event.verified /\ ~event.semanticVerified
           /\ finding.reason = "SEMANTIC_EVIDENCE_NOT_VERIFIED"
        \/ clear /\ conflict /\ finding.reason = "IDENTITY_CONFLICT"
        \/ /\ clear /\ ~conflict /\ context.source.status = "UNKNOWN"
           /\ finding.reason = "SOURCE_UNKNOWN"
        \/ /\ clear /\ ~conflict /\ context.source.status = "RESOLVED"
           /\ context.target.status = "UNKNOWN" /\ finding.reason = "DESTINATION_UNKNOWN"
        \/ clear /\ both /\ path = None /\ finding.reason = "POLICY_NOT_CLASSIFIED"
        \/ onPath /\ WriteRefused(semantic) /\ finding.reason = "POINT_WRITE_NOT_APPROVED"
        \/ /\ onPath /\ ~WriteRefused(semantic) /\ matches = {}
           /\ finding.reason = "OPERATION_NOT_APPROVED"
        \/ /\ onPath /\ ~WriteRefused(semantic)
           /\ \E r \in matches : r.decision = "DENIED" /\ finding.reason = r.reason
        \/ /\ onPath /\ ~WriteRefused(semantic)
           /\ \E r \in matches : r.decision = "APPROVED" /\ finding.reason = Match
    BY <2>1, <2>2, <2>3, <2>4, PolicyOutcome
  <2>10. conflict <=> "CONFLICT" \in Statuses
    BY DEF Statuses
  <2>11. CASE ~event.verified /\ finding.reason = "SOURCE_EVIDENCE_NOT_VERIFIED"
    BY <2>6, <2>8, <2>11, ReasonList
  <2>12. CASE /\ event.verified /\ ~event.semanticVerified
              /\ finding.reason = "SEMANTIC_EVIDENCE_NOT_VERIFIED"
    BY <2>6, <2>8, <2>12, ReasonList
  <2>13. CASE clear /\ conflict /\ finding.reason = "IDENTITY_CONFLICT"
    BY <2>6, <2>7, <2>8, <2>10, <2>13, ReasonList
  <2>14. CASE /\ clear /\ ~conflict /\ context.source.status = "UNKNOWN"
              /\ finding.reason = "SOURCE_UNKNOWN"
    BY <2>6, <2>7, <2>8, <2>10, <2>14, ReasonList
  <2>15. CASE /\ clear /\ ~conflict /\ context.source.status = "RESOLVED"
              /\ context.target.status = "UNKNOWN" /\ finding.reason = "DESTINATION_UNKNOWN"
    BY <2>6, <2>7, <2>8, <2>10, <2>15, ReasonList
  <2>16. clear /\ both => \A m \in 1..11 : ReasonPrecedence[m] \notin K
    BY <2>6, <2>7, <2>10
  <2>17. CASE clear /\ both /\ path = None /\ finding.reason = "POLICY_NOT_CLASSIFIED"
    <3>1. CASE WriteRefused(semantic)
      <4>1. \A m \in 1..18 : m < 12 => ReasonPrecedence[m] \notin K
        BY <2>16, <2>17
      <4>2. ReasonPrecedence[12] \in K
        BY <2>6, <3>1
      <4>3. SelectPrimaryReason(K) = ReasonPrecedence[12]
        BY <4>1, <4>2, PrimaryReason
      <4> QED
        BY <2>17, <4>3, ReasonList
    <3>2. CASE ~WriteRefused(semantic)
      <4>1. \A m \in 12..16 : ReasonPrecedence[m] \notin K
        BY <2>6, <2>7, <2>17, <3>2
      <4>2. \A m \in 1..18 : m < 17 => ReasonPrecedence[m] \notin K
        BY <2>16, <2>17, <4>1
      <4> QED
        BY <2>6, <2>8, <2>17, <4>2, ReasonList
    <3> QED
      BY <3>1, <3>2
  <2>18. CASE onPath /\ WriteRefused(semantic) /\ finding.reason = "POINT_WRITE_NOT_APPROVED"
    <3>1. \A m \in 1..18 : m < 12 => ReasonPrecedence[m] \notin K
      BY <2>16, <2>18
    <3> QED
      BY <2>6, <2>8, <2>18, <3>1, ReasonList
  <2>19. CASE /\ onPath /\ ~WriteRefused(semantic) /\ matches = {}
              /\ finding.reason = "OPERATION_NOT_APPROVED"
    <3>1. ReasonPrecedence[12] \notin K /\ ReasonPrecedence[13] \notin K
      BY <2>6, <2>7, <2>19
    <3>2. \A m \in 1..18 : m < 14 => ReasonPrecedence[m] \notin K
      BY <2>16, <2>19, <3>1
    <3> QED
      BY <2>6, <2>8, <2>19, <3>2, ReasonList
  <2>20. ASSUME onPath, ~WriteRefused(semantic), NEW r \in matches, finding.reason = r.reason
         PROVE  finding.reason = SelectPrimaryReason(K)
    <3>1. path \in GovernedPaths
      BY <2>3, <2>20, PathOfIs
    <3>2. r.reason \in {Match, "SOURCE_ROLE_NOT_APPROVED", "COMMUNICATION_NOT_APPROVED"}
      BY <2>4, <3>1, MatchedRule
    <3>3. PICK n \in {15, 16, 18} : ReasonPrecedence[n] = r.reason
      BY <3>2, ReasonList
    <3>4. /\ ReasonPrecedence[12] \notin K /\ ReasonPrecedence[13] \notin K
          /\ ReasonPrecedence[14] \notin K /\ ReasonPrecedence[17] \notin K
      BY <2>6, <2>7, <2>20
    <3>5. Match = "POLICY_MATCH_APPROVED"
      BY DEF Match
    <3>6. \A m \in {15, 16, 18} : ReasonPrecedence[m] \in K => m = n
      BY <2>6, <2>20, <3>3, <3>5, ReasonList
    <3>7. \A m \in 1..18 : m < n => ReasonPrecedence[m] \notin K
      BY <2>16, <2>20, <3>4, <3>6
    <3>8. n \in 1..18 /\ ReasonPrecedence[n] \in K
      BY <2>6, <2>20, <3>3
    <3> QED
      BY <2>8, <2>20, <3>3, <3>7, <3>8
  <2>21. ASSUME onPath, ~WriteRefused(semantic), NEW r \in matches, r.decision = "APPROVED",
                finding.reason = Match
         PROVE  finding.reason = SelectPrimaryReason(K)
    <3>1. path \in GovernedPaths
      BY <2>3, <2>21, PathOfIs
    <3>2. r.reason = Match
      BY <2>4, <2>21, <3>1, MatchedRule
    <3> QED
      BY <2>20, <2>21, <3>2
  <2> QED
    BY <2>9, <2>11, <2>12, <2>13, <2>14, <2>15, <2>17, <2>18, <2>19, <2>20, <2>21
<1>2. PolicyInv => OnlyUngovernedWriteDiffers
  BY <1>1 DEF OnlyUngovernedWriteDiffers
<1> QED
  BY <1>2, PolicyInvariant, PTL

=============================================================================
