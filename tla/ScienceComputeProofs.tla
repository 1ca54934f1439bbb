------------------------- MODULE ScienceComputeProofs -------------------------
(***************************************************************************)
(* Proofs about ScienceCompute, for every value of its constants: every    *)
(* response execute returns has one of the shapes of Responses (no         *)
(* division by zero in it), and every dilution response satisfies          *)
(* DilutionSound.  Both invariants are re-established by every step        *)
(* whatever the previous state, because each step computes the response   *)
(* from the request it makes; so neither needs strengthening.              *)
(***************************************************************************)
EXTENDS ScienceCompute, FiniteSetTheorems, TLAPS

USE NumAssumption, AbsentAssumption, NotNumberAssumption

-----------------------------------------------------------------------------
(* Lemmas about the four dilution fields.                                  *)

LEMMA KeysFinite == IsFiniteSet(DilutionKeys)
<1>1. IsFiniteSet({"c1"})
  BY FS_Singleton
<1>2. IsFiniteSet({"c1"} \cup {"v1"})
  BY <1>1, FS_AddElement
<1>3. IsFiniteSet({"c1"} \cup {"v1"} \cup {"c2"})
  BY <1>2, FS_AddElement
<1>4. IsFiniteSet({"c1"} \cup {"v1"} \cup {"c2"} \cup {"v2"})
  BY <1>3, FS_AddElement
<1>. QED
  BY <1>4 DEF DilutionKeys

(* A subset of the fields has one element iff it is a singleton.           *)
LEMMA OneMissing ==
  ASSUME NEW S \in SUBSET DilutionKeys
  PROVE  Cardinality(S) = 1 <=> \E u \in DilutionKeys : S = {u}
<1>1. IsFiniteSet(S)
  BY KeysFinite, FS_Subset
<1>. QED
  BY <1>1, FS_Singleton

(* The opposite side and the partner of a field are other fields.          *)
LEMMA OppositeAndPartner ==
  ASSUME NEW u \in DilutionKeys
  PROVE  /\ Opposite[u][1] \in DilutionKeys \ {u}
         /\ Opposite[u][2] \in DilutionKeys \ {u}
         /\ Partner[u] \in DilutionKeys \ {u}
         /\ Opposite[u][1] # Partner[u]
         /\ Opposite[u][2] # Partner[u]
         /\ Opposite[u][1] # Opposite[u][2]
BY DEF DilutionKeys, Opposite, Partner

-----------------------------------------------------------------------------
(* The dilution handler.                                                   *)

(* The fields compute_dilution reads, and the ones that are not numbers.   *)
DilutionInputs(c1, v1, c2, v2) ==
  [c1 |-> AsF64(c1), v1 |-> AsF64(v1), c2 |-> AsF64(c2), v2 |-> AsF64(v2)]

LEMMA DilutionInputsType ==
  ASSUME NEW c1 \in NumField, NEW v1 \in NumField, NEW c2 \in NumField,
         NEW v2 \in NumField
  PROVE  /\ DilutionInputs(c1, v1, c2, v2) \in [DilutionKeys -> Int \cup {Absent}]
         /\ DOMAIN DilutionInputs(c1, v1, c2, v2) = DilutionKeys
BY DEF DilutionInputs, AsF64, DilutionKeys

(* The fields of a dilution request that are missing, and the values      *)
(* compute_dilution returns when it solves field u.                        *)
DilutionMissing(c1, v1, c2, v2) ==
  {k \in DilutionKeys : DilutionInputs(c1, v1, c2, v2)[k] = Absent}

SolvedValues(c1, v1, c2, v2, u) ==
  LET x == DilutionInputs(c1, v1, c2, v2)
  IN  [f \in DilutionKeys |->
         IF f = u THEN Frac(x[Opposite[u][1]] * x[Opposite[u][2]], x[Partner[u]])
                  ELSE Frac(x[f], 1)]

(* What compute_dilution returns, stated by cases: not exactly one field   *)
(* missing, a non-positive divisor, or the solved record.                  *)
LEMMA DilutionCases ==
  ASSUME NEW c1 \in NumField, NEW v1 \in NumField, NEW c2 \in NumField,
         NEW v2 \in NumField
  PROVE  \/ /\ ~\E u \in DilutionKeys : DilutionMissing(c1, v1, c2, v2) = {u}
            /\ ComputeDilution(c1, v1, c2, v2) = Err("dilution", "InvalidCombination")
         \/ \E u \in DilutionKeys :
              /\ DilutionMissing(c1, v1, c2, v2) = {u}
              /\ DilutionInputs(c1, v1, c2, v2)[Partner[u]] <= 0
              /\ ComputeDilution(c1, v1, c2, v2) = Err("dilution", "NonPositiveDivisor")
         \/ \E u \in DilutionKeys :
              /\ DilutionMissing(c1, v1, c2, v2) = {u}
              /\ DilutionInputs(c1, v1, c2, v2)[Partner[u]] > 0
              /\ ComputeDilution(c1, v1, c2, v2) =
                   [kind |-> "ok", op |-> "dilution", solved |-> u,
                    values |-> SolvedValues(c1, v1, c2, v2, u)]
<1> DEFINE x       == DilutionInputs(c1, v1, c2, v2)
           missing == {k \in DilutionKeys : x[k] = Absent}
           c       == CHOOSE f \in missing : TRUE
<1>1. x \in [DilutionKeys -> Int \cup {Absent}]
  BY DilutionInputsType
<1>2. missing \in SUBSET DilutionKeys
  OBVIOUS
<1>3. ComputeDilution(c1, v1, c2, v2) =
        IF Cardinality(missing) # 1 THEN Err("dilution", "InvalidCombination")
        ELSE IF x[Partner[c]] <= 0
               THEN Err("dilution", "NonPositiveDivisor")
               ELSE [kind   |-> "ok", op |-> "dilution", solved |-> c,
                     values |-> [f \in DilutionKeys |->
                        IF f = c
                          THEN Frac(x[Opposite[c][1]] * x[Opposite[c][2]], x[Partner[c]])
                          ELSE Frac(x[f], 1)]]
  BY DEF ComputeDilution, DilutionInputs, DilutionKeys
<1>4. CASE ~\E u \in DilutionKeys : missing = {u}
  BY <1>2, <1>3, <1>4, OneMissing DEF DilutionMissing
<1>5. CASE \E u \in DilutionKeys : missing = {u}
  <2>1. PICK u \in DilutionKeys : missing = {u}
    BY <1>5
  <2>2. Cardinality(missing) = 1
    BY <2>1, <1>2, OneMissing
  <2>3. c \in DilutionKeys /\ missing = {c}
    BY <2>1
  <2>4. x[Partner[c]] \in Int
    BY <1>1, <2>3, OppositeAndPartner
  <2>5. ComputeDilution(c1, v1, c2, v2) =
          IF x[Partner[c]] <= 0
            THEN Err("dilution", "NonPositiveDivisor")
            ELSE [kind   |-> "ok", op |-> "dilution", solved |-> c,
                  values |-> [f \in DilutionKeys |->
                     IF f = c
                       THEN Frac(x[Opposite[c][1]] * x[Opposite[c][2]], x[Partner[c]])
                       ELSE Frac(x[f], 1)]]
    BY <1>3, <2>2
  <2>6. CASE x[Partner[c]] <= 0
    BY <2>3, <2>5, <2>6 DEF DilutionMissing
  <2>7. CASE x[Partner[c]] > 0
    BY <2>3, <2>4, <2>5, <2>7 DEF DilutionMissing, SolvedValues
  <2>. QED
    BY <2>4, <2>6, <2>7
<1>. QED
  BY <1>4, <1>5

(* The values of a solved record are fractions with non-zero denominators.*)
LEMMA SolvedValuesType ==
  ASSUME NEW c1 \in NumField, NEW v1 \in NumField, NEW c2 \in NumField,
         NEW v2 \in NumField, NEW u \in DilutionKeys,
         DilutionMissing(c1, v1, c2, v2) = {u},
         DilutionInputs(c1, v1, c2, v2)[Partner[u]] > 0
  PROVE  /\ SolvedValues(c1, v1, c2, v2, u) \in [DilutionKeys -> Fracs]
         /\ \A k \in DilutionKeys : SolvedValues(c1, v1, c2, v2, u)[k].den > 0
<1> DEFINE x == DilutionInputs(c1, v1, c2, v2)
<1>1. x \in [DilutionKeys -> Int \cup {Absent}]
  BY DilutionInputsType
<1>2. \A k \in DilutionKeys \ {u} : x[k] \in Int
  BY <1>1 DEF DilutionMissing
<1>3. /\ x[Opposite[u][1]] \in Int
      /\ x[Opposite[u][2]] \in Int
      /\ x[Partner[u]] \in Int
  BY <1>2, OppositeAndPartner
<1>. QED
  BY <1>2, <1>3 DEF SolvedValues, Frac, Fracs

(* Every dilution response has a shape of Responses.                       *)
LEMMA DilutionType ==
  ASSUME NEW c1 \in NumField, NEW v1 \in NumField, NEW c2 \in NumField,
         NEW v2 \in NumField
  PROVE  ComputeDilution(c1, v1, c2, v2) \in Responses
<1>1. CASE ComputeDilution(c1, v1, c2, v2) \in
             {Err("dilution", "InvalidCombination"),
              Err("dilution", "NonPositiveDivisor")}
  BY <1>1 DEF Responses, Err, ErrorKinds, KnownOps
<1>2. CASE \E u \in DilutionKeys :
              /\ DilutionMissing(c1, v1, c2, v2) = {u}
              /\ DilutionInputs(c1, v1, c2, v2)[Partner[u]] > 0
              /\ ComputeDilution(c1, v1, c2, v2) =
                   [kind |-> "ok", op |-> "dilution", solved |-> u,
                    values |-> SolvedValues(c1, v1, c2, v2, u)]
  BY <1>2, SolvedValuesType DEF Responses
<1>. QED
  BY <1>1, <1>2, DilutionCases

-----------------------------------------------------------------------------
(* The other handlers.                                                     *)

LEMMA StatisticsType ==
  ASSUME NEW d \in DataArrays \cup {Absent}
  PROVE  ComputeStatistics(d) \in Responses
BY DEF ComputeStatistics, Err, Ok, Responses, ErrorKinds, KnownOps

LEMMA UnitConvertType ==
  ASSUME NEW v \in NumField, NEW f \in UnitSpellings \cup {Absent},
         NEW t \in UnitSpellings \cup {Absent}
  PROVE  ComputeUnitConversion(v, f, t) \in Responses
BY DEF ComputeUnitConversion, ConvertUnits, Err, Ok, Responses, ErrorKinds,
       KnownOps

LEMMA ConstantsType ==
  ASSUME NEW n \in ConstantNames \cup {Absent}
  PROVE  LookupConstant(n) \in Responses
<1>1. CASE n = Absent \/ Lowercase[n] \notin RegistryNames
  BY <1>1 DEF LookupConstant, Err, Responses, ErrorKinds, KnownOps
<1>2. CASE n # Absent /\ Lowercase[n] \in RegistryNames
  <2>1. \E row \in Registry : Lowercase[n] \in row.names
    BY <1>2 DEF RegistryNames
  <2>2. LET r == CHOOSE row \in Registry : Lowercase[n] \in row.names
        IN  r \in Registry
    BY <2>1
  <2>. QED
    BY <1>2, <2>2 DEF LookupConstant, Responses
<1>. QED
  BY <1>1, <1>2

LEMMA MolarityType ==
  ASSUME NEW m \in NumField, NEW w \in NumField, NEW v \in NumField
  PROVE  ComputeMolarity(m, w, v) \in Responses
<1>1. CASE AsF64(m) = Absent \/ AsF64(w) = Absent \/ AsF64(v) = Absent
       \/ NonPositive(AsF64(w), AsF64(v))
  BY <1>1 DEF ComputeMolarity, Err, Responses, ErrorKinds, KnownOps
<1>2. CASE ~(AsF64(m) = Absent \/ AsF64(w) = Absent \/ AsF64(v) = Absent
             \/ NonPositive(AsF64(w), AsF64(v)))
  <2>1. AsF64(m) \in Int /\ AsF64(w) \in Int /\ AsF64(v) \in Int
    BY <1>2 DEF AsF64
  <2>2. AsF64(w) > 0 /\ AsF64(v) > 0
    BY <1>2, <2>1 DEF NonPositive
  <2>3. AsF64(w) * AsF64(v) \in Int \ {0}
    BY <2>1, <2>2
  <2>. QED
    BY <1>2, <2>1, <2>2, <2>3
       DEF ComputeMolarity, MolarityOutputs, Frac, Fracs, Responses
<1>. QED
  BY <1>1, <1>2

-----------------------------------------------------------------------------
(* Type correctness: execute only ever holds a request the caller can     *)
(* send and returns a response of one of the shapes of Responses; in       *)
(* particular no dilution or molarity answer divides by zero.             *)

LEMMA InitTypeOK == Init => TypeOK
BY DEF Init, TypeOK, Requests, Responses, NoRequest, NoResponse

LEMMA NextTypeOK == TypeOK /\ [Next]_vars => TypeOK'
<1> SUFFICES ASSUME TypeOK, [Next]_vars PROVE TypeOK'
  OBVIOUS
<1>1. CASE Statistics
  BY <1>1, StatisticsType DEF Statistics, TypeOK, Requests
<1>2. CASE UnitConvert
  BY <1>2, UnitConvertType DEF UnitConvert, TypeOK, Requests
<1>3. CASE Constants
  BY <1>3, ConstantsType DEF Constants, TypeOK, Requests
<1>4. CASE Dilution
  BY <1>4, DilutionType DEF Dilution, TypeOK, Requests
<1>5. CASE Molarity
  BY <1>5, MolarityType DEF Molarity, TypeOK, Requests
<1>6. CASE UnknownOperation
  BY <1>6 DEF UnknownOperation, TypeOK, Requests, Responses, Err, ErrorKinds
<1>7. CASE UNCHANGED vars
  BY <1>7 DEF vars, TypeOK
<1>. QED
  BY <1>1, <1>2, <1>3, <1>4, <1>5, <1>6, <1>7 DEF Next

(* Theorem: TypeOK holds in every reachable state, for every value of the  *)
(* constants; the responses of execute never carry a zero denominator.     *)
THEOREM TypeCorrect == Spec => []TypeOK
<1>1. Init => TypeOK
  BY InitTypeOK
<1>2. TypeOK /\ [Next]_vars => TypeOK'
  BY NextTypeOK
<1>. QED
  BY <1>1, <1>2, PTL DEF Spec

-----------------------------------------------------------------------------
(* DilutionSound.  Every step of execute computes its response from the    *)
(* request it records, so the property is re-established by each step on *)
(* its own: a dilution step by what compute_dilution returns, any other    *)
(* step because its response is not a dilution response.                  *)

(* The cross-multiplied C1*V1 = C2*V2 of the solved record, one case per   *)
(* arm of the match.                                                       *)
LEMMA SolvedBalances ==
  ASSUME NEW c1 \in NumField, NEW v1 \in NumField, NEW c2 \in NumField,
         NEW v2 \in NumField, NEW u \in DilutionKeys,
         DilutionMissing(c1, v1, c2, v2) = {u}
  PROVE  LET r == SolvedValues(c1, v1, c2, v2, u)
         IN  r.c1.num * r.v1.num * r.c2.den * r.v2.den
               = r.c2.num * r.v2.num * r.c1.den * r.v1.den
<1> DEFINE x == DilutionInputs(c1, v1, c2, v2)
<1>1. x \in [DilutionKeys -> Int \cup {Absent}]
  BY DilutionInputsType
<1>2. \A k \in DilutionKeys \ {u} : x[k] \in Int
  BY <1>1 DEF DilutionMissing
<1>3. CASE u = "c1"
  BY <1>2, <1>3 DEF DilutionKeys, SolvedValues, Frac, Opposite, Partner
<1>4. CASE u = "v1"
  BY <1>2, <1>4 DEF DilutionKeys, SolvedValues, Frac, Opposite, Partner
<1>5. CASE u = "c2"
  BY <1>2, <1>5 DEF DilutionKeys, SolvedValues, Frac, Opposite, Partner
<1>6. CASE u = "v2"
  BY <1>2, <1>6 DEF DilutionKeys, SolvedValues, Frac, Opposite, Partner
<1>. QED
  BY <1>3, <1>4, <1>5, <1>6 DEF DilutionKeys

(* What DilutionSound says of one dilution request and its response.      *)
LEMMA DilutionResponseSound ==
  ASSUME NEW c1 \in NumField, NEW v1 \in NumField, NEW c2 \in NumField,
         NEW v2 \in NumField
  PROVE  LET resp    == ComputeDilution(c1, v1, c2, v2)
             x       == DilutionInputs(c1, v1, c2, v2)
             missing == DilutionMissing(c1, v1, c2, v2)
         IN  /\ resp.kind = "ok" <=>
                  \E u \in DilutionKeys : missing = {u} /\ x[Partner[u]] > 0
             /\ resp.kind = "ok" =>
                  LET r == resp.values
                  IN  /\ missing = {resp.solved}
                      /\ \A k \in DilutionKeys : r[k].den > 0
                      /\ \A k \in DilutionKeys \ missing : r[k] = Frac(x[k], 1)
                      /\ r.c1.num * r.v1.num * r.c2.den * r.v2.den
                           = r.c2.num * r.v2.num * r.c1.den * r.v1.den
<1> DEFINE resp     == ComputeDilution(c1, v1, c2, v2)
           x        == DilutionInputs(c1, v1, c2, v2)
           missing  == DilutionMissing(c1, v1, c2, v2)
<1>1. x \in [DilutionKeys -> Int \cup {Absent}]
  BY DilutionInputsType
<1>2. \/ /\ ~\E u \in DilutionKeys : missing = {u}
         /\ resp = Err("dilution", "InvalidCombination")
      \/ \E u \in DilutionKeys :
           /\ missing = {u}
           /\ x[Partner[u]] <= 0
           /\ resp = Err("dilution", "NonPositiveDivisor")
      \/ \E u \in DilutionKeys :
           /\ missing = {u}
           /\ x[Partner[u]] > 0
           /\ resp = [kind |-> "ok", op |-> "dilution", solved |-> u,
                      values |-> SolvedValues(c1, v1, c2, v2, u)]
  BY DilutionCases
<1>6. \A u \in DilutionKeys : missing = {u} => x[Partner[u]] \in Int
  BY <1>1, OppositeAndPartner DEF DilutionMissing
<1>3. CASE ~\E u \in DilutionKeys : missing = {u}
  BY <1>2, <1>3 DEF Err
<1>4. CASE \E u \in DilutionKeys : missing = {u} /\ x[Partner[u]] <= 0
  <2>1. PICK u \in DilutionKeys : missing = {u} /\ x[Partner[u]] <= 0
    BY <1>4
  <2>2. ASSUME NEW w \in DilutionKeys, missing = {w}
        PROVE  w = u
    BY <2>1, <2>2
  <2>. QED
    BY <1>2, <1>6, <2>1, <2>2 DEF Err
<1>5. CASE \E u \in DilutionKeys : missing = {u} /\ x[Partner[u]] > 0
  <2>1. PICK u \in DilutionKeys : missing = {u} /\ x[Partner[u]] > 0
    BY <1>5
  <2>2. ASSUME NEW w \in DilutionKeys, missing = {w}
        PROVE  w = u
    BY <2>1, <2>2
  <2>3. resp = [kind |-> "ok", op |-> "dilution", solved |-> u,
                values |-> SolvedValues(c1, v1, c2, v2, u)]
    BY <1>2, <1>6, <2>1, <2>2 DEF Err
  <2>4. \A k \in DilutionKeys \ missing :
          SolvedValues(c1, v1, c2, v2, u)[k] = Frac(x[k], 1)
    BY <2>1 DEF SolvedValues
  <2>. QED
    BY <2>1, <2>3, <2>4, SolvedValuesType, SolvedBalances
<1>7. \/ ~\E u \in DilutionKeys : missing = {u}
      \/ \E u \in DilutionKeys : missing = {u} /\ x[Partner[u]] <= 0
      \/ \E u \in DilutionKeys : missing = {u} /\ x[Partner[u]] > 0
  BY <1>6
<1>. QED
  BY <1>3, <1>4, <1>5, <1>7, Zenon

LEMMA DilutionStep == Dilution => DilutionSound'
<1> SUFFICES ASSUME NEW c1 \in NumField, NEW v1 \in NumField,
                    NEW c2 \in NumField, NEW v2 \in NumField,
                    request' = [op |-> "dilution", c1 |-> c1, v1 |-> v1,
                                c2 |-> c2, value |-> v2],
                    response' = ComputeDilution(c1, v1, c2, v2)
             PROVE  DilutionSound'
  BY DEF Dilution
<1> DEFINE resp    == ComputeDilution(c1, v1, c2, v2)
           x       == DilutionInputs(c1, v1, c2, v2)
           missing == DilutionMissing(c1, v1, c2, v2)
<1>1. /\ resp.kind = "ok" <=>
           \E u \in DilutionKeys : missing = {u} /\ x[Partner[u]] > 0
      /\ resp.kind = "ok" =>
           LET r == resp.values
           IN  /\ missing = {resp.solved}
               /\ \A k \in DilutionKeys : r[k].den > 0
               /\ \A k \in DilutionKeys \ missing : r[k] = Frac(x[k], 1)
               /\ r.c1.num * r.v1.num * r.c2.den * r.v2.den
                    = r.c2.num * r.v2.num * r.c1.den * r.v1.den
  BY DilutionResponseSound
<1>2. /\ x = [c1 |-> AsF64(request'.c1), v1 |-> AsF64(request'.v1),
               c2 |-> AsF64(request'.c2), v2 |-> AsF64(request'.value)]
      /\ missing = {k \in DilutionKeys : x[k] = Absent}
      /\ response' = resp
  BY DEF DilutionInputs, DilutionMissing
<1>. QED
  BY <1>1, <1>2 DEF DilutionSound

(* The other handlers answer under their own operation name.               *)
LEMMA OtherHandlersOp ==
  /\ \A d : ComputeStatistics(d).op = "statistics"
  /\ \A v, f, t : ComputeUnitConversion(v, f, t).op = "unit_convert"
  /\ \A n : LookupConstant(n).op = "constants"
  /\ \A m, w, v : ComputeMolarity(m, w, v).op = "molarity"
BY DEF ComputeStatistics, ComputeUnitConversion, ConvertUnits, LookupConstant,
       ComputeMolarity, MolarityOutputs, Err, Ok

LEMMA NextDilutionSound == DilutionSound /\ [Next]_vars => DilutionSound'
<1> SUFFICES ASSUME DilutionSound, [Next]_vars PROVE DilutionSound'
  OBVIOUS
<1>1. CASE Dilution
  BY <1>1, DilutionStep
<1>2. CASE Statistics \/ UnitConvert \/ Constants \/ Molarity
  <2>1. response'.op # "dilution"
    BY <1>2, OtherHandlersOp DEF Statistics, UnitConvert, Constants, Molarity
  <2>. QED
    BY <2>1 DEF DilutionSound
<1>3. CASE UnknownOperation
  <2>1. response'.kind \in {"MissingField", "UnknownOperation"}
    BY <1>3 DEF UnknownOperation, Err
  <2>. QED
    BY <2>1 DEF DilutionSound
<1>4. CASE UNCHANGED vars
  BY <1>4 DEF vars, DilutionSound
<1>. QED
  BY <1>1, <1>2, <1>3, <1>4 DEF Next

(* Theorem: for every value of the constants, whenever execute has         *)
(* answered a dilution request, the answer is ok exactly when one field is *)
(* missing and its divisor is positive, and an ok answer solves that       *)
(* field, echoes the others and satisfies C1*V1 = C2*V2 (compute_dilution, *)
(* science.rs).                                                            *)
THEOREM DilutionCorrect == Spec => []DilutionSound
<1>1. Init => DilutionSound
  BY DEF Init, DilutionSound, NoResponse
<1>2. DilutionSound /\ [Next]_vars => DilutionSound'
  BY NextDilutionSound
<1>. QED
  BY <1>1, <1>2, PTL DEF Spec


-----------------------------------------------------------------------------
(* Molarity.                                                               *)

(* compute_dilution answers for "dilution" on every path.                  *)
LEMMA DilutionOp ==
  \A c1, v1, c2, v2 : ComputeDilution(c1, v1, c2, v2).op = "dilution"
BY DEF ComputeDilution, Err

(* A molarity request answered ok: the three fields were numbers, the     *)
(* divisors positive, and the outputs are the quotients of compute_molarity.*)
LEMMA MolarityStep ==
  ASSUME NEW m \in NumField, NEW w \in NumField, NEW v \in NumField,
         request' = [op |-> "molarity", mass_grams |-> m, molecular_weight |-> w,
                     volume_liters |-> v],
         response' = ComputeMolarity(m, w, v)
  PROVE  MolaritySound'
<1> SUFFICES ASSUME response'.kind = "ok"
             PROVE  /\ w > 0 /\ v > 0
                    /\ response'.molarity.den > 0 /\ response'.moles.den > 0
                    /\ response'.molarity.num * w * v = m * response'.molarity.den
                    /\ response'.moles.num * response'.molarity.den
                         = response'.molarity.num * v * response'.moles.den
                    /\ response'.mmolar.num * response'.molarity.den
                         = 1000 * response'.molarity.num * response'.mmolar.den
  BY DEF MolaritySound, IsOk
<1>1. /\ AsF64(m) # Absent /\ AsF64(w) # Absent /\ AsF64(v) # Absent
      /\ ~NonPositive(AsF64(w), AsF64(v))
      /\ response' = MolarityOutputs(AsF64(m), AsF64(w), AsF64(v))
  BY DEF ComputeMolarity, Err
<1>2. m \in Int /\ w \in Int /\ v \in Int
  BY <1>1 DEF AsF64
<1>3. AsF64(m) = m /\ AsF64(w) = w /\ AsF64(v) = v
  BY <1>2 DEF AsF64
<1>4. w > 0 /\ v > 0
  BY <1>1, <1>2, <1>3 DEF NonPositive
<1>5. /\ response'.moles = [num |-> m, den |-> w]
      /\ response'.molarity = [num |-> m, den |-> w * v]
      /\ response'.mmolar = [num |-> 1000 * m, den |-> w * v]
  BY <1>1, <1>3 DEF MolarityOutputs, Frac
<1>6. w * v > 0
  BY <1>2, <1>4
<1>. QED
  BY <1>2, <1>4, <1>5, <1>6

LEMMA NextMolaritySound == MolaritySound /\ [Next]_vars => MolaritySound'
<1> SUFFICES ASSUME MolaritySound, [Next]_vars PROVE MolaritySound'
  OBVIOUS
<1>1. CASE Molarity
  BY <1>1, MolarityStep DEF Molarity
<1>2. CASE Statistics \/ UnitConvert \/ Constants \/ Dilution
  <2>1. response'.op # "molarity"
    BY <1>2, OtherHandlersOp, DilutionOp DEF Statistics, UnitConvert, Constants, Dilution
  <2>. QED
    BY <2>1 DEF MolaritySound, IsOk
<1>3. CASE UnknownOperation
  <2>1. response'.kind \in {"MissingField", "UnknownOperation"}
    BY <1>3 DEF UnknownOperation, Err
  <2>. QED
    BY <2>1 DEF MolaritySound, IsOk
<1>4. CASE UNCHANGED vars
  BY <1>4 DEF vars, MolaritySound, IsOk
<1>. QED
  BY <1>1, <1>2, <1>3, <1>4 DEF Next

(* Theorem: for every value of the constants, whenever execute has         *)
(* answered a molarity request ok, the molecular weight and the volume     *)
(* were positive, and the moles, the molarity and the mmol/L it returns    *)
(* are mass / weight, moles / volume and 1000 * molarity, with no zero     *)
(* denominator (compute_molarity, science.rs).                             *)
THEOREM MolarityCorrect == Spec => []MolaritySound
<1>1. Init => MolaritySound
  BY DEF Init, MolaritySound, IsOk, NoResponse
<1>2. MolaritySound /\ [Next]_vars => MolaritySound'
  BY NextMolaritySound
<1>. QED
  BY <1>1, <1>2, PTL DEF Spec

=============================================================================
