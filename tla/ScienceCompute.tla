---------------------------- MODULE ScienceCompute ----------------------------
(***************************************************************************)
(* ScienceComputeTool of src/src/tools/builtin/science.rs: the dispatch    *)
(* facade `execute` and the five handlers it routes to (compute_statistics,*)
(* compute_unit_conversion, lookup_constant, compute_dilution,             *)
(* compute_molarity).  The tool keeps no state between calls, so the       *)
(* state is the last request and the response `execute` returned for it;  *)
(* each action is one call of `execute` on any request the caller can      *)
(* build from the bounded inputs.                                          *)
(*                                                                         *)
(* Every error the handlers return is ToolError::InvalidParameters; its   *)
(* message is abstracted to the branch that produced it (`kind`).         *)
(***************************************************************************)
EXTENDS Integers, Sequences, FiniteSets, UnitTables, Statistics

CONSTANTS
  Num,            \* the numbers a request field may hold
  MaxData,        \* the longest `data` array offered to statistics
  UnitSpellings,  \* the unit strings offered as from_unit / to_unit
  ConstantNames,  \* the strings offered as `constant`
  OpNames,        \* the strings offered as `operation`
  Lowercase,      \* str::to_lowercase on every string above
  Absent,         \* a field missing from the JSON params
  NotNumber       \* a JSON value in a numeric field that is not a number

ASSUME NumAssumption       == Num \subseteq Int
ASSUME MaxDataAssumption   == MaxData \in Nat
ASSUME AbsentAssumption    == Absent \notin Int /\ Absent # NotNumber
ASSUME NotNumberAssumption == NotNumber \notin Int
ASSUME LowercaseAssumption ==
  Lowercase \in [UnitSpellings \cup ConstantNames -> STRING]

VARIABLES request, response

vars == <<request, response>>

KnownOps == {"statistics", "unit_convert", "constants", "dilution", "molarity"}

(* A numeric field: absent, not a number, or a number.                     *)
NumField == Num \cup {Absent, NotNumber}

(* params.get(f).and_then(|v| v.as_f64()): the number, or Absent (None).   *)
AsF64(x) == IF x \in Int THEN x ELSE Absent

(* The `data` arrays offered to statistics.                               *)
DataArrays == UNION {[1..k -> Num \cup {NotNumber}] : k \in 0..MaxData}

Err(op, kind) == [kind |-> kind, op |-> op]
Ok(op)        == [kind |-> "ok", op |-> op]

(* An exact fraction.                                                      *)
Frac(n, d) == [num |-> n, den |-> d]

-----------------------------------------------------------------------------
(* lookup_constant's registry: the match arms, alias and canonical name    *)
(* together; value is the f64 literal of the source.  Characters of the    *)
(* source's unit and label strings outside Latin-1 (superscripts, Greek,   *)
(* the middle dot) are spelled in ASCII, which SANY requires.              *)
ConstantRow(names, value, unit, label) ==
  [names |-> names, value |-> value, unit |-> unit, label |-> label]

Registry == {
  ConstantRow({"avogadro", "na"}, "6.02214076e23", "mol^-1", "Avogadro's number"),
  ConstantRow({"boltzmann", "kb"}, "1.380649e-23", "J/K", "Boltzmann constant"),
  ConstantRow({"planck", "h"}, "6.62607015e-34", "J*s", "Planck constant"),
  ConstantRow({"hbar", "reduced_planck"}, "1.054571817e-34", "J*s", "Reduced Planck constant (hbar)"),
  ConstantRow({"gas_constant", "r"}, "8.314462618", "J/(mol*K)", "Universal gas constant"),
  ConstantRow({"speed_of_light", "c"}, "2.99792458e8", "m/s", "Speed of light in vacuum"),
  ConstantRow({"faraday", "f"}, "96485.33212", "C/mol", "Faraday constant"),
  ConstantRow({"electron_mass", "me"}, "9.1093837015e-31", "kg", "Electron mass"),
  ConstantRow({"proton_mass", "mp"}, "1.67262192369e-27", "kg", "Proton mass"),
  ConstantRow({"neutron_mass", "mn"}, "1.67492749804e-27", "kg", "Neutron mass"),
  ConstantRow({"elementary_charge", "e"}, "1.602176634e-19", "C", "Elementary charge"),
  ConstantRow({"gravitational", "g"}, "6.67430e-11", "m^3/(kg*s^2)", "Gravitational constant"),
  ConstantRow({"standard_gravity", "g0"}, "9.80665", "m/s^2", "Standard acceleration of gravity"),
  ConstantRow({"vacuum_permittivity", "epsilon0"}, "8.8541878128e-12", "F/m", "Vacuum permittivity (epsilon0)"),
  ConstantRow({"vacuum_permeability", "mu0"}, "1.25663706212e-6", "H/m", "Vacuum permeability (mu0)"),
  ConstantRow({"stefan_boltzmann", "sigma"}, "5.670374419e-8", "W/(m^2*K^4)", "Stefan-Boltzmann constant"),
  ConstantRow({"water_molar_mass"}, "18.01528", "g/mol", "Molar mass of water")}

RegistryNames == UNION {r.names : r \in Registry}

-----------------------------------------------------------------------------
(* The handlers: each maps the params it reads to the response.            *)

(* compute_statistics: 'data' must be an array, and hold a number.         *)
ComputeStatistics(data) ==
  IF data = Absent THEN Err("statistics", "MissingField")
  ELSE IF Len(Values(data)) = 0 THEN Err("statistics", "EmptySample")
  ELSE Ok("statistics")

(* convert_units: lowercase both, to_base_unit, then from_base_unit.       *)
ConvertUnits(from, to) ==
  LET f == Lowercase[from]
      t == Lowercase[to]
  IN  IF f \notin ToBaseSpellings THEN Err("unit_convert", "UnknownUnit")
      ELSE IF ~FromBaseMatches(ToBaseArm(f).base, t)
             THEN Err("unit_convert", "IncompatibleUnits")
      ELSE Ok("unit_convert")

(* compute_unit_conversion: value, from_unit and to_unit are required, in  *)
(* that order.                                                             *)
ComputeUnitConversion(value, from, to) ==
  IF AsF64(value) = Absent \/ from = Absent \/ to = Absent
    THEN Err("unit_convert", "MissingField")
    ELSE ConvertUnits(from, to)

(* lookup_constant: the lowercased name selects a registry arm.            *)
LookupConstant(name) ==
  IF name = Absent THEN Err("constants", "MissingField")
  ELSE IF Lowercase[name] \notin RegistryNames
    THEN Err("constants", "UnknownConstant")
  ELSE LET r == CHOOSE row \in Registry : Lowercase[name] \in row.names
       IN  [kind |-> "ok", op |-> "constants", name |-> r.label,
            symbol |-> name, value |-> r.value, unit |-> r.unit]

(* compute_dilution.  The four arms of the match are one rule: the single  *)
(* absent field is solved, dividing the product of the opposite side of    *)
(* C1*V1 = C2*V2 by its partner on its own side, which must be > 0.        *)
(* Plausible fault: solving V1 guarded by, and divided by, C2.           *)
FaultyPartner == [c1 |-> "v1", v1 |-> "c2", c2 |-> "v2", v2 |-> "c2"]

Partner  == [c1 |-> "v1", v1 |-> "c1", c2 |-> "v2", v2 |-> "c2"]
Opposite == [c1 |-> <<"c2", "v2">>, v1 |-> <<"c2", "v2">>,
             c2 |-> <<"c1", "v1">>, v2 |-> <<"c1", "v1">>]

ComputeDilution(c1, v1, c2, v2) ==
  LET x == [c1 |-> AsF64(c1), v1 |-> AsF64(v1), c2 |-> AsF64(c2), v2 |-> AsF64(v2)]
      missing == {f \in DOMAIN x : x[f] = Absent}
  IN  IF Cardinality(missing) # 1 THEN Err("dilution", "InvalidCombination")
      ELSE LET u    == CHOOSE f \in missing : TRUE
               prod == x[Opposite[u][1]] * x[Opposite[u][2]]
           IN  IF x[Partner[u]] <= 0
                 THEN Err("dilution", "NonPositiveDivisor")
                 ELSE [kind   |-> "ok", op |-> "dilution", solved |-> u,
                       values |-> [f \in DOMAIN x |->
                                     IF f = u THEN Frac(prod, x[Partner[u]])
                                              ELSE Frac(x[f], 1)]]

(* Plausible fault: the volume check left out.                           *)
FaultyNonPositive(w, v) == w <= 0

(* The two "must be > 0" checks of compute_molarity.                       *)
NonPositive(w, v) == w <= 0 \/ v <= 0

(* Plausible fault: mmol/L scaled by 100.                                  *)
FaultyMolarityOutputs(m, w, v) ==
  [kind |-> "ok", op |-> "molarity", moles |-> Frac(m, w),
   molarity |-> Frac(m, w * v), mmolar |-> Frac(100 * m, w * v)]

(* moles = mass / mw, molarity = moles / vol, and molarity * 1000.         *)
MolarityOutputs(m, w, v) ==
  [kind |-> "ok", op |-> "molarity", moles |-> Frac(m, w),
   molarity |-> Frac(m, w * v), mmolar |-> Frac(1000 * m, w * v)]

(* compute_molarity: mass_grams, molecular_weight, volume_liters required  *)
(* in that order; then molecular_weight > 0 and volume_liters > 0.         *)
ComputeMolarity(mass, mw, vol) ==
  LET m == AsF64(mass)
      w == AsF64(mw)
      v == AsF64(vol)
  IN  IF m = Absent \/ w = Absent \/ v = Absent
        THEN Err("molarity", "MissingField")
      ELSE IF NonPositive(w, v) THEN Err("molarity", "NonPositive")
      ELSE MolarityOutputs(m, w, v)

-----------------------------------------------------------------------------
(* execute: one action per arm of `match operation`.                       *)

NoRequest  == [op |-> "none"]
NoResponse == [kind |-> "none", op |-> "none"]

Init ==
  /\ request = NoRequest
  /\ response = NoResponse

Statistics ==
  \E d \in DataArrays \cup {Absent} :
    /\ request' = [op |-> "statistics", data |-> d]
    /\ response' = ComputeStatistics(d)

UnitConvert ==
  \E v \in NumField, f, t \in UnitSpellings \cup {Absent} :
    /\ request' = [op |-> "unit_convert", value |-> v, from_unit |-> f, to_unit |-> t]
    /\ response' = ComputeUnitConversion(v, f, t)

Constants ==
  \E n \in ConstantNames \cup {Absent} :
    /\ request' = [op |-> "constants", constant |-> n]
    /\ response' = LookupConstant(n)

Dilution ==
  \E c1, v1, c2, v2 \in NumField :
    /\ request' = [op |-> "dilution", c1 |-> c1, v1 |-> v1, c2 |-> c2, value |-> v2]
    /\ response' = ComputeDilution(c1, v1, c2, v2)

Molarity ==
  \E m, w, v \in NumField :
    /\ request' = [op |-> "molarity", mass_grams |-> m, molecular_weight |-> w,
                   volume_liters |-> v]
    /\ response' = ComputeMolarity(m, w, v)

(* An `operation` outside the five, or no `operation` at all.              *)
UnknownOperation ==
  \E o \in (OpNames \ KnownOps) \cup {Absent} :
    /\ request' = [op |-> o]
    /\ response' = Err(o, IF o = Absent THEN "MissingField" ELSE "UnknownOperation")

Next ==
  \/ Statistics
  \/ UnitConvert
  \/ Constants
  \/ Dilution
  \/ Molarity
  \/ UnknownOperation

Spec == Init /\ [][Next]_vars

-----------------------------------------------------------------------------
(***************************************************************************)
(* Types.                                                                  *)
(***************************************************************************)
DilutionKeys == {"c1", "v1", "c2", "v2"}

(* A quotient the code computes; a zero denominator would be a division    *)
(* by zero in f64 (inf or NaN in the response).                            *)
Fracs == [num : Int, den : Int \ {0}]

ErrorKinds == {"MissingField", "UnknownOperation", "UnknownUnit",
               "IncompatibleUnits", "UnknownConstant", "EmptySample",
               "InvalidCombination", "NonPositive", "NonPositiveDivisor"}

Requests ==
  {NoRequest}
  \cup [op : {"statistics"}, data : DataArrays \cup {Absent}]
  \cup [op : {"unit_convert"}, value : NumField,
        from_unit : UnitSpellings \cup {Absent}, to_unit : UnitSpellings \cup {Absent}]
  \cup [op : {"constants"}, constant : ConstantNames \cup {Absent}]
  \cup [op : {"dilution"}, c1 : NumField, v1 : NumField, c2 : NumField, value : NumField]
  \cup [op : {"molarity"}, mass_grams : NumField, molecular_weight : NumField,
        volume_liters : NumField]
  \cup [op : (OpNames \ KnownOps) \cup {Absent}]

Responses ==
  {NoResponse}
  \cup [kind : ErrorKinds, op : KnownOps \cup OpNames \cup {Absent}]
  \cup [kind : {"ok"}, op : {"statistics", "unit_convert"}]
  \cup [kind : {"ok"}, op : {"constants"}, name : {r.label : r \in Registry},
        symbol : ConstantNames, value : {r.value : r \in Registry},
        unit : {r.unit : r \in Registry}]
  \cup [kind : {"ok"}, op : {"dilution"}, solved : DilutionKeys,
        values : [DilutionKeys -> Fracs]]
  \cup [kind : {"ok"}, op : {"molarity"}, moles : Fracs, molarity : Fracs,
        mmolar : Fracs]

(* Every request is one the caller can send and every response one of the  *)
(* shapes execute returns; no response carries a division by zero.         *)
TypeOK ==
  /\ request \in Requests
  /\ response \in Responses

-----------------------------------------------------------------------------
(***************************************************************************)
(* Safety properties, each relating the response to its request.           *)
(***************************************************************************)
IsOk(op) == response.kind = "ok" /\ response.op = op

(* convert_units accepts a pair of spellings exactly when both name units  *)
(* and the units have the same base in to_base_unit (the spec's category): *)
(* from_base_unit, a second table keyed on the base, must list every       *)
(* spelling under the base that to_base_unit gives it, and no other.       *)
ConversionCategorySound ==
  LET f == Lowercase[request.from_unit]
      t == Lowercase[request.to_unit]
  IN  (response.op = "unit_convert" /\ response.kind \in {"ok", "UnknownUnit", "IncompatibleUnits"})
        => (response.kind = "ok" <=>
              /\ f \in ToBaseSpellings
              /\ t \in ToBaseSpellings
              /\ ToBaseArm(f).base = ToBaseArm(t).base)

(* A successful conversion from A to B round-trips exactly: the            *)
(* from_base_unit arm of each unit undoes its to_base_unit arm, so         *)
(* converting the result back from B to A returns the input (the affine    *)
(* temperature arms included).                                             *)
RoundTripExact ==
  IsOk("unit_convert") =>
    LET f == Lowercase[request.from_unit]
        t == Lowercase[request.to_unit]
        b == ToBaseArm(f).base
    IN  /\ FromBaseMatches(b, f)
        /\ Undoes(FromBaseArm(b, f).map, ToBaseArm(f).map)
        /\ Undoes(FromBaseArm(b, t).map, ToBaseArm(t).map)

(* compute_dilution answers exactly when three of c1, v1, c2, value are    *)
(* numbers and the divisor its arm uses is > 0; the answer solves the      *)
(* fourth, echoes the three it was given, divides by no zero, and          *)
(* satisfies C1*V1 = C2*V2.                                                *)
DilutionSound ==
  response.op = "dilution" /\ response.kind \in {"ok", "NonPositiveDivisor", "InvalidCombination"} =>
    LET x == [c1 |-> AsF64(request.c1), v1 |-> AsF64(request.v1),
              c2 |-> AsF64(request.c2), v2 |-> AsF64(request.value)]
        missing == {k \in DilutionKeys : x[k] = Absent}
    IN  /\ response.kind = "ok" <=>
             \E u \in DilutionKeys : missing = {u} /\ x[Partner[u]] > 0
        /\ response.kind = "ok" =>
             LET r == response.values
             IN  /\ missing = {response.solved}
                 /\ \A k \in DilutionKeys : r[k].den > 0
                 /\ \A k \in DilutionKeys \ missing : r[k] = Frac(x[k], 1)
                 /\ r.c1.num * r.v1.num * r.c2.den * r.v2.den
                      = r.c2.num * r.v2.num * r.c1.den * r.v1.den

(* compute_molarity answers only for positive molecular weight and volume, *)
(* and its three outputs agree: molarity * MW * volume = mass,             *)
(* moles = molarity * volume and mmol/L = 1000 * mol/L.                    *)
MolaritySound ==
  IsOk("molarity") =>
    LET m == request.mass_grams
        w == request.molecular_weight
        v == request.volume_liters
        M == response.molarity
    IN  /\ w > 0 /\ v > 0
        /\ M.den > 0 /\ response.moles.den > 0
        /\ M.num * w * v = m * M.den
        /\ response.moles.num * M.den = M.num * v * response.moles.den
        /\ response.mmolar.num * M.den = 1000 * M.num * response.mmolar.den

(* The statistics of the request's sample, when execute answered it.       *)
StatsOfRequest == Stats(request.data)

(* The reported order statistics are consistent: min <= p25 <= p50 <= p75  *)
(* <= p90 <= p95 <= p99 <= max, so the IQR is never negative (percentile   *)
(* must index the sorted copy, never the input order).                     *)
PercentilesOrdered ==
  IsOk("statistics") =>
    LET s == StatsOfRequest
    IN  /\ 100 * s.min <= s.pct100[25]
        /\ s.pct100[25] <= s.pct100[50]
        /\ s.pct100[50] <= s.pct100[75]
        /\ s.pct100[75] <= s.pct100[90]
        /\ s.pct100[90] <= s.pct100[95]
        /\ s.pct100[95] <= s.pct100[99]
        /\ s.pct100[99] <= 100 * s.max
        /\ s.iqr100 >= 0

(* The median (computed by its own even/odd rule) equals the 50th          *)
(* percentile (computed by linear interpolation, R type 7).                *)
MedianIsP50 ==
  IsOk("statistics") => StatsOfRequest.median100 = StatsOfRequest.pct100[50]

(* The mean lies between min and max: n counts exactly the numbers summed  *)
(* (non-numeric entries are dropped from both).                            *)
MeanWithinRange ==
  IsOk("statistics") =>
    LET s == StatsOfRequest
    IN  s.n * s.min <= s.sum /\ s.sum <= s.n * s.max

-----------------------------------------------------------------------------
(***************************************************************************)
(* What spec.md says of the engine and the code does not do; checked in    *)
(* runs that expect a violation.                                           *)
(***************************************************************************)

(* spec.md 4.2: convert fails with UnknownUnit(spelling) if EITHER         *)
(* spelling is unrecognised.                                               *)
UnknownUnitReported ==
  (response.op = "unit_convert" /\ response.kind # "MissingField"
     /\ ({Lowercase[request.from_unit], Lowercase[request.to_unit]} \ ToBaseSpellings # {}))
    => response.kind = "UnknownUnit"

(* spec.md 4.4: molarity rejects a negative mass as NonPositive.           *)
NegativeMassRejected ==
  IsOk("molarity") => request.mass_grams >= 0
=============================================================================
