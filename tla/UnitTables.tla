----------------------------- MODULE UnitTables -----------------------------
(***************************************************************************)
(* The two conversion tables of the unit-conversion subsystem of           *)
(* src/src/tools/builtin/science.rs: to_base_unit (spelling -> base unit)  *)
(* and from_base_unit ((base, spelling) -> target).                        *)
(*                                                                         *)
(* Every arm of either match is one affine map                             *)
(*      x  |->  ((x + pre) * num / den) + post                             *)
(* The multiplicative factors num and den are kept as the literal text of  *)
(* the source (the f64 constants are far outside TLC's integers); the      *)
(* additive offsets pre and post are integers in hundredths (273.15 is     *)
(* 27315), which is exact for every offset the code uses.                  *)
(***************************************************************************)
EXTENDS Integers

Identity      == [pre |-> 0, num |-> "1", den |-> "1", post |-> 0]
Times(f)      == [pre |-> 0, num |-> f, den |-> "1", post |-> 0]
DividedBy(f)  == [pre |-> 0, num |-> "1", den |-> f, post |-> 0]
Plus(k)       == [pre |-> 0, num |-> "1", den |-> "1", post |-> k]
Affine(a, n, d, b) == [pre |-> a, num |-> n, den |-> d, post |-> b]

Row(names, base, map) == [names |-> names, base |-> base, map |-> map]

(* The arms of to_base_unit, one definition per category of the match.  *)
ToBaseLength == {
  Row({"m", "meter", "meters"}, "m", Identity),
  Row({"km", "kilometer", "kilometers"}, "m", Times("1000.0")),
  Row({"cm", "centimeter", "centimeters"}, "m", Times("0.01")),
  Row({"mm", "millimeter", "millimeters"}, "m", Times("0.001")),
  Row({"um", "micrometer", "micrometers", "micron", "microns"}, "m", Times("1e-6")),
  Row({"nm", "nanometer", "nanometers"}, "m", Times("1e-9")),
  Row({"pm", "picometer", "picometers"}, "m", Times("1e-12")),
  Row({"angstrom", "angstroms", "å"}, "m", Times("1e-10")),
  Row({"in", "inch", "inches"}, "m", Times("0.0254")),
  Row({"ft", "foot", "feet"}, "m", Times("0.3048")),
  Row({"mi", "mile", "miles"}, "m", Times("1609.344"))}

ToBaseMass == {
  Row({"kg", "kilogram", "kilograms"}, "kg", Identity),
  Row({"g", "gram", "grams"}, "kg", Times("0.001")),
  Row({"mg", "milligram", "milligrams"}, "kg", Times("1e-6")),
  Row({"ug", "microgram", "micrograms"}, "kg", Times("1e-9")),
  Row({"ng", "nanogram", "nanograms"}, "kg", Times("1e-12")),
  Row({"lb", "pound", "pounds"}, "kg", Times("0.453592")),
  Row({"oz", "ounce", "ounces"}, "kg", Times("0.0283495")),
  Row({"dalton", "daltons", "da", "amu"}, "kg", Times("1.66053906660e-27"))}

ToBaseVolume == {
  Row({"l", "liter", "liters", "litre", "litres"}, "l", Identity),
  Row({"ml", "milliliter", "milliliters"}, "l", Times("0.001")),
  Row({"ul", "microliter", "microliters"}, "l", Times("1e-6")),
  Row({"nl", "nanoliter", "nanoliters"}, "l", Times("1e-9")),
  Row({"gal", "gallon", "gallons"}, "l", Times("3.78541"))}

ToBaseTemperature == {
  Row({"k", "kelvin"}, "k", Identity),
  Row({"c", "celsius"}, "k", Plus(27315)),
  Row({"f", "fahrenheit"}, "k", Affine(-3200, "5.0", "9.0", 27315))}

ToBaseTime == {
  Row({"s", "sec", "second", "seconds"}, "s", Identity),
  Row({"ms", "millisecond", "milliseconds"}, "s", Times("0.001")),
  Row({"us", "microsecond", "microseconds"}, "s", Times("1e-6")),
  Row({"ns", "nanosecond", "nanoseconds"}, "s", Times("1e-9")),
  Row({"min", "minute", "minutes"}, "s", Times("60.0")),
  Row({"h", "hr", "hour", "hours"}, "s", Times("3600.0")),
  Row({"day", "days"}, "s", Times("86400.0"))}

ToBasePressure == {
  Row({"pa", "pascal", "pascals"}, "pa", Identity),
  Row({"kpa", "kilopascal", "kilopascals"}, "pa", Times("1000.0")),
  Row({"bar"}, "pa", Times("100000.0")),
  Row({"atm", "atmosphere", "atmospheres"}, "pa", Times("101325.0")),
  Row({"mmhg", "torr"}, "pa", Times("133.322")),
  Row({"psi"}, "pa", Times("6894.76"))}

ToBaseConcentration == {
  Row({"mol/l", "molar", "mol/liter"}, "mol/l", Identity),
  Row({"mmol/l", "millimolar"}, "mol/l", Times("0.001")),
  Row({"umol/l", "micromolar"}, "mol/l", Times("1e-6")),
  Row({"nmol/l", "nanomolar"}, "mol/l", Times("1e-9"))}

ToBaseEnergy == {
  Row({"j", "joule", "joules"}, "j", Identity),
  Row({"kj", "kilojoule", "kilojoules"}, "j", Times("1000.0")),
  Row({"cal", "calorie", "calories"}, "j", Times("4.184")),
  Row({"kcal", "kilocalorie", "kilocalories"}, "j", Times("4184.0")),
  Row({"ev", "electronvolt", "electronvolts"}, "j", Times("1.602176634e-19"))}

ToBaseRows ==
  ToBaseLength \cup ToBaseMass \cup ToBaseVolume \cup ToBaseTemperature
    \cup ToBaseTime \cup ToBasePressure \cup ToBaseConcentration \cup ToBaseEnergy

(* The arms of from_base_unit, one definition per category; base is the *)
(* base unit the arm matches on.                                          *)
FromBaseLength == {
  Row({"m", "meter", "meters"}, "m", Identity),
  Row({"km", "kilometer", "kilometers"}, "m", DividedBy("1000.0")),
  Row({"cm", "centimeter", "centimeters"}, "m", DividedBy("0.01")),
  Row({"mm", "millimeter", "millimeters"}, "m", DividedBy("0.001")),
  Row({"um", "micrometer", "micrometers", "micron", "microns"}, "m", DividedBy("1e-6")),
  Row({"nm", "nanometer", "nanometers"}, "m", DividedBy("1e-9")),
  Row({"pm", "picometer", "picometers"}, "m", DividedBy("1e-12")),
  Row({"angstrom", "angstroms", "å"}, "m", DividedBy("1e-10")),
  Row({"in", "inch", "inches"}, "m", DividedBy("0.0254")),
  Row({"ft", "foot", "feet"}, "m", DividedBy("0.3048")),
  Row({"mi", "mile", "miles"}, "m", DividedBy("1609.344"))}

FromBaseMass == {
  Row({"kg", "kilogram", "kilograms"}, "kg", Identity),
  Row({"g", "gram", "grams"}, "kg", DividedBy("0.001")),
  Row({"mg", "milligram", "milligrams"}, "kg", DividedBy("1e-6")),
  Row({"ug", "microgram", "micrograms"}, "kg", DividedBy("1e-9")),
  Row({"ng", "nanogram", "nanograms"}, "kg", DividedBy("1e-12")),
  Row({"lb", "pound", "pounds"}, "kg", DividedBy("0.453592")),
  Row({"oz", "ounce", "ounces"}, "kg", DividedBy("0.0283495")),
  Row({"dalton", "daltons", "da", "amu"}, "kg", DividedBy("1.66053906660e-27"))}

(* Plausible fault: one spelling left out of an arm of from_base_unit.  *)
FaultyFromBaseVolume == {
  Row({"l", "liter", "liters", "litre"}, "l", Identity),
  Row({"ml", "milliliter", "milliliters"}, "l", DividedBy("0.001")),
  Row({"ul", "microliter", "microliters"}, "l", DividedBy("1e-6")),
  Row({"nl", "nanoliter", "nanoliters"}, "l", DividedBy("1e-9")),
  Row({"gal", "gallon", "gallons"}, "l", DividedBy("3.78541"))}

FromBaseVolume == {
  Row({"l", "liter", "liters", "litre", "litres"}, "l", Identity),
  Row({"ml", "milliliter", "milliliters"}, "l", DividedBy("0.001")),
  Row({"ul", "microliter", "microliters"}, "l", DividedBy("1e-6")),
  Row({"nl", "nanoliter", "nanoliters"}, "l", DividedBy("1e-9")),
  Row({"gal", "gallon", "gallons"}, "l", DividedBy("3.78541"))}

(* Plausible fault: the Celsius offset mistyped as 273.0.               *)
FaultyFromBaseTemperature == {
  Row({"k", "kelvin"}, "k", Identity),
  Row({"c", "celsius"}, "k", Plus(-27300)),
  Row({"f", "fahrenheit"}, "k", Affine(-27315, "9.0", "5.0", 3200))}

FromBaseTemperature == {
  Row({"k", "kelvin"}, "k", Identity),
  Row({"c", "celsius"}, "k", Plus(-27315)),
  Row({"f", "fahrenheit"}, "k", Affine(-27315, "9.0", "5.0", 3200))}

FromBaseTime == {
  Row({"s", "sec", "second", "seconds"}, "s", Identity),
  Row({"ms", "millisecond", "milliseconds"}, "s", DividedBy("0.001")),
  Row({"us", "microsecond", "microseconds"}, "s", DividedBy("1e-6")),
  Row({"ns", "nanosecond", "nanoseconds"}, "s", DividedBy("1e-9")),
  Row({"min", "minute", "minutes"}, "s", DividedBy("60.0")),
  Row({"h", "hr", "hour", "hours"}, "s", DividedBy("3600.0")),
  Row({"day", "days"}, "s", DividedBy("86400.0"))}

FromBasePressure == {
  Row({"pa", "pascal", "pascals"}, "pa", Identity),
  Row({"kpa", "kilopascal", "kilopascals"}, "pa", DividedBy("1000.0")),
  Row({"bar"}, "pa", DividedBy("100000.0")),
  Row({"atm", "atmosphere", "atmospheres"}, "pa", DividedBy("101325.0")),
  Row({"mmhg", "torr"}, "pa", DividedBy("133.322")),
  Row({"psi"}, "pa", DividedBy("6894.76"))}

FromBaseConcentration == {
  Row({"mol/l", "molar", "mol/liter"}, "mol/l", Identity),
  Row({"mmol/l", "millimolar"}, "mol/l", DividedBy("0.001")),
  Row({"umol/l", "micromolar"}, "mol/l", DividedBy("1e-6")),
  Row({"nmol/l", "nanomolar"}, "mol/l", DividedBy("1e-9"))}

FromBaseEnergy == {
  Row({"j", "joule", "joules"}, "j", Identity),
  Row({"kj", "kilojoule", "kilojoules"}, "j", DividedBy("1000.0")),
  Row({"cal", "calorie", "calories"}, "j", DividedBy("4.184")),
  Row({"kcal", "kilocalorie", "kilocalories"}, "j", DividedBy("4184.0")),
  Row({"ev", "electronvolt", "electronvolts"}, "j", DividedBy("1.602176634e-19"))}

FromBaseRows ==
  FromBaseLength \cup FromBaseMass \cup FromBaseVolume \cup FromBaseTemperature
    \cup FromBaseTime \cup FromBasePressure \cup FromBaseConcentration \cup FromBaseEnergy

(* The spellings each match recognises.                                    *)
ToBaseSpellings == UNION {r.names : r \in ToBaseRows}

(* to_base_unit on a recognised (already lowercased) spelling: the arm it  *)
(* selects.  A spelling outside ToBaseSpellings is the `_ =>` error arm.   *)
ToBaseArm(u) == CHOOSE r \in ToBaseRows : u \in r.names

(* from_base_unit (base, target) succeeds iff some arm matches both.       *)
FromBaseMatches(base, target) ==
  \E r \in FromBaseRows : r.base = base /\ target \in r.names

FromBaseArm(base, target) ==
  CHOOSE r \in FromBaseRows : r.base = base /\ target \in r.names

(* g undoes t exactly: for x |-> (x + a) * n / d + b the inverse is        *)
(* y |-> (y - b) * d / n - a; when n = d the two offsets may be split      *)
(* differently between pre and post, only their sum matters.               *)
Undoes(g, t) ==
  /\ g.num = t.den
  /\ g.den = t.num
  /\ \/ g.pre = -t.post /\ g.post = -t.pre
     \/ t.num = t.den /\ t.pre + t.post + g.pre + g.post = 0
=============================================================================
