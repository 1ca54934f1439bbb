-------------------------- MODULE MC_ScienceCompute --------------------------
(* A small instance of ScienceCompute for TLC.                             *)
EXTENDS ScienceCompute, TLC

CONSTANTS AbsentValue, NotNumberValue

(* Zero and a negative number exercise every "> 0" guard.                  *)
MCNum == {-1, 0, 2}

(* Four entries give even and odd lengths and non-integral ranks.          *)
MCMaxData == 4

(* Mixed case, aliases, the affine temperature units, the two-table        *)
(* spellings of volume, and a unit the tables do not know.                 *)
MCLowercase ==
  ("km" :> "km") @@ ("M" :> "m") @@ ("Litres" :> "litres") @@ ("mL" :> "ml") @@
  ("C" :> "c") @@ ("F" :> "f") @@ ("kelvin" :> "kelvin") @@ ("Da" :> "da") @@
  ("furlong" :> "furlong") @@ ("mmHg" :> "mmhg") @@ ("Å" :> "å") @@
  ("avogadro" :> "avogadro") @@ ("NA" :> "na") @@ ("G" :> "g") @@
  ("g0" :> "g0") @@ ("pi" :> "pi")

MCUnitSpellings ==
  {"km", "M", "Litres", "mL", "C", "F", "kelvin", "Da", "furlong", "mmHg", "Å"}

MCConstantNames == {"avogadro", "NA", "G", "g0", "pi"}

MCOpNames == KnownOps \cup {"integrate"}
=============================================================================
