------------------------------ MODULE MC_PipMatch ------------------------------
(***************************************************************************)
(* python_package_exists's line match, checked against the name equality   *)
(* pip itself uses (PEP 503: case-insensitive, "-", "_" and "." the same,  *)
(* runs of them one), for every valid package name of up to four          *)
(* characters and every freeze line of such a name.  The state is one     *)
(* (name, line) pair, chosen initially; nothing changes after.             *)
(***************************************************************************)
EXTENDS PipMatch, FiniteSets

VARIABLES name, line

(* A letter in both cases and the two separators pip list prints.          *)
MCUpper == [c \in {"B"} |-> "b"]
Letters == {"a", "B"}
Separators == {"-", "_"}

(* Names of 1 to 4 characters that begin and end with a letter (PEP 508).  *)
Names ==
  {s \in UNION {[1 .. k -> Letters \cup Separators] : k \in 1 .. 4} :
     s[1] \in Letters /\ s[Len(s)] \in Letters}

(* "name==1", as pip list --format=freeze prints it.                        *)
FreezeLine(n) == n \o <<"=", "=", "1">>

(* The project name of a freeze line: what comes before "==".              *)
NameOf(l) ==
  LET I == {i \in 1 .. Len(l) - 1 : l[i] = "=" /\ l[i + 1] = "="}
  IN  IF I = {} THEN l ELSE SubSeq(l, 1, (CHOOSE i \in I : \A j \in I : i <= j) - 1)

(* PEP 503 normalisation: lower case, separators as "-", runs collapsed.   *)
Normalize(s) ==
  LET t == [i \in DOMAIN s |-> IF s[i] \in Separators THEN "-" ELSE Lower(s)[i]]
      pairs == [i \in DOMAIN t |-> <<i, t[i]>>]
      kept == SelectSeq(pairs, LAMBDA x : ~(x[1] > 1 /\ x[2] = "-" /\ t[x[1] - 1] = "-"))
  IN  [k \in DOMAIN kept |-> kept[k][2]]

Init == name \in Names /\ line \in {FreezeLine(n) : n \in Names}

Next == UNCHANGED <<name, line>>

Spec == Init /\ [][Next]_<<name, line>>

(* No false positive: when python_package_exists accepts a line for a      *)
(* requirement, pip's line is the package the requirement names.           *)
MatchSound == LineMatches(name, line) => Normalize(name) = Normalize(NameOf(line))

(* No false negative: a requirement naming the package of a freeze line,  *)
(* in any of the spellings pip treats as the same name, is found.  The     *)
(* comment before the match expects both "package-name" and "package_name" *)
(* lines.                                                                  *)
MatchComplete == Normalize(name) = Normalize(NameOf(line)) => LineMatches(name, line)
=============================================================================
