------------------------------- MODULE PipMatch -------------------------------
(***************************************************************************)
(* How python_package_exists (gating.rs 150-187) decides that a package is *)
(* installed, given the lines of `pip list --format=freeze`.  Strings are  *)
(* sequences of characters; the characters are single-letter strings.      *)
(***************************************************************************)
EXTENDS Naturals, Sequences

CONSTANT Upper   \* the upper-case letters in use, mapped to lower case

(* str::to_lowercase, on the characters in use.                             *)
Lower(s) == [i \in DOMAIN s |-> IF s[i] \in DOMAIN Upper THEN Upper[s[i]] ELSE s[i]]

(* str::starts_with                                                         *)
StartsWith(s, p) == Len(p) <= Len(s) /\ SubSeq(s, 1, Len(p)) = p

(* Plausible fault: the "==" separator not checked after the name.          *)
FaultyLineMatches(name, line) == StartsWith(Lower(line), Lower(name))

(* The closure passed to lines().any(): the lowercased line starts with the *)
(* lowercased name, followed by the end of the line or by "==".            *)
LineMatches(name, line) ==
  LET n == Lower(name)
      l == Lower(line)
  IN  /\ StartsWith(l, n)
      /\ \/ Len(l) = Len(n)
         \/ StartsWith(SubSeq(l, Len(n) + 1, Len(l)), <<"=", "=">>)

(* stdout.lines().any(...)                                                  *)
PackageListed(name, lines) == \E line \in lines : LineMatches(name, line)
=============================================================================
