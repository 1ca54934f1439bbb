-------------------------------- MODULE Gating --------------------------------
(***************************************************************************)
(* Skill requirements gating (gating.rs).  check_requirements hands        *)
(* check_requirements_sync to tokio's blocking pool and awaits the join.   *)
(* The task goes through the requirement lists in the code's order         *)
(* (required bins, env, config, python_packages, then optional bins, env,  *)
(* config), one check per step, pushing a message for each one that is    *)
(* not met.  A JoinError, from a task cancelled before it ran, replaces   *)
(* the whole result by one synthetic failure.                              *)
(*                                                                         *)
(* The host is fixed for a run: the binaries `which` finds, the value of   *)
(* each environment variable, the config paths that exist, the            *)
(* interpreters whose `pip list` succeeds and the lines it prints.        *)
(***************************************************************************)
EXTENDS PipMatch

CONSTANTS
  Requirements,     \* the GatingRequirements records a skill may declare
  OnPath,           \* binary names `which` finds
  EnvValue,         \* variable -> "unset", "utf8" or "nonutf8"
  ExistingConfigs,  \* config paths that exist
  PipWorks,         \* interpreters whose `pip list --format=freeze` succeeds
  PipLines,         \* the lines it prints
  NoResult

VARIABLES
  req,       \* the requirements being checked
  pc,        \* "queued", "running" or "done"
  idx,       \* the next check of the task
  failures,  \* the task's failures so far
  warnings,  \* the task's warnings so far
  result     \* what check_requirements returned, or NoResult

vars == <<req, pc, idx, failures, warnings, result>>

Fields == <<"bins", "env", "config", "python_packages",
            "optional_bins", "optional_env", "optional_config">>
Kind == [bins |-> "bin", env |-> "env", config |-> "config",
         python_packages |-> "package", optional_bins |-> "bin",
         optional_env |-> "env", optional_config |-> "config"]

(* A requirement names a binary, a variable or a path, as a string, or a   *)
(* package, as the sequence of its characters.                             *)
Name == Seq(STRING) \cup STRING

(* Each list of a GatingRequirements is a Vec of names.                    *)
ASSUME RequirementsAssumption ==
  \A r \in Requirements : \A f \in DOMAIN Kind : r[f] \in Seq(Name)

(* The checks of the seven loops, in order.                                *)
Checks(r) ==
  LET F(k) == LET f == Fields[k] IN
                [j \in DOMAIN r[f] |-> [kind |-> Kind[f], name |-> r[f][j],
                                        required |-> k <= 4]]
  IN  F(1) \o F(2) \o F(3) \o F(4) \o F(5) \o F(6) \o F(7)

(* binary_exists: `which name` exits with success.                         *)
BinaryExists(n) == n \in OnPath

(* std::env::var(var).is_err(): unset, or set to a value not Unicode.     *)
EnvVarErr(n) == EnvValue[n] # "utf8"

(* python_package_exists: python3, else python, else false; then pip's     *)
(* output must be had, and a line must match.                              *)
PythonCmd ==
  IF BinaryExists("python3") THEN "python3"
  ELSE IF BinaryExists("python") THEN "python" ELSE "none"

PythonPackageExists(n) == PythonCmd \in PipWorks /\ PackageListed(n, PipLines)

Met(c) ==
  CASE c.kind = "bin"     -> BinaryExists(c.name)
    [] c.kind = "env"     -> ~EnvVarErr(c.name)
    [] c.kind = "config"  -> c.name \in ExistingConfigs
    [] c.kind = "package" -> PythonPackageExists(c.name)

(* The synthetic failure of a task that did not join.                      *)
JoinFailure == [kind |-> "join", name |-> "cancelled", required |-> TRUE]

Init ==
  /\ req \in Requirements
  /\ pc = "queued"
  /\ idx = 1
  /\ failures = <<>>
  /\ warnings = <<>>
  /\ result = NoResult

(* The blocking pool runs the task.                                        *)
StartTask ==
  /\ pc = "queued"
  /\ pc' = "running"
  /\ UNCHANGED <<req, idx, failures, warnings, result>>

(* The runtime shuts down before the task ran: the join fails, and the     *)
(* result is passed: false with the one message and no warnings.          *)
CancelTask ==
  /\ pc = "queued"
  /\ pc' = "done"
  /\ result' = [passed |-> FALSE, failures |-> <<JoinFailure>>, warnings |-> <<>>]
  /\ UNCHANGED <<req, idx, failures, warnings>>

(* Plausible fault: the loops stop at the first unmet requirement.        *)
FaultyFailFastCheck ==
  /\ pc = "running"
  /\ idx <= Len(Checks(req))
  /\ LET c == Checks(req)[idx] IN
       IF Met(c) THEN UNCHANGED <<failures, warnings>> /\ idx' = idx + 1
       ELSE /\ failures' = IF c.required THEN Append(failures, c) ELSE failures
            /\ warnings' = IF c.required THEN warnings ELSE Append(warnings, c)
            /\ idx' = Len(Checks(req)) + 1
  /\ UNCHANGED <<req, pc, result>>

(* Plausible fault: the python_packages loop left out.                     *)
FaultyNoPackageCheck ==
  /\ pc = "running"
  /\ idx <= Len(Checks(req))
  /\ LET c == Checks(req)[idx] IN
       /\ failures' = IF ~Met(c) /\ c.required /\ c.kind # "package"
                      THEN Append(failures, c) ELSE failures
       /\ warnings' = IF ~Met(c) /\ ~c.required THEN Append(warnings, c) ELSE warnings
  /\ idx' = idx + 1
  /\ UNCHANGED <<req, pc, result>>

(* Plausible fault: a check retried until the requirement is met.          *)
FaultyRetryingCheck ==
  /\ pc = "running"
  /\ idx <= Len(Checks(req))
  /\ LET c == Checks(req)[idx] IN
       /\ Met(c)
       /\ idx' = idx + 1
  /\ UNCHANGED <<req, pc, failures, warnings, result>>

(* Plausible fault: the index advanced twice, skipping a requirement.     *)
FaultySkippingCheck ==
  /\ pc = "running"
  /\ idx <= Len(Checks(req))
  /\ LET c == Checks(req)[idx] IN
       /\ failures' = IF ~Met(c) /\ c.required THEN Append(failures, c) ELSE failures
       /\ warnings' = IF ~Met(c) /\ ~c.required THEN Append(warnings, c) ELSE warnings
  /\ idx' = idx + 2
  /\ UNCHANGED <<req, pc, result>>

(* One iteration of one of the seven loops.                               *)
Check ==
  /\ pc = "running"
  /\ idx <= Len(Checks(req))
  /\ LET c == Checks(req)[idx] IN
       /\ failures' = IF ~Met(c) /\ c.required THEN Append(failures, c) ELSE failures
       /\ warnings' = IF ~Met(c) /\ ~c.required THEN Append(warnings, c) ELSE warnings
  /\ idx' = idx + 1
  /\ UNCHANGED <<req, pc, result>>

(* The task returns GatingResult { passed: failures.is_empty(), .. } and   *)
(* the join hands it to the caller.                                        *)
ReturnResult ==
  /\ pc = "running"
  /\ idx > Len(Checks(req))
  /\ pc' = "done"
  /\ result' = [passed |-> failures = <<>>, failures |-> failures,
                warnings |-> warnings]
  /\ UNCHANGED <<req, idx, failures, warnings>>

Next == StartTask \/ CancelTask \/ Check \/ ReturnResult

(* No fairness: `which` and `pip list` run with no timeout, so nothing    *)
(* in the code makes the blocking task finish.                             *)
Spec == Init /\ [][Next]_vars

-----------------------------------------------------------------------------
Msgs == (UNION {{Checks(r)[k] : k \in 1 .. Len(Checks(r))} : r \in Requirements}) \cup {JoinFailure}

TypeOK ==
  /\ req \in Requirements
  /\ pc \in {"queued", "running", "done"}
  /\ idx \in 1 .. Len(Checks(req)) + 1
  /\ failures \in Seq(Msgs) /\ warnings \in Seq(Msgs)
  /\ result \in [passed : BOOLEAN, failures : Seq(Msgs), warnings : Seq(Msgs)] \cup {NoResult}

(* The places in the loops' order of the unmet checks of r, required or   *)
(* optional.                                                               *)
UnmetAt(r, required) ==
  {k \in DOMAIN Checks(r) : ~Met(Checks(r)[k]) /\ Checks(r)[k].required = required}

(* Sequence s lists the elements of C at the places P, each once, in the   *)
(* order of C: an increasing map of s's places onto P picks them.          *)
Selects(s, C, P) ==
  \E f \in [1 .. Len(s) -> P] :
    /\ \A i, j \in 1 .. Len(s) : i < j => f[i] < f[j]
    /\ \A k \in P : \E i \in 1 .. Len(s) : f[i] = k
    /\ \A i \in 1 .. Len(s) : s[i] = C[f[i]]

(* "Skills that fail gating should be logged and skipped": a skill passes *)
(* gating only if every requirement it declares as required is met on the *)
(* host, packages included, whatever the optional ones are.                *)
PassedOnlyIfMet ==
  result # NoResult /\ result.passed =>
    \A k \in DOMAIN Checks(req) : Checks(req)[k].required => Met(Checks(req)[k])

(* The result of a task that joined lists exactly the unmet required       *)
(* requirements as failures and the unmet optional ones as warnings, each *)
(* in the order of the loops, and passes iff there is no failure; a task  *)
(* that did not join gives the one synthetic failure and no warnings.     *)
DiagnosticsExact ==
  result # NoResult =>
    \/ /\ Selects(result.failures, Checks(req), UnmetAt(req, TRUE))
       /\ Selects(result.warnings, Checks(req), UnmetAt(req, FALSE))
       /\ result.passed = (UnmetAt(req, TRUE) = {})
    \/ result = [passed |-> FALSE, failures |-> <<JoinFailure>>, warnings |-> <<>>]

=============================================================================
