----------------------------- MODULE GatingProofs -----------------------------
(***************************************************************************)
(* Proofs about Gating, for every host and every set of requirements.      *)
(*                                                                         *)
(* The result of check_requirements says passed only when its failures    *)
(* are empty, and the task pushes a failure for every required check that *)
(* is not met.  PassedOnlyIfMet is not inductive by itself: it speaks of  *)
(* the result, which is only set at the end.  The inductive invariant     *)
(* IInv carries, while the loops run, that an empty failure list means    *)
(* every required check done so far was met, that the failures and       *)
(* warnings list the unmet checks passed so far in order, and that a      *)
(* result exists only after the task finished and is its own lists.      *)
(***************************************************************************)
EXTENDS Gating, SequenceTheorems, TLAPS

(* The checks pushed by the k-th of the seven loops: the body of the LET   *)
(* of Checks, given a name so that a proof can speak of it.                *)
ChecksPart(r, k) ==
  LET f == Fields[k] IN
    [j \in DOMAIN r[f] |-> [kind |-> Kind[f], name |-> r[f][j], required |-> k <= 4]]

CheckRecs == [kind : {"bin", "env", "config", "package"}, name : Name, required : BOOLEAN]

(* Every loop of Checks walks a Vec of names and yields a sequence of      *)
(* check records.                                                          *)
LEMMA ChecksPartSeq ==
  ASSUME NEW r \in Requirements, NEW k \in 1 .. 7
  PROVE  ChecksPart(r, k) \in Seq(CheckRecs)
<1> DEFINE f == Fields[k]
<1>1. f \in DOMAIN Kind /\ Kind[f] \in {"bin", "env", "config", "package"}
  <2>1. CASE k = 1 BY <2>1 DEF Fields, Kind
  <2>2. CASE k = 2 BY <2>2 DEF Fields, Kind
  <2>3. CASE k = 3 BY <2>3 DEF Fields, Kind
  <2>4. CASE k = 4 BY <2>4 DEF Fields, Kind
  <2>5. CASE k = 5 BY <2>5 DEF Fields, Kind
  <2>6. CASE k = 6 BY <2>6 DEF Fields, Kind
  <2>7. CASE k = 7 BY <2>7 DEF Fields, Kind
  <2>. QED BY <2>1, <2>2, <2>3, <2>4, <2>5, <2>6, <2>7
<1>2. r[f] \in Seq(Name)
  BY <1>1, RequirementsAssumption
<1>3. \A j \in DOMAIN r[f] :
        [kind |-> Kind[f], name |-> r[f][j], required |-> k <= 4] \in CheckRecs
  BY <1>1, <1>2 DEF CheckRecs
<1>4. Len(r[f]) \in Nat /\ DOMAIN r[f] = 1 .. Len(r[f])
  BY <1>2
<1>5. ChecksPart(r, k) \in [1 .. Len(r[f]) -> CheckRecs]
  BY <1>3, <1>4 DEF ChecksPart
<1>. QED
  BY <1>4, <1>5

(* Checks(r) is the concatenation of the seven loops' checks.             *)
LEMMA ChecksSeq ==
  ASSUME NEW r \in Requirements
  PROVE  Checks(r) \in Seq(CheckRecs)
<1>1. Checks(r) = ChecksPart(r, 1) \o ChecksPart(r, 2) \o ChecksPart(r, 3)
                  \o ChecksPart(r, 4) \o ChecksPart(r, 5) \o ChecksPart(r, 6)
                  \o ChecksPart(r, 7)
  BY DEF Checks, ChecksPart
<1>2. \A k \in 1 .. 7 : ChecksPart(r, k) \in Seq(CheckRecs)
  BY ChecksPartSeq
<1>. QED
  BY <1>1, <1>2, ConcatProperties

(* A check of a requirement set, at a place of its sequence, is one of    *)
(* the messages a result may hold.                                         *)
LEMMA CheckInMsgs ==
  ASSUME NEW r \in Requirements, NEW k \in 1 .. Len(Checks(r))
  PROVE  Checks(r)[k] \in Msgs
<1> DEFINE S == {Checks(r)[j] : j \in 1 .. Len(Checks(r))}
<1>1. Checks(r)[k] \in S
  OBVIOUS
<1>2. S \in {{Checks(q)[j] : j \in 1 .. Len(Checks(q))} : q \in Requirements}
  OBVIOUS
<1>. QED
  BY <1>1, <1>2, Zenon DEF Msgs

-----------------------------------------------------------------------------
(* The empty sequence lists the elements at no place.                      *)
LEMMA SelectsEmpty ==
  ASSUME NEW C
  PROVE  Selects(<<>>, C, {})
<1> DEFINE f == [i \in 1 .. 0 |-> 0]
<1>1. f \in [1 .. Len(<<>>) -> {}]
  OBVIOUS
<1>. QED
  BY <1>1 DEF Selects

(* Appending the element at a place past all of P lists the places P and   *)
(* that one: the loops push a message for the check they are at.          *)
LEMMA SelectsAppend ==
  ASSUME NEW S, NEW s \in Seq(S), NEW C, NEW P \in SUBSET Int, NEW n \in Int,
         \A k \in P : k < n,
         Selects(s, C, P)
  PROVE  Selects(Append(s, C[n]), C, P \cup {n})
<1>1. PICK f \in [1 .. Len(s) -> P] :
        /\ \A i, j \in 1 .. Len(s) : i < j => f[i] < f[j]
        /\ \A k \in P : \E i \in 1 .. Len(s) : f[i] = k
        /\ \A i \in 1 .. Len(s) : s[i] = C[f[i]]
  BY DEF Selects
<1> DEFINE g == [i \in 1 .. Len(s) + 1 |-> IF i <= Len(s) THEN f[i] ELSE n]
<1>2. Len(Append(s, C[n])) = Len(s) + 1 /\ Len(s) \in Nat
  BY AppendProperties
<1>3. g \in [1 .. Len(s) + 1 -> P \cup {n}]
  BY <1>1, <1>2
<1>4. \A i, j \in 1 .. Len(s) + 1 : i < j => g[i] < g[j]
  <2> SUFFICES ASSUME NEW i \in 1 .. Len(s) + 1, NEW j \in 1 .. Len(s) + 1, i < j
               PROVE  g[i] < g[j]
    OBVIOUS
  <2>1. i \in 1 .. Len(s) /\ g[i] = f[i] /\ f[i] \in P
    BY <1>1, <1>2
  <2>2. CASE j <= Len(s)
    <3>1. j \in 1 .. Len(s) /\ g[j] = f[j]
      BY <2>2, <1>2
    <3>2. f[i] < f[j]
      BY <2>1, <3>1, <1>1
    <3>. QED BY <2>1, <3>1, <3>2
  <2>3. CASE j = Len(s) + 1
    <3>1. g[j] = n
      BY <2>3, <1>2
    <3>2. f[i] < n
      BY <2>1
    <3>. QED BY <2>1, <3>1, <3>2
  <2>. QED BY <2>2, <2>3, <1>2
<1>5. \A k \in P \cup {n} : \E i \in 1 .. Len(s) + 1 : g[i] = k
  <2> SUFFICES ASSUME NEW k \in P \cup {n} PROVE \E i \in 1 .. Len(s) + 1 : g[i] = k
    OBVIOUS
  <2>1. CASE k \in P
    <3>1. PICK i \in 1 .. Len(s) : f[i] = k
      BY <2>1, <1>1
    <3>. QED BY <3>1, <1>2
  <2>2. CASE k = n
    BY <2>2, <1>2
  <2>. QED BY <2>1, <2>2
<1>6. \A i \in 1 .. Len(s) + 1 : Append(s, C[n])[i] = C[g[i]]
  BY <1>1, <1>2, AppendProperties
<1>7. \E h \in [1 .. Len(s) + 1 -> P \cup {n}] :
        /\ \A i, j \in 1 .. Len(s) + 1 : i < j => h[i] < h[j]
        /\ \A k \in P \cup {n} : \E i \in 1 .. Len(s) + 1 : h[i] = k
        /\ \A i \in 1 .. Len(s) + 1 : Append(s, C[n])[i] = C[h[i]]
  <2> WITNESS g \in [1 .. Len(s) + 1 -> P \cup {n}]
  <2> QED BY <1>4, <1>5, <1>6
<1>. QED
  BY <1>7, <1>2 DEF Selects

(* A sequence listing the places P is empty exactly when P is: the result  *)
(* passes iff it has no failure iff no required check is unmet.            *)
LEMMA SelectsEmptyIff ==
  ASSUME NEW S, NEW s \in Seq(S), NEW C, NEW P, Selects(s, C, P)
  PROVE  s = <<>> <=> P = {}
<1>1. PICK f \in [1 .. Len(s) -> P] : \A k \in P : \E i \in 1 .. Len(s) : f[i] = k
  BY DEF Selects
<1>2. CASE Len(s) = 0
  BY <1>1, <1>2, EmptySeq
<1>3. CASE Len(s) # 0
  <2>1. 1 \in 1 .. Len(s)
    BY <1>3, LenProperties
  <2>2. f[1] \in P
    BY <1>1, <2>1
  <2>3. s # <<>>
    BY <1>3, EmptySeq
  <2>. QED BY <2>2, <2>3
<1>. QED BY <1>2, <1>3

-----------------------------------------------------------------------------
(* No failure so far: every required check the loops have done was met.   *)
NoFailureMeansMet ==
  failures = <<>> =>
    \A k \in 1 .. idx - 1 : Checks(req)[k].required => Met(Checks(req)[k])

(* There is a result only once the task is done; a passed one comes from  *)
(* a task that ran every check and pushed no failure.                      *)
ResultFinal ==
  /\ pc # "done" => result = NoResult
  /\ result # NoResult /\ result.passed =>
       failures = <<>> /\ idx > Len(Checks(req))

(* The places of the unmet checks, required or optional, that the loops   *)
(* have passed.                                                            *)
UnmetBefore(required) == {k \in UnmetAt(req, required) : k < idx}

(* The failures and warnings pushed so far list exactly the unmet required *)
(* and optional checks the loops have passed, in the loops' order.         *)
LoopsSoFar ==
  /\ Selects(failures, Checks(req), UnmetBefore(TRUE))
  /\ Selects(warnings, Checks(req), UnmetBefore(FALSE))

(* A result is the synthetic join failure, or the task's own lists after   *)
(* every loop ran, passed iff there is no failure.                         *)
ResultOfLoops ==
  result # NoResult =>
    \/ result = [passed |-> FALSE, failures |-> <<JoinFailure>>, warnings |-> <<>>]
    \/ /\ result = [passed |-> failures = <<>>, failures |-> failures,
                    warnings |-> warnings]
       /\ idx > Len(Checks(req))

IInv == TypeOK /\ NoFailureMeansMet /\ ResultFinal /\ LoopsSoFar /\ ResultOfLoops

(* One iteration of the loops at check i: the list of one kind, failures  *)
(* or warnings, still lists the unmet checks of that kind passed so far.   *)
LEMMA SelectsStep ==
  ASSUME NEW r \in Requirements, NEW i \in 1 .. Len(Checks(r)), NEW b \in BOOLEAN,
         NEW s \in Seq(Msgs),
         Selects(s, Checks(r), {k \in UnmetAt(r, b) : k < i})
  PROVE  Selects(IF ~Met(Checks(r)[i]) /\ Checks(r)[i].required = b
                 THEN Append(s, Checks(r)[i]) ELSE s,
                 Checks(r), {k \in UnmetAt(r, b) : k < i + 1})
<1> DEFINE P == {k \in UnmetAt(r, b) : k < i}
<1>1. Checks(r) \in Seq(CheckRecs)
  BY ChecksSeq
<1>2. P \in SUBSET Int /\ \A k \in P : k < i
  BY <1>1 DEF UnmetAt
<1>3. CASE ~Met(Checks(r)[i]) /\ Checks(r)[i].required = b
  <2>1. {k \in UnmetAt(r, b) : k < i + 1} = P \cup {i}
    BY <1>1, <1>3 DEF UnmetAt
  <2>0. Selects(s, Checks(r), P) /\ i \in Int
    OBVIOUS
  <2>2. Selects(Append(s, Checks(r)[i]), Checks(r), P \cup {i})
    BY <1>2, <2>0, SelectsAppend, Zenon
  <2>. QED BY <1>3, <2>1, <2>2
<1>4. CASE ~(~Met(Checks(r)[i]) /\ Checks(r)[i].required = b)
  <2>1. {k \in UnmetAt(r, b) : k < i + 1} = P
    BY <1>1, <1>4 DEF UnmetAt
  <2>. QED BY <1>4, <2>1
<1>. QED BY <1>3, <1>4

LEMMA InitIInv == Init => IInv
<1> SUFFICES ASSUME Init PROVE IInv
  OBVIOUS
<1>1. Checks(req) \in Seq(CheckRecs)
  BY ChecksSeq DEF Init
<1>2. TypeOK
  BY <1>1 DEF Init, TypeOK
<1>3. NoFailureMeansMet
  BY DEF Init, NoFailureMeansMet
<1>4. ResultFinal
  BY DEF Init, ResultFinal
<1>5. LoopsSoFar
  <2>1. UnmetBefore(TRUE) = {} /\ UnmetBefore(FALSE) = {}
    BY <1>1 DEF Init, UnmetBefore, UnmetAt
  <2>. QED
    BY <2>1, SelectsEmpty DEF Init, LoopsSoFar
<1>6. ResultOfLoops
  BY DEF Init, ResultOfLoops
<1>. QED
  BY <1>2, <1>3, <1>4, <1>5, <1>6 DEF IInv

LEMMA StepIInv == IInv /\ [Next]_vars => IInv'
<1> SUFFICES ASSUME IInv, [Next]_vars PROVE IInv'
  OBVIOUS
<1>0. Checks(req) \in Seq(CheckRecs)
  BY ChecksSeq DEF IInv, TypeOK
<1>1. CASE StartTask
  <2>1. TypeOK' /\ NoFailureMeansMet' /\ ResultFinal'
    BY <1>1 DEF StartTask, IInv, TypeOK, NoFailureMeansMet, ResultFinal
  <2>2. LoopsSoFar' /\ ResultOfLoops'
    BY <1>1 DEF StartTask, IInv, LoopsSoFar, UnmetBefore, ResultOfLoops
  <2>. QED BY <2>1, <2>2 DEF IInv
<1>2. CASE CancelTask
  <2>1. JoinFailure \in Msgs
    BY Zenon DEF Msgs, JoinFailure
  <2>2. <<JoinFailure>> \in Seq(Msgs) /\ <<>> \in Seq(Msgs)
    BY <2>1
  <2>3. result' \in [passed : BOOLEAN, failures : Seq(Msgs), warnings : Seq(Msgs)]
    BY <1>2, <2>2 DEF CancelTask
  <2>4. TypeOK'
    BY <1>2, <2>3 DEF CancelTask, IInv, TypeOK
  <2>5. NoFailureMeansMet'
    BY <1>2 DEF CancelTask, IInv, NoFailureMeansMet
  <2>6. ResultFinal'
    BY <1>2 DEF CancelTask, ResultFinal
  <2>7. LoopsSoFar' /\ ResultOfLoops'
    BY <1>2 DEF CancelTask, IInv, LoopsSoFar, UnmetBefore, ResultOfLoops
  <2>. QED BY <2>4, <2>5, <2>6, <2>7 DEF IInv
<1>3. CASE Check
  <2> DEFINE c == Checks(req)[idx]
  <2>1. idx \in 1 .. Len(Checks(req)) /\ req \in Requirements
    BY <1>3 DEF Check, IInv, TypeOK
  <2>2. c \in Msgs
    BY <2>1, CheckInMsgs
  <2>3. failures' = IF ~Met(c) /\ c.required THEN Append(failures, c) ELSE failures
    BY <1>3 DEF Check
  <2>4. warnings' = IF ~Met(c) /\ ~c.required THEN Append(warnings, c) ELSE warnings
    BY <1>3 DEF Check
  <2>5. idx' = idx + 1 /\ req' = req /\ pc' = pc /\ result' = result
    BY <1>3 DEF Check
  <2>6. TypeOK'
    BY <2>1, <2>2, <2>3, <2>4, <2>5, <1>0, AppendProperties DEF IInv, TypeOK
  <2>7. NoFailureMeansMet'
    <3> SUFFICES ASSUME failures' = <<>>, NEW k \in 1 .. idx,
                        Checks(req)[k].required
                 PROVE  Met(Checks(req)[k])
      BY <2>1, <2>5, <1>0 DEF NoFailureMeansMet
    <3>1. failures \in Seq(Msgs)
      BY DEF IInv, TypeOK
    <3>2. Append(failures, c) # <<>>
      BY <3>1, <2>2, AppendProperties, EmptySeq
    <3>3. failures = <<>> /\ ~(~Met(c) /\ c.required)
      <4>1. CASE ~Met(c) /\ c.required
        <5>1. failures' = Append(failures, c)
          BY <2>3, <4>1
        <5>. QED BY <5>1, <3>2
      <4>2. CASE ~(~Met(c) /\ c.required)
        BY <2>3, <4>2
      <4>. QED BY <4>1, <4>2
    <3>4. CASE k = idx
      BY <3>3, <3>4
    <3>5. CASE k # idx
      BY <3>3, <3>5, <2>1 DEF IInv, NoFailureMeansMet
    <3>. QED BY <3>4, <3>5
  <2>8. ResultFinal'
    BY <1>3, <2>5 DEF Check, IInv, ResultFinal
  <2>9. c.required \in BOOLEAN
    <3>1. c \in CheckRecs
      BY <2>1, <1>0
    <3>. QED BY <3>1 DEF CheckRecs
  <2>10. Selects(failures', Checks(req), UnmetBefore(TRUE)')
    <3>1. failures' = IF ~Met(c) /\ c.required = TRUE THEN Append(failures, c) ELSE failures
      BY <2>3, <2>9
    <3>2. UnmetBefore(TRUE)' = {k \in UnmetAt(req, TRUE) : k < idx + 1}
      BY <2>5 DEF UnmetBefore
    <3>3. Selects(failures, Checks(req), {k \in UnmetAt(req, TRUE) : k < idx})
      BY DEF IInv, LoopsSoFar, UnmetBefore
    <3>4. failures \in Seq(Msgs)
      BY DEF IInv, TypeOK
    <3>. QED BY <2>1, <3>1, <3>2, <3>3, <3>4, SelectsStep
  <2>11. Selects(warnings', Checks(req), UnmetBefore(FALSE)')
    <3>1. warnings' = IF ~Met(c) /\ c.required = FALSE THEN Append(warnings, c) ELSE warnings
      BY <2>4, <2>9
    <3>2. UnmetBefore(FALSE)' = {k \in UnmetAt(req, FALSE) : k < idx + 1}
      BY <2>5 DEF UnmetBefore
    <3>3. Selects(warnings, Checks(req), {k \in UnmetAt(req, FALSE) : k < idx})
      BY DEF IInv, LoopsSoFar, UnmetBefore
    <3>4. warnings \in Seq(Msgs)
      BY DEF IInv, TypeOK
    <3>. QED BY <2>1, <3>1, <3>2, <3>3, <3>4, SelectsStep
  <2>12. LoopsSoFar'
    BY <2>5, <2>10, <2>11 DEF LoopsSoFar
  <2>13. ResultOfLoops'
    BY <1>3, <2>5 DEF Check, IInv, ResultFinal, ResultOfLoops
  <2>. QED BY <2>6, <2>7, <2>8, <2>12, <2>13 DEF IInv
<1>4. CASE ReturnResult
  <2>1. TypeOK'
    BY <1>4 DEF ReturnResult, IInv, TypeOK
  <2>2. NoFailureMeansMet'
    BY <1>4 DEF ReturnResult, IInv, NoFailureMeansMet
  <2>3. ResultFinal'
    BY <1>4 DEF ReturnResult, ResultFinal
  <2>4. LoopsSoFar'
    BY <1>4 DEF ReturnResult, IInv, LoopsSoFar, UnmetBefore
  <2>5. ResultOfLoops'
    BY <1>4 DEF ReturnResult, ResultOfLoops
  <2>. QED BY <2>1, <2>2, <2>3, <2>4, <2>5 DEF IInv
<1>5. CASE UNCHANGED vars
  BY <1>5 DEF vars, IInv, TypeOK, NoFailureMeansMet, ResultFinal, LoopsSoFar,
              UnmetBefore, ResultOfLoops
<1>. QED
  BY <1>1, <1>2, <1>3, <1>4, <1>5 DEF Next

(* The gating type invariant holds in every reachable state.              *)
THEOREM GatingTypeCorrect == Spec => []TypeOK
<1>1. Init => IInv
  BY InitIInv
<1>2. IInv /\ [Next]_vars => IInv'
  BY StepIInv
<1>3. IInv => TypeOK
  BY DEF IInv
<1>. QED
  BY <1>1, <1>2, <1>3, PTL DEF Spec

(* check_requirements answers passed only when every required binary,     *)
(* variable, config path and python package the skill declares is met on  *)
(* the host, for every requirement set and every host.                     *)
THEOREM PassedMeansMet == Spec => []PassedOnlyIfMet
<1>1. Init => IInv
  BY InitIInv
<1>2. IInv /\ [Next]_vars => IInv'
  BY StepIInv
<1>3. IInv => PassedOnlyIfMet
  <2> SUFFICES ASSUME IInv, result # NoResult, result.passed,
                      NEW k \in DOMAIN Checks(req), Checks(req)[k].required
               PROVE  Met(Checks(req)[k])
    BY DEF PassedOnlyIfMet
  <2>1. Checks(req) \in Seq(CheckRecs)
    BY ChecksSeq DEF IInv, TypeOK
  <2>2. failures = <<>> /\ idx > Len(Checks(req))
    BY DEF IInv, ResultFinal
  <2>3. k \in 1 .. idx - 1
    BY <2>1, <2>2 DEF IInv, TypeOK
  <2>. QED
    BY <2>2, <2>3 DEF IInv, NoFailureMeansMet
<1>. QED
  BY <1>1, <1>2, <1>3, PTL DEF Spec

(* The result of check_requirements lists, for every requirement set and   *)
(* every host, exactly the unmet required checks as failures and the unmet *)
(* optional ones as warnings, each in the order of the seven loops, and    *)
(* passes iff there is no failure; a cancelled task gives the one join     *)
(* failure.                                                                *)
THEOREM DiagnosticsAreExact == Spec => []DiagnosticsExact
<1>1. Init => IInv
  BY InitIInv
<1>2. IInv /\ [Next]_vars => IInv'
  BY StepIInv
<1>3. IInv => DiagnosticsExact
  <2> SUFFICES ASSUME IInv, result # NoResult PROVE DiagnosticsExact
    BY DEF DiagnosticsExact
  <2>1. CASE result = [passed |-> FALSE, failures |-> <<JoinFailure>>, warnings |-> <<>>]
    BY <2>1 DEF DiagnosticsExact
  <2>2. CASE /\ result = [passed |-> failures = <<>>, failures |-> failures,
                         warnings |-> warnings]
             /\ idx > Len(Checks(req))
    <3>1. Checks(req) \in Seq(CheckRecs)
      BY ChecksSeq DEF IInv, TypeOK
    <3>2. UnmetBefore(TRUE) = UnmetAt(req, TRUE) /\ UnmetBefore(FALSE) = UnmetAt(req, FALSE)
      <4>1. DOMAIN Checks(req) = 1 .. Len(Checks(req)) /\ Len(Checks(req)) \in Nat
        BY <3>1
      <4>2. idx \in Nat
        BY <4>1 DEF IInv, TypeOK
      <4>3. \A b \in BOOLEAN : \A k \in UnmetAt(req, b) : k < idx
        BY <4>1, <4>2, <2>2 DEF UnmetAt
      <4>. QED BY <4>3 DEF UnmetBefore
    <3>3. Selects(failures, Checks(req), UnmetAt(req, TRUE))
          /\ Selects(warnings, Checks(req), UnmetAt(req, FALSE))
      BY <3>2 DEF IInv, LoopsSoFar
    <3>4. failures = <<>> <=> UnmetAt(req, TRUE) = {}
      <4>1. failures \in Seq(Msgs)
        BY DEF IInv, TypeOK
      <4>. QED BY <3>3, <4>1, SelectsEmptyIff
    <3>. QED
      BY <2>2, <3>3, <3>4 DEF DiagnosticsExact
  <2>. QED BY <2>1, <2>2 DEF IInv, ResultOfLoops
<1>. QED
  BY <1>1, <1>2, <1>3, PTL DEF Spec
==============================================================================
