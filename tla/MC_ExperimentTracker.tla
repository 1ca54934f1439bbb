------------------------- MODULE MC_ExperimentTracker -------------------------
(***************************************************************************)
(* TLC instances of ExperimentTracker, with the inductive invariants of   *)
(* its proofs.                                                             *)
(***************************************************************************)
EXTENDS TrackerLossProofs

CONSTANTS c1, c2, e1, e2

(* Two agent jobs, or one where a single call sequence shows the fault.   *)
MCClients == {c1, c2}
MCOneClient == {c1}

(* One experiment, on which all calls meet.                                 *)
MCExpIds == {e1}

(* A status of the schema's enum besides "planning"; no marker in it.       *)
MCStatuses == {"completed"}
MCStatusMarks == [st \in MCStatuses |-> {}]

(* A status string holding "## Results", which update_status accepts.      *)
MCMarkedStatuses == {"completed", "see ## Results"}
MCMarkedStatusMarks ==
  [st \in MCMarkedStatuses |-> IF st = "completed" THEN {} ELSE {"R"}]

(* User text without markers, or with "## Results" in it.                  *)
MCPlainText == {{}}
MCMarkedText == {{}, {"R"}}
=============================================================================
