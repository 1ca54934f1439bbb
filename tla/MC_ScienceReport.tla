--------------------------- MODULE MC_ScienceReport ---------------------------
(***************************************************************************)
(* TLC instances of ScienceReport.                                         *)
(***************************************************************************)
EXTENDS ScienceReportProofs

CONSTANTS c1, c2, r1

(* Two agent jobs appending to the same report.                            *)
MCClients == {c1, c2}
MCReportIds == {r1}

(* An existing section's name, and a new one.                              *)
MCSectionNames == {"2. Methods", "Notes"}
=============================================================================
