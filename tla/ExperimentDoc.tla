---------------------------- MODULE ExperimentDoc ----------------------------
(***************************************************************************)
(* The markdown document of an experiment, experiments/<id>.md, as the     *)
(* ExperimentTrackerTool of src/src/tools/builtin/science.rs writes and    *)
(* edits it.  The text is abstracted to a sequence of segments, one per    *)
(* line or paragraph the code locates or adds.  A segment records who      *)
(* wrote it (src), which of the two marker strings the code searches for   *)
(* its text contains (marks), and a tag: the status of a status line, the  *)
(* call that wrote an observation or a conclusion.                         *)
(*                                                                         *)
(* update_status finds its place with str::find, i.e. at the first         *)
(* segment whose text contains the marker, whoever wrote that text.        *)
(***************************************************************************)
EXTENDS Naturals, Sequences

CONSTANTS
  NoFile,        \* what the workspace holds at a path never written
  NoConclusion   \* update_status called without 'conclusion'

(* "**Status:**" and "## Results", the strings update_status searches for.  *)
Markers == {"S", "R"}

Seg(src, marks, tag) == [src |-> src, marks |-> marks, tag |-> tag]

(* create_experiment's format!: the title line, the status line, the user  *)
(* text after it (hypothesis; protocol and tags sit in the same place and  *)
(* behave alike), the Observations header and the Results header.  tm and  *)
(* hm are the markers the user's title and hypothesis contain.  Lines      *)
(* without a marker the properties do not tell apart (ID, Created, the     *)
(* placeholders) are left out.                                             *)
Template(tm, hm) ==
  << Seg("title", tm, "none"),
     Seg("status", {"S"}, "planning"),
     Seg("hypothesis", hm, "none"),
     Seg("observations", {}, "none"),
     Seg("results", {"R"}, "none") >>

(* content.find(marker): the first segment whose text holds it, 0 if none. *)
FirstIndex(doc, m) ==
  LET I == {i \in DOMAIN doc : m \in doc[i].marks}
  IN  IF I = {} THEN 0 ELSE CHOOSE i \in I : \A j \in I : i <= j

(* content.insert_str after segment j.                                     *)
InsertAfter(doc, j, s) ==
  SubSeq(doc, 1, j) \o <<s>> \o SubSeq(doc, j + 1, Len(doc))

(* Plausible fault: the status line left as it was (the replace skipped). *)
FaultySetStatus(doc, st, stMarks) == doc

(* replace_range(pos..pos+end, "**Status:** " + status): the line from the *)
(* first "**Status:**" to its newline becomes the new status line; the     *)
(* status string's own markers come with it.                               *)
SetStatus(doc, st, stMarks) ==
  LET i == FirstIndex(doc, "S")
  IN  IF i = 0 THEN doc
      ELSE [doc EXCEPT ![i] = Seg("status", {"S"} \cup stMarks, st)]

(* Plausible fault: the insert placed at the marker's position, before    *)
(* the Results header instead of after its paragraph.                     *)
FaultyAddConclusion(doc, c) ==
  LET j == FirstIndex(doc, "R")
  IN  IF c = NoConclusion \/ j = 0 THEN doc
      ELSE InsertAfter(doc, j - 1, Seg("conclusion", {}, c))

(* Plausible fault: replace_range in place of insert_str, overwriting the *)
(* paragraph after the Results header.                                    *)
FaultyOverwriteConclusion(doc, c) ==
  LET j == FirstIndex(doc, "R")
  IN  IF c = NoConclusion \/ j = 0 THEN doc
      ELSE [doc EXCEPT ![j + 1] = Seg("conclusion", {}, c)]

(* The conclusion goes after the "\n\n" that follows the first             *)
(* "## Results", i.e. after the paragraph holding the marker.  The         *)
(* push_str fallback (no "\n\n" after it) needs the marker in the last     *)
(* segment, which the Results header, always followed by its placeholder,  *)
(* never is.                                                               *)
AddConclusion(doc, c) ==
  LET j == FirstIndex(doc, "R")
  IN  IF c = NoConclusion \/ j = 0 THEN doc
      ELSE InsertAfter(doc, j, Seg("conclusion", {}, c))

(* update_status's whole edit of the content it read.                      *)
Edit(doc, st, stMarks, c) == AddConclusion(SetStatus(doc, st, stMarks), c)

(* log_observation's entry, appended at the end of the file.               *)
Observation(o) == Seg("observation", {}, o)

(* The entries (observations and conclusions) a document holds.           *)
EntriesIn(doc) ==
  {doc[i].tag : i \in {k \in DOMAIN doc : doc[k].src \in {"observation", "conclusion"}}}
=============================================================================
