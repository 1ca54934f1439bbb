------------------------------- MODULE ReportDoc -------------------------------
(***************************************************************************)
(* The report document of ScienceReportTool (science.rs 966-1007, 1077),   *)
(* abstracted to its segments: the title block, the "## " section headers *)
(* of create_report's template, and the "### ... (appended)" entries that *)
(* append_section adds.                                                    *)
(***************************************************************************)
EXTENDS Naturals, Sequences

(* The "## " headers create_report writes, in order.                       *)
Headers == <<"Abstract", "1. Introduction", "2. Methods", "3. Results",
             "4. Discussion", "5. Conclusion", "References">>

Header(h) == [src |-> "header", name |-> h, tag |-> "none"]

(* create_report's format!: the title, then each header with its text.     *)
ReportTemplate == <<[src |-> "title", name |-> "none", tag |-> "none"]>> \o
                  [i \in 1 .. Len(Headers) |-> Header(Headers[i])]

(* "\n\n### {section_name} (appended)\n\n{content}", tagged by its call.   *)
Entry(s, t) == [src |-> "appended", name |-> s, tag |-> t]
=============================================================================
