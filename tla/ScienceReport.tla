---------------------------- MODULE ScienceReport ----------------------------
(***************************************************************************)
(* ScienceReportTool (science.rs 793-1095) with concurrent callers.  A     *)
(* report is reports/<id>.md in the workspace:                             *)
(*   create_report    one write of the template                            *)
(*   append_section   read (existence check), then append                  *)
(*   get, list        one read                                             *)
(* The document is abstracted to its section headers, in the template's   *)
(* order, and the entries append_section adds; the text of the sections   *)
(* is not searched by any code and is left out.  Workspace operations are *)
(* atomic, as in ExperimentTracker.                                        *)
(***************************************************************************)
EXTENDS ReportDoc

CONSTANTS
  Clients,       \* concurrent callers of the tool
  ReportIds,     \* ids create_report may generate
  SectionNames,  \* section_name values passed to append_section
  MaxCalls,      \* calls per client
  NoFile         \* what the workspace holds at a path never written

ASSUME ReportMaxCallsAssumption == MaxCalls \in Nat

VARIABLES
  reports,   \* the workspace: report id -> document or NoFile
  pc,        \* "idle" or "append"
  call,      \* the arguments of each client's current call
  calls,     \* calls each client has started
  appended   \* history: per report, the tags of completed appends, in order

vars == <<reports, pc, call, calls, appended>>

Tags == Clients \X (0 .. MaxCalls)

NoCall == [rep |-> NoFile, name |-> "none", tag |-> "none"]

Init ==
  /\ reports = [r \in ReportIds |-> NoFile]
  /\ pc = [p \in Clients |-> "idle"]
  /\ call = [p \in Clients |-> NoCall]
  /\ calls = [p \in Clients |-> 0]
  /\ appended = [r \in ReportIds |-> <<>>]

Start(p) ==
  /\ pc[p] = "idle"
  /\ calls[p] < MaxCalls
  /\ calls' = [calls EXCEPT ![p] = @ + 1]

(* create_report: the id is fresh (the uuid), the template is written.     *)
CreateReport(p) ==
  /\ Start(p)
  /\ \E r \in ReportIds :
       /\ reports[r] = NoFile
       /\ reports' = [reports EXCEPT ![r] = ReportTemplate]
  /\ UNCHANGED <<pc, call, appended>>

(* append_section up to its read: an unknown id ends the call with        *)
(* "Report not found"; otherwise the call goes on to append.               *)
AppendSectionRead(p) ==
  /\ Start(p)
  /\ \E r \in ReportIds, s \in SectionNames :
       \/ /\ reports[r] = NoFile
          /\ UNCHANGED <<pc, call>>
       \/ /\ reports[r] # NoFile
          /\ pc' = [pc EXCEPT ![p] = "append"]
          /\ call' = [call EXCEPT ![p] = [rep |-> r, name |-> s,
                                          tag |-> <<p, calls[p]>>]]
  /\ UNCHANGED <<reports, appended>>

(* Plausible fault: workspace.write in place of workspace.append.          *)
FaultyWriteSection(p) ==
  /\ pc[p] = "append"
  /\ LET r == call[p].rep IN
       /\ reports' = [reports EXCEPT ![r] = <<Entry(call[p].name, call[p].tag)>>]
       /\ appended' = [appended EXCEPT ![r] = Append(@, call[p].tag)]
  /\ pc' = [pc EXCEPT ![p] = "idle"]
  /\ call' = [call EXCEPT ![p] = NoCall]
  /\ UNCHANGED calls

(* Plausible fault: the report id formatted into the heading in place of  *)
(* the section name.                                                       *)
FaultyMisnamedSection(p) ==
  /\ pc[p] = "append"
  /\ LET r == call[p].rep IN
       /\ reports' = [reports EXCEPT ![r] = Append(@, Entry(r, call[p].tag))]
       /\ appended' = [appended EXCEPT ![r] = Append(@, call[p].tag)]
  /\ pc' = [pc EXCEPT ![p] = "idle"]
  /\ call' = [call EXCEPT ![p] = NoCall]
  /\ UNCHANGED calls

(* workspace.append of the entry at the end of the file; the call returns *)
(* "appended".                                                             *)
AppendSectionWrite(p) ==
  /\ pc[p] = "append"
  /\ LET r == call[p].rep IN
       /\ reports' = [reports EXCEPT ![r] = Append(@, Entry(call[p].name, call[p].tag))]
       /\ appended' = [appended EXCEPT ![r] = Append(@, call[p].tag)]
  /\ pc' = [pc EXCEPT ![p] = "idle"]
  /\ call' = [call EXCEPT ![p] = NoCall]
  /\ UNCHANGED calls

(* get_report and list_reports: one read, nothing changes.                 *)
GetOrListReports(p) ==
  /\ Start(p)
  /\ UNCHANGED <<reports, pc, call, appended>>

Next ==
  \E p \in Clients :
    \/ CreateReport(p)
    \/ AppendSectionRead(p)
    \/ AppendSectionWrite(p)
    \/ GetOrListReports(p)

Spec == Init /\ [][Next]_vars

-----------------------------------------------------------------------------
IsReportSeg(s) ==
  /\ DOMAIN s = {"src", "name", "tag"}
  /\ \/ s.src = "title" /\ s.name = "none" /\ s.tag = "none"
     \/ s.src = "header" /\ s.tag = "none"
        /\ s.name \in {Headers[i] : i \in 1 .. Len(Headers)}
     \/ s.src = "appended" /\ s.name \in SectionNames /\ s.tag \in Tags

TypeOK ==
  /\ DOMAIN reports = ReportIds
  /\ \A r \in ReportIds :
       \/ reports[r] = NoFile
       \/ DOMAIN reports[r] = 1 .. Len(reports[r])
          /\ \A i \in DOMAIN reports[r] : IsReportSeg(reports[r][i])
  /\ pc \in [Clients -> {"idle", "append"}]
  /\ calls \in [Clients -> 0 .. MaxCalls]
  /\ \A r \in ReportIds : appended[r] \in Seq(Tags)

(* Document d is the template followed by exactly the entries of history *)
(* a, in order.                                                            *)
Layout(d, a) ==
  /\ Len(d) = Len(ReportTemplate) + Len(a)
  /\ \A i \in 1 .. Len(ReportTemplate) : d[i] = ReportTemplate[i]
  /\ \A k \in 1 .. Len(a) : /\ d[Len(ReportTemplate) + k].src = "appended"
                            /\ d[Len(ReportTemplate) + k].tag = a[k]

(* Every append_section that returned "appended" is in its report, once,   *)
(* after the template, and in the order the calls returned, whatever       *)
(* other calls on the same report interleave with it: the report is the   *)
(* template followed by exactly those entries, and no call appends to a   *)
(* report that does not exist.                                             *)
AppendsKeptInOrder ==
  \A r \in ReportIds :
    \/ reports[r] = NoFile /\ appended[r] = <<>>
    \/ reports[r] # NoFile /\ Layout(reports[r], appended[r])

=============================================================================
