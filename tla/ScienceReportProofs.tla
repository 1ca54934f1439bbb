------------------------- MODULE ScienceReportProofs -------------------------
(***************************************************************************)
(* Proofs about ScienceReportTool for any number of clients, reports,      *)
(* section names and calls.                                                *)
(*                                                                         *)
(* AppendsKeptInOrder is not inductive by itself: append_section's second *)
(* step appends to the report its first step found, and the invariant     *)
(* must say that report still exists and that the pending call's name and *)
(* tag are of the right kind.  RTInv adds that, with the variables'       *)
(* shapes; IInv is RTInv with AppendsKeptInOrder.  Reports are never      *)
(* removed or rewritten, so the existence check read before the await     *)
(* still holds when the append runs.                                      *)
(***************************************************************************)
EXTENDS ScienceReport, SequenceTheorems, TLAPS

(* The segments a report may hold: the template's and the entries.        *)
RSegs ==
  [src : {"title"}, name : {"none"}, tag : {"none"}]
    \cup [src : {"header"}, name : {Headers[i] : i \in 1 .. Len(Headers)}, tag : {"none"}]
    \cup [src : {"appended"}, name : SectionNames, tag : Tags]

RTInv ==
  /\ DOMAIN reports = ReportIds
  /\ \A r \in ReportIds : reports[r] = NoFile \/ reports[r] \in Seq(RSegs)
  /\ pc \in [Clients -> {"idle", "append"}]
  /\ calls \in [Clients -> 0 .. MaxCalls]
  /\ DOMAIN call = Clients
  /\ appended \in [ReportIds -> Seq(Tags)]
  /\ \A p \in Clients : pc[p] = "append" =>
       /\ call[p].rep \in ReportIds /\ reports[call[p].rep] # NoFile
       /\ call[p].name \in SectionNames /\ call[p].tag \in Tags

IInv == RTInv /\ AppendsKeptInOrder

(* A path never written holds no document: workspace.read fails on it.    *)
(* NoFile stands for that failure, and is no sequence of segments.         *)
NoFileNotADoc == NoFile \notin Seq(RSegs)
-----------------------------------------------------------------------------
(* The template is eight segments: the title block and the seven headers. *)
LEMMA TemplateFacts ==
  /\ ReportTemplate \in Seq(RSegs)
  /\ Len(ReportTemplate) = 8
<1> DEFINE T == <<[src |-> "title", name |-> "none", tag |-> "none"]>>
           H == [i \in 1 .. Len(Headers) |-> Header(Headers[i])]
           S == {T[1]} \cup {Header(Headers[i]) : i \in 1 .. 7}
<1>1. Len(Headers) = 7 /\ H \in Seq(S) /\ Len(H) = 7
  BY DEF Headers, Header, H, S
<1>2. T \in Seq(S) /\ Len(T) = 1 /\ T[1] = [src |-> "title", name |-> "none", tag |-> "none"]
  BY DEF T, S
<1>3. Len(ReportTemplate) = 8
  BY <1>1, <1>2, ConcatProperties DEF ReportTemplate, T, H
<1>5. ReportTemplate \in Seq(RSegs)
  <2>1. ReportTemplate \in Seq(S)
    <3>1. T \o H \in Seq(S)
      BY <1>1, <1>2, ConcatProperties
    <3>. QED
      BY <3>1 DEF ReportTemplate, T, H
  <2>2. \A x \in S : x \in RSegs
    <3>1. T[1] \in RSegs
      BY <1>2 DEF RSegs
    <3>2. \A i \in 1 .. 7 : Header(Headers[i]) \in RSegs
      BY <1>1 DEF RSegs, Header
    <3>. QED
      BY <3>1, <3>2 DEF S
  <2>. QED
    BY <2>1, <2>2
<1>. QED
  BY <1>3, <1>5
-----------------------------------------------------------------------------
LEMMA InitIInv == Init => IInv
BY ReportMaxCallsAssumption DEF Init, IInv, RTInv, AppendsKeptInOrder

(* A report laid out as the template and then entries tagged as the       *)
(* history says keeps that layout when an entry and its tag are appended.  *)
LEMMA AppendKeepsLayout ==
  ASSUME NEW d \in Seq(RSegs), NEW a \in Seq(Tags),
         NEW s \in SectionNames, NEW t \in Tags,
         Layout(d, a)
  PROVE  /\ Append(d, Entry(s, t)) \in Seq(RSegs)
         /\ Append(a, t) \in Seq(Tags)
         /\ Layout(Append(d, Entry(s, t)), Append(a, t))
<1>0. Len(ReportTemplate) = 8
  BY TemplateFacts
<1>1. Entry(s, t) \in RSegs
  BY DEF RSegs, Entry
<1>2. /\ Append(d, Entry(s, t)) \in Seq(RSegs)
      /\ Len(Append(d, Entry(s, t))) = Len(d) + 1
      /\ \A i \in 1 .. Len(d) : Append(d, Entry(s, t))[i] = d[i]
      /\ Append(d, Entry(s, t))[Len(d) + 1] = Entry(s, t)
  BY <1>1, AppendProperties
<1>3. /\ Append(a, t) \in Seq(Tags)
      /\ Len(Append(a, t)) = Len(a) + 1
      /\ \A k \in 1 .. Len(a) : Append(a, t)[k] = a[k]
      /\ Append(a, t)[Len(a) + 1] = t
  BY AppendProperties
<1>4. Len(Append(d, Entry(s, t))) = Len(ReportTemplate) + Len(Append(a, t))
  BY <1>2, <1>3 DEF Layout
<1>5. \A i \in 1 .. Len(ReportTemplate) : Append(d, Entry(s, t))[i] = ReportTemplate[i]
  BY <1>0, <1>2 DEF Layout
<1>6. ASSUME NEW k \in 1 .. Len(Append(a, t))
      PROVE  /\ Append(d, Entry(s, t))[Len(ReportTemplate) + k].src = "appended"
             /\ Append(d, Entry(s, t))[Len(ReportTemplate) + k].tag = Append(a, t)[k]
  <2>1. CASE k \in 1 .. Len(a)
    <3>1. Append(d, Entry(s, t))[Len(ReportTemplate) + k] = d[Len(ReportTemplate) + k]
      BY <1>0, <1>2, <2>1 DEF Layout
    <3>. QED
      BY <1>3, <2>1, <3>1 DEF Layout
  <2>2. CASE k = Len(a) + 1
    <3>1. Append(d, Entry(s, t))[Len(ReportTemplate) + k] = Entry(s, t)
      BY <1>0, <1>2, <2>2 DEF Layout
    <3>2. Entry(s, t).src = "appended" /\ Entry(s, t).tag = t
      BY DEF Entry
    <3>. QED
      BY <1>3, <2>2, <3>1, <3>2
  <2>3. k \in 1 .. Len(a) \/ k = Len(a) + 1
    BY <1>3
  <2>. QED
    BY <2>1, <2>2, <2>3
<1>. QED
  BY <1>2, <1>3, <1>4, <1>5, <1>6 DEF Layout

(* create_report writes the template at a fresh id; nothing was appended   *)
(* to a report that did not exist.                                         *)
LEMMA CreateIInv ==
  ASSUME IInv, NEW p \in Clients, CreateReport(p)
  PROVE  IInv'
<1>0. Len(ReportTemplate) = 8 /\ ReportTemplate \in Seq(RSegs)
  BY TemplateFacts
<1>1. PICK r \in ReportIds :
        reports[r] = NoFile /\ reports' = [reports EXCEPT ![r] = ReportTemplate]
  BY DEF CreateReport
<1>2. appended[r] = <<>>
  BY <1>1 DEF IInv, AppendsKeptInOrder
<1>3. /\ pc' = pc /\ call' = call /\ appended' = appended
      /\ calls' \in [Clients -> 0 .. MaxCalls]
  BY ReportMaxCallsAssumption DEF CreateReport, Start, IInv, RTInv
<1>4. RTInv'
  BY <1>0, <1>1, <1>3 DEF IInv, RTInv
<1>5. Layout(ReportTemplate, <<>>)
  BY <1>0 DEF Layout
<1>6. AppendsKeptInOrder'
  BY <1>1, <1>2, <1>3, <1>5 DEF IInv, RTInv, AppendsKeptInOrder
<1>. QED
  BY <1>4, <1>6 DEF IInv

(* append_section's append puts the entry right after the last one: the   *)
(* report it checked before the await still exists, since no call removes *)
(* or rewrites a report.                                                   *)
LEMMA WriteIInv ==
  ASSUME IInv, NoFileNotADoc, NEW p \in Clients, AppendSectionWrite(p)
  PROVE  IInv'
<1>1. PICK r \in ReportIds : r = call[p].rep
  BY DEF AppendSectionWrite, IInv, RTInv
<1>2. /\ pc[p] = "append" /\ reports[r] # NoFile
      /\ call[p].name \in SectionNames /\ call[p].tag \in Tags
  BY <1>1 DEF AppendSectionWrite, IInv, RTInv
<1>3. /\ reports[r] \in Seq(RSegs) /\ appended[r] \in Seq(Tags)
      /\ Layout(reports[r], appended[r])
  BY <1>2 DEF IInv, RTInv, AppendsKeptInOrder
<1>4. /\ reports' = [reports EXCEPT ![r] = Append(reports[r], Entry(call[p].name, call[p].tag))]
      /\ appended' = [appended EXCEPT ![r] = Append(appended[r], call[p].tag)]
      /\ pc' = [pc EXCEPT ![p] = "idle"]
      /\ \A q \in Clients \ {p} : call'[q] = call[q]
      /\ DOMAIN call' = Clients
      /\ calls' = calls
  BY <1>1 DEF AppendSectionWrite, IInv, RTInv
<1>5. /\ Append(reports[r], Entry(call[p].name, call[p].tag)) \in Seq(RSegs)
      /\ Append(appended[r], call[p].tag) \in Seq(Tags)
      /\ Layout(Append(reports[r], Entry(call[p].name, call[p].tag)),
                Append(appended[r], call[p].tag))
  BY <1>2, <1>3, AppendKeepsLayout
<1>6. Append(reports[r], Entry(call[p].name, call[p].tag)) # NoFile
  BY <1>5 DEF NoFileNotADoc
<1>7. RTInv'
  <2>1. /\ reports' \in [ReportIds -> Seq(RSegs) \cup {NoFile}]
        /\ appended' \in [ReportIds -> Seq(Tags)]
    BY <1>4, <1>5 DEF IInv, RTInv
  <2>2. pc' \in [Clients -> {"idle", "append"}] /\ calls' \in [Clients -> 0 .. MaxCalls]
    BY <1>4 DEF IInv, RTInv
  <2>3. ASSUME NEW q \in Clients, pc'[q] = "append"
        PROVE  /\ call'[q].rep \in ReportIds /\ reports'[call'[q].rep] # NoFile
               /\ call'[q].name \in SectionNames /\ call'[q].tag \in Tags
    <3>1. q # p /\ pc[q] = "append" /\ call'[q] = call[q]
      BY <1>4, <2>3 DEF IInv, RTInv
    <3>. QED
      BY <1>4, <1>6, <3>1 DEF IInv, RTInv
  <2>. QED
    BY <1>4, <2>1, <2>2, <2>3 DEF RTInv
<1>8. AppendsKeptInOrder'
  BY <1>4, <1>5, <1>6 DEF IInv, RTInv, AppendsKeptInOrder
<1>. QED
  BY <1>7, <1>8 DEF IInv
(* append_section's existence check: a call that goes on holds a report   *)
(* that exists, and a call on an unknown id ends at once.                  *)
LEMMA ReadIInv ==
  ASSUME IInv, NEW p \in Clients, AppendSectionRead(p)
  PROVE  IInv'
<1>1. /\ pc[p] = "idle" /\ calls' \in [Clients -> 0 .. MaxCalls]
      /\ reports' = reports /\ appended' = appended
  BY ReportMaxCallsAssumption DEF AppendSectionRead, Start, IInv, RTInv
<1>2. <<p, calls[p]>> \in Tags
  BY ReportMaxCallsAssumption DEF AppendSectionRead, Start, IInv, RTInv, Tags
<1>3. PICK r \in ReportIds, s \in SectionNames :
        \/ reports[r] = NoFile /\ pc' = pc /\ call' = call
        \/ /\ reports[r] # NoFile
           /\ pc' = [pc EXCEPT ![p] = "append"]
           /\ call' = [call EXCEPT ![p] = [rep |-> r, name |-> s, tag |-> <<p, calls[p]>>]]
  BY DEF AppendSectionRead
<1>4. RTInv'
  <2>1. CASE reports[r] = NoFile /\ pc' = pc /\ call' = call
    BY <1>1, <2>1 DEF IInv, RTInv
  <2>2. CASE /\ reports[r] # NoFile
             /\ pc' = [pc EXCEPT ![p] = "append"]
             /\ call' = [call EXCEPT ![p] = [rep |-> r, name |-> s, tag |-> <<p, calls[p]>>]]
    <3>1. pc' \in [Clients -> {"idle", "append"}] /\ DOMAIN call' = Clients
      BY <2>2 DEF IInv, RTInv
    <3>2. ASSUME NEW q \in Clients, pc'[q] = "append"
          PROVE  /\ call'[q].rep \in ReportIds /\ reports'[call'[q].rep] # NoFile
                 /\ call'[q].name \in SectionNames /\ call'[q].tag \in Tags
      <4>1. CASE q = p
        BY <1>1, <1>2, <2>2, <4>1 DEF IInv, RTInv
      <4>2. CASE q # p
        BY <1>1, <2>2, <3>2, <4>2 DEF IInv, RTInv
      <4>. QED
        BY <4>1, <4>2
    <3>. QED
      BY <1>1, <3>1, <3>2 DEF IInv, RTInv
  <2>. QED
    BY <1>3, <2>1, <2>2
<1>5. AppendsKeptInOrder'
  BY <1>1 DEF IInv, AppendsKeptInOrder
<1>. QED
  BY <1>4, <1>5 DEF IInv

(* Every step keeps IInv: one case per action of Next.                     *)
LEMMA StepIInv ==
  ASSUME NoFileNotADoc
  PROVE  IInv /\ [Next]_vars => IInv'
<1> SUFFICES ASSUME IInv, [Next]_vars PROVE IInv'
  OBVIOUS
<1>1. ASSUME NEW p \in Clients, CreateReport(p) PROVE IInv'
  BY <1>1, CreateIInv
<1>2. ASSUME NEW p \in Clients, AppendSectionRead(p) PROVE IInv'
  BY <1>2, ReadIInv
<1>3. ASSUME NEW p \in Clients, AppendSectionWrite(p) PROVE IInv'
  BY <1>3, WriteIInv
<1>4. ASSUME NEW p \in Clients, GetOrListReports(p) PROVE IInv'
  BY <1>4, ReportMaxCallsAssumption
     DEF GetOrListReports, Start, IInv, RTInv, AppendsKeptInOrder
<1>5. CASE UNCHANGED vars
  BY <1>5 DEF vars, IInv, RTInv, AppendsKeptInOrder
<1>. QED
  BY <1>1, <1>2, <1>3, <1>4, <1>5 DEF Next

(* Every segment a report holds is a title, a header or an entry.          *)
LEMMA RTInvTypeOK == RTInv => TypeOK
<1> SUFFICES ASSUME RTInv PROVE TypeOK
  OBVIOUS
<1>1. \A x \in RSegs : IsReportSeg(x)
  BY DEF RSegs, IsReportSeg
<1>2. ASSUME NEW r \in ReportIds, reports[r] # NoFile
      PROVE  /\ DOMAIN reports[r] = 1 .. Len(reports[r])
             /\ \A i \in DOMAIN reports[r] : IsReportSeg(reports[r][i])
  <2>1. reports[r] \in Seq(RSegs)
    BY <1>2 DEF RTInv
  <2>. QED
    BY <1>1, <2>1
<1>. QED
  BY <1>2 DEF RTInv, TypeOK
-----------------------------------------------------------------------------
(* ScienceReport's type invariant: every report is NoFile or a sequence of *)
(* titles, template headers and entries with a section name and a tag, and *)
(* the history holds tags, whatever the constants.                         *)
THEOREM ReportTypeCorrect ==
  ASSUME NoFileNotADoc
  PROVE  Spec => []TypeOK
<1>1. Init => IInv
  BY InitIInv
<1>2. IInv /\ [Next]_vars => IInv'
  BY StepIInv
<1>3. IInv => TypeOK
  BY RTInvTypeOK DEF IInv
<1>. QED
  BY <1>1, <1>2, <1>3, PTL DEF Spec

(* append_section under any interleaving of any number of clients: every   *)
(* report is its template followed by exactly the entries whose calls      *)
(* returned "appended", in the order they returned (AppendsKeptInOrder).  *)
THEOREM AppendsKept ==
  ASSUME NoFileNotADoc
  PROVE  Spec => []AppendsKeptInOrder
<1>1. Init => IInv
  BY InitIInv
<1>2. IInv /\ [Next]_vars => IInv'
  BY StepIInv
<1>3. IInv => AppendsKeptInOrder
  BY DEF IInv
<1>. QED
  BY <1>1, <1>2, <1>3, PTL DEF Spec
==============================================================================
