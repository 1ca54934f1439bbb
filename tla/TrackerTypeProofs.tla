-------------------------- MODULE TrackerTypeProofs --------------------------
(***************************************************************************)
(* Proof that the tracker's variables keep their types (TypeOK) in every   *)
(* interleaving of the calls, for any clients, experiments and call bound. *)
(*                                                                         *)
(* TypeOK is not inductive: a write installs the copy its call read, and  *)
(* an append extends the file its call checked, so the copy, the file a    *)
(* pending append targets and the arguments of a pending call must be      *)
(* typed too.  TInv says so, and types every segment with the set Segs:    *)
(* an entry carries a call's tag, any other line a status or no tag.       *)
(* Unlike the other tracker proofs, it needs nothing of the text a caller  *)
(* passes beyond its markers being markers.                                *)
(***************************************************************************)
EXTENDS TrackerEntryProofs

(* The title, hypothesis and status strings hold only the markers the      *)
(* code searches for: the constants give sets of those.                    *)
MarksTyped ==
  /\ UserMarks \subseteq SUBSET Markers
  /\ StatusMarks \in [Statuses -> SUBSET Markers]

EntrySrcs == {"observation", "conclusion"}

(* The segments IsSegment allows, as a set.                                *)
Segs ==
  [src : EntrySrcs, marks : SUBSET Markers, tag : Tags]
    \cup [src : Srcs \ EntrySrcs, marks : SUBSET Markers,
          tag : Statuses \cup {"none", "planning"}]

CallType ==
  [exp : ExpIds \cup {NoFile}, tag : Tags \cup {NoConclusion}, st : Statuses \cup {"none"}]

(* The types, and what a call between its two steps will use: the file an *)
(* append extends and the status a write sets.                             *)
TInv ==
  /\ DOMAIN files = ExpIds
  /\ \A e \in ExpIds : files[e] = NoFile \/ files[e] \in Seq(Segs)
  /\ pc \in [Clients -> {"idle", "append", "write"}]
  /\ call \in [Clients -> CallType]
  /\ snapshot \in [Clients -> Seq(Segs)]
  /\ calls \in [Clients -> 0 .. MaxCalls]
  /\ lastStatus \in [ExpIds -> Statuses \cup {"planning"}]
  /\ \A p \in Clients : pc[p] = "append" =>
       /\ call[p].exp \in ExpIds /\ call[p].tag \in Tags
       /\ files[call[p].exp] \in Seq(Segs)
  /\ \A p \in Clients : pc[p] = "write" =>
       call[p].exp \in ExpIds /\ call[p].st \in Statuses
-----------------------------------------------------------------------------
(* Every member of Segs is a segment, and a segment of the other proofs.   *)
LEMMA SegsTyped ==
  ASSUME NEW s \in Segs
  PROVE  IsSegment(s) /\ s \in PSeg
<1>1. Tags \subseteq TagVals
  BY DEF Tags, TagVals
<1>2. Srcs \ EntrySrcs = {"title", "status", "hypothesis", "observations", "results"}
  BY DEF Srcs, EntrySrcs
<1>. QED
  BY <1>1, <1>2 DEF Segs, IsSegment, PSeg, EntrySrcs, Srcs, TagVals

(* A sequence of typed segments is a document of TypeOK.                   *)
LEMMA SegsDoc ==
  ASSUME NEW d \in Seq(Segs)
  PROVE  IsDoc(d) /\ d \in Seq(PSeg)
<1>1. \A i \in 1 .. Len(d) : IsSegment(d[i]) /\ d[i] \in PSeg
  BY SegsTyped
<1>. QED
  BY <1>1 DEF IsDoc

(* create_experiment's template is typed when the user's text holds only  *)
(* markers.                                                                *)
LEMMA TemplateTyped ==
  ASSUME MarksTyped, NEW tm \in UserMarks, NEW hm \in UserMarks
  PROVE  Template(tm, hm) \in Seq(Segs)
<1>1. tm \subseteq Markers /\ hm \subseteq Markers
  BY DEF MarksTyped
<1>. QED
  BY <1>1 DEF Template, Seg, Segs, Srcs, EntrySrcs, Markers

(* log_observation's append adds a typed entry.                            *)
LEMMA AppendTyped ==
  ASSUME NEW d \in Seq(Segs), NEW t \in Tags
  PROVE  Append(d, Observation(t)) \in Seq(Segs)
<1>1. Observation(t) \in Segs
  BY DEF Observation, Seg, Segs, EntrySrcs
<1>. QED
  BY <1>1, AppendProperties

(* update_status's replace of the status line puts a typed line in place. *)
LEMMA SetStatusTyped ==
  ASSUME NEW d \in Seq(Segs), NEW st \in Statuses, NEW stMarks \in SUBSET Markers
  PROVE  SetStatus(d, st, stMarks) \in Seq(Segs)
<1> DEFINE i == FirstIndex(d, "S")
           new == Seg("status", {"S"} \cup stMarks, st)
<1>1. new \in Segs
  BY DEF Seg, Segs, Srcs, EntrySrcs, Markers
<1>2. CASE i = 0
  BY <1>2 DEF SetStatus
<1>3. CASE i # 0
  <2>1. SetStatus(d, st, stMarks) = [d EXCEPT ![i] = new]
    BY <1>3 DEF SetStatus
  <2>2. i \in 1 .. Len(d)
    BY <1>3, SegsDoc, FirstIndexFound
  <2>3. [d EXCEPT ![i] = new] \in Seq(Segs)
    BY <1>1, <2>2, ExceptSeq
  <2>. QED
    BY <2>1, <2>3
<1>. QED
  BY <1>2, <1>3

(* update_status's insert of the conclusion adds a typed entry, or none.  *)
LEMMA AddConclusionTyped ==
  ASSUME NEW d \in Seq(Segs), NEW c \in Tags \cup {NoConclusion}
  PROVE  AddConclusion(d, c) \in Seq(Segs)
<1> DEFINE j == FirstIndex(d, "R")
           new == Seg("conclusion", {}, c)
<1>1. CASE c = NoConclusion \/ j = 0
  BY <1>1 DEF AddConclusion
<1>2. CASE c # NoConclusion /\ j # 0
  <2>1. d \in Seq(PSeg)
    BY SegsDoc
  <2>2. j \in 0 .. Len(d)
    BY <2>1, FirstIndexFound
  <2>3. new \in Segs
    BY <1>2 DEF Seg, Segs, EntrySrcs
  <2>4. \A jj \in 0 .. Len(d), ss \in Segs : InsertAfter(d, jj, ss) \in Seq(Segs)
    BY InsertAfterProps
  <2>5. AddConclusion(d, c) = InsertAfter(d, j, new)
    BY <1>2 DEF AddConclusion
  <2>. QED
    BY <2>2, <2>3, <2>4, <2>5
<1>. QED
  BY <1>1, <1>2

(* update_status's whole edit keeps a copy typed.                          *)
LEMMA EditTyped ==
  ASSUME NEW d \in Seq(Segs), NEW st \in Statuses, NEW stMarks \in SUBSET Markers,
         NEW c \in Tags \cup {NoConclusion}
  PROVE  Edit(d, st, stMarks, c) \in Seq(Segs)
BY SetStatusTyped, AddConclusionTyped DEF Edit
-----------------------------------------------------------------------------
LEMMA InitTInv == Init => TInv
BY MaxCallsAssumption DEF Init, TInv, NoCall, CallType

(* A started call's tag is one of the tags its client may issue.          *)
LEMMA StartTag ==
  ASSUME TInv, NEW p \in Clients, Start(p)
  PROVE  /\ <<p, calls[p]>> \in Tags
         /\ calls' \in [Clients -> 0 .. MaxCalls]
BY MaxCallsAssumption DEF TInv, Start, Tags

(* Every step keeps TInv; one case per action of Next.                     *)
LEMMA StepTInv ==
  ASSUME MarksTyped
  PROVE  TInv /\ [Next]_vars => TInv'
<1> SUFFICES ASSUME TInv, [Next]_vars PROVE TInv'
  OBVIOUS
<1> USE DEF TInv
<1>1. ASSUME NEW p \in Clients, CreateExperiment(p) PROVE TInv'
  <2>1. PICK e \in ExpIds, tm \in UserMarks, hm \in UserMarks :
          /\ files[e] = NoFile
          /\ files' = [files EXCEPT ![e] = Template(tm, hm)]
          /\ lastStatus' = [lastStatus EXCEPT ![e] = "planning"]
    BY <1>1 DEF CreateExperiment
  <2>2. Template(tm, hm) \in Seq(Segs)
    BY TemplateTyped
  <2>3. calls' \in [Clients -> 0 .. MaxCalls]
    BY <1>1, StartTag DEF CreateExperiment
  <2>4. pc' = pc /\ call' = call /\ snapshot' = snapshot
    BY <1>1 DEF CreateExperiment
  <2>. QED
    BY <2>1, <2>2, <2>3, <2>4
<1>2. ASSUME NEW p \in Clients, LogObservationRead(p) PROVE TInv'
  <2>1. <<p, calls[p]>> \in Tags /\ calls' \in [Clients -> 0 .. MaxCalls]
    BY <1>2, StartTag DEF LogObservationRead
  <2>2. files' = files /\ snapshot' = snapshot /\ lastStatus' = lastStatus
    BY <1>2 DEF LogObservationRead
  <2>3. PICK e \in ExpIds :
          \/ files[e] = NoFile /\ pc' = pc /\ call' = call
          \/ /\ files[e] # NoFile
             /\ pc' = [pc EXCEPT ![p] = "append"]
             /\ call' = [call EXCEPT ![p] = [NoCall EXCEPT !.exp = e,
                                                           !.tag = <<p, calls[p]>>]]
    BY <1>2 DEF LogObservationRead
  <2>4. CASE files[e] = NoFile /\ pc' = pc /\ call' = call
    BY <2>1, <2>2, <2>4
  <2>5. CASE /\ files[e] # NoFile
             /\ pc' = [pc EXCEPT ![p] = "append"]
             /\ call' = [call EXCEPT ![p] = [NoCall EXCEPT !.exp = e,
                                                           !.tag = <<p, calls[p]>>]]
    <3>1. call'[p] = [exp |-> e, tag |-> <<p, calls[p]>>, st |-> "none"]
      BY <2>5 DEF NoCall
    <3>a. PICK r : call' = [call EXCEPT ![p] = r]
      BY <2>5, Zenon
    <3>b. r = [exp |-> e, tag |-> <<p, calls[p]>>, st |-> "none"]
      BY <3>1, <3>a
    <3>c. r \in CallType
      BY <2>1, <3>b DEF CallType
    <3>2. call' \in [Clients -> CallType]
      BY <3>a, <3>c
    <3>. QED
      BY <2>1, <2>2, <2>5, <3>1, <3>2
  <2>. QED
    BY <2>3, <2>4, <2>5
<1>3. ASSUME NEW p \in Clients, LogObservationAppend(p) PROVE TInv'
  <2> DEFINE e == call[p].exp
  <2>1. pc[p] = "append" /\ e \in ExpIds /\ call[p].tag \in Tags /\ files[e] \in Seq(Segs)
    BY <1>3 DEF LogObservationAppend
  <2>2. files' = [files EXCEPT ![e] = Append(files[e], Observation(call[p].tag))]
    BY <1>3 DEF LogObservationAppend
  <2>3. Append(files[e], Observation(call[p].tag)) \in Seq(Segs)
    BY <2>1, AppendTyped
  <2>4. call' \in [Clients -> CallType]
    <3>1. NoCall \in CallType
      BY DEF NoCall, CallType
    <3>2. call' = [call EXCEPT ![p] = NoCall]
      BY <1>3 DEF LogObservationAppend
    <3>. QED
      BY <3>1, <3>2
  <2>5. /\ pc' = [pc EXCEPT ![p] = "idle"] /\ call'[p] = NoCall
        /\ \A q \in Clients \ {p} : call'[q] = call[q]
        /\ snapshot' = snapshot /\ calls' = calls /\ lastStatus' = lastStatus
    BY <1>3 DEF LogObservationAppend
  <2>. QED
    BY <2>1, <2>2, <2>3, <2>4, <2>5
<1>4. ASSUME NEW p \in Clients, UpdateStatusRead(p) PROVE TInv'
  <2>1. <<p, calls[p]>> \in Tags /\ calls' \in [Clients -> 0 .. MaxCalls]
    BY <1>4, StartTag DEF UpdateStatusRead
  <2>2. files' = files /\ lastStatus' = lastStatus
    BY <1>4 DEF UpdateStatusRead
  <2>3. PICK e \in ExpIds, st \in Statuses, c \in {NoConclusion, <<p, calls[p]>>} :
          \/ files[e] = NoFile /\ pc' = pc /\ call' = call /\ snapshot' = snapshot
          \/ /\ files[e] # NoFile
             /\ pc' = [pc EXCEPT ![p] = "write"]
             /\ call' = [call EXCEPT ![p] = [exp |-> e, tag |-> c, st |-> st]]
             /\ snapshot' = [snapshot EXCEPT ![p] = files[e]]
    BY <1>4 DEF UpdateStatusRead
  <2>4. CASE files[e] = NoFile /\ pc' = pc /\ call' = call /\ snapshot' = snapshot
    BY <2>1, <2>2, <2>4
  <2>5. CASE /\ files[e] # NoFile
             /\ pc' = [pc EXCEPT ![p] = "write"]
             /\ call' = [call EXCEPT ![p] = [exp |-> e, tag |-> c, st |-> st]]
             /\ snapshot' = [snapshot EXCEPT ![p] = files[e]]
    <3>1. call' \in [Clients -> CallType]
      BY <2>1, <2>5 DEF CallType
    <3>2. snapshot' \in [Clients -> Seq(Segs)]
      BY <2>5
    <3>. QED
      BY <2>1, <2>2, <2>5, <3>1, <3>2
  <2>. QED
    BY <2>3, <2>4, <2>5
<1>5. ASSUME NEW p \in Clients, UpdateStatusWrite(p) PROVE TInv'
  <2> DEFINE e == call[p].exp
             st == call[p].st
             new == Edit(snapshot[p], st, StatusMarks[st], call[p].tag)
  <2>1. /\ pc[p] = "write" /\ e \in ExpIds /\ st \in Statuses
        /\ call[p].tag \in Tags \cup {NoConclusion}
        /\ snapshot[p] \in Seq(Segs)
    BY <1>5 DEF UpdateStatusWrite, CallType
  <2>2. StatusMarks[st] \in SUBSET Markers
    BY <2>1 DEF MarksTyped
  <2>3. new \in Seq(Segs)
    BY <2>1, <2>2, EditTyped
  <2>4. /\ files' = [files EXCEPT ![e] = new]
        /\ lastStatus' = [lastStatus EXCEPT ![e] = st]
    BY <1>5 DEF UpdateStatusWrite
  <2>5. call' \in [Clients -> CallType]
    <3>1. NoCall \in CallType
      BY DEF NoCall, CallType
    <3>2. call' = [call EXCEPT ![p] = NoCall]
      BY <1>5 DEF UpdateStatusWrite
    <3>. QED
      BY <3>1, <3>2
  <2>6. /\ pc' = [pc EXCEPT ![p] = "idle"]
        /\ \A q \in Clients \ {p} : call'[q] = call[q]
        /\ snapshot' = [snapshot EXCEPT ![p] = <<>>] /\ calls' = calls
    BY <1>5 DEF UpdateStatusWrite
  <2>. QED
    BY <2>1, <2>3, <2>4, <2>5, <2>6
<1>6. ASSUME NEW p \in Clients, GetOrList(p) PROVE TInv'
  <2>1. calls' \in [Clients -> 0 .. MaxCalls]
    BY <1>6, StartTag DEF GetOrList
  <2>. QED
    BY <1>6, <2>1 DEF GetOrList
<1>7. ASSUME UNCHANGED vars PROVE TInv'
  BY <1>7 DEF vars
<1>. QED
  BY <1>1, <1>2, <1>3, <1>4, <1>5, <1>6, <1>7 DEF Next

(* TInv gives TypeOK: its segments are TypeOK's, and so are its calls.     *)
LEMMA TInvTypeOK == TInv => TypeOK
<1> SUFFICES ASSUME TInv PROVE TypeOK
  OBVIOUS
<1>1. \A e \in ExpIds : files[e] = NoFile \/ IsDoc(files[e])
  BY SegsDoc DEF TInv
<1>2. \A p \in Clients : IsDoc(snapshot[p])
  BY SegsDoc DEF TInv
<1>. QED
  BY <1>1, <1>2 DEF TInv, TypeOK, CallType

(* In every interleaving of create_experiment, log_observation,            *)
(* update_status, get and list calls, the files are typed documents, each *)
(* call's arguments and copy are typed and no client passes its call      *)
(* bound, for any clients, experiments and call bound.                     *)
THEOREM TrackerTypeCorrect ==
  ASSUME MarksTyped
  PROVE  Spec => []TypeOK
<1>1. Init => TInv
  BY InitTInv
<1>2. TInv /\ [Next]_vars => TInv'
  BY StepTInv
<1>3. TInv => TypeOK
  BY TInvTypeOK
<1>. QED
  BY <1>1, <1>2, <1>3, PTL DEF Spec
==============================================================================
