------------------------ MODULE ExperimentTrackerProofs ------------------------
(***************************************************************************)
(* Proof that update_status keeps every conclusion under "## Results"      *)
(* (ConclusionInResults), for any number of clients, experiments and       *)
(* calls, provided no user text and no status string contains the marker.  *)
(*                                                                         *)
(* The invariant is not inductive by itself: a write installs the copy the *)
(* call read earlier, so the copies held by the clients in "write" must be *)
(* well placed too, and AddConclusion lands under a Results header only    *)
(* because the marker it finds is on a Results header.  The strengthening  *)
(* WellPlaced says of a document that                                      *)
(*   - only Results headers carry the marker,                              *)
(*   - a Results header carries no other marker (so SetStatus, which       *)
(*     replaces the first segment holding "**Status:**", never replaces    *)
(*     one), and                                                           *)
(*   - every conclusion has a Results header before it,                    *)
(* and IInv says it of every file and of every copy about to be written.   *)
(***************************************************************************)
EXTENDS ExperimentTracker, SequenceTheorems, WellFoundedInduction, TLAPS

(* No title or hypothesis a caller passes, and no status string, contains  *)
(* "## Results"; Tracker_marked_text shows the property fails otherwise.   *)
NoResultsMarker ==
  /\ UserMarks \subseteq SUBSET (Markers \ {"R"})
  /\ StatusMarks \in [Statuses -> SUBSET (Markers \ {"R"})]

Srcs == {"title", "status", "hypothesis", "observations", "results",
         "observation", "conclusion"}

TagVals == (Clients \X Nat) \cup Statuses \cup {"none", "planning", NoConclusion}

PSeg == [src : Srcs, marks : SUBSET Markers, tag : TagVals]

WellPlaced(d) ==
  /\ \A i \in 1 .. Len(d) : "R" \in d[i].marks => d[i].src = "results"
  /\ \A i \in 1 .. Len(d) : d[i].src = "results" => d[i].marks = {"R"}
  /\ \A i \in 1 .. Len(d) : d[i].src = "conclusion" =>
       \E j \in 1 .. Len(d) : d[j].src = "results" /\ j < i

CallRec == [exp : ExpIds \cup {NoFile}, tag : TagVals, st : Statuses \cup {"none"}]

(* The shapes of the variables the proof needs.                            *)
ProofTypes ==
  /\ DOMAIN files = ExpIds
  /\ pc \in [Clients -> {"idle", "append", "write"}]
  /\ call \in [Clients -> CallRec]
  /\ DOMAIN snapshot = Clients
  /\ calls \in [Clients -> Nat]

(* Every file written is a well-placed document.                           *)
FilesPlaced ==
  \A e \in ExpIds : /\ files[e] = NoFile \/ files[e] \in Seq(PSeg)
                    /\ files[e] # NoFile => WellPlaced(files[e])

(* A log_observation between its read and its append targets a file that  *)
(* exists.                                                                 *)
AppendReady ==
  \A p \in Clients : pc[p] = "append" =>
    /\ call[p].exp \in ExpIds
    /\ files[call[p].exp] \in Seq(PSeg)
    /\ WellPlaced(files[call[p].exp])

(* An update_status between its read and its write holds a well-placed    *)
(* copy.                                                                   *)
WriteReady ==
  \A p \in Clients : pc[p] = "write" =>
    /\ call[p].exp \in ExpIds
    /\ call[p].st \in Statuses
    /\ snapshot[p] \in Seq(PSeg)
    /\ WellPlaced(snapshot[p])

IInv == ProofTypes /\ FilesPlaced /\ AppendReady /\ WriteReady

-----------------------------------------------------------------------------
(* Lemmas about the document operators of ExperimentDoc.                   *)

(* str::find: FirstIndex is 0 or the index of a segment holding the       *)
(* marker.                                                                 *)
LEMMA FirstIndexFound ==
  ASSUME NEW d \in Seq(PSeg), NEW m
  PROVE  \/ FirstIndex(d, m) = 0
         \/ /\ FirstIndex(d, m) \in 1 .. Len(d)
            /\ m \in d[FirstIndex(d, m)].marks
<1> DEFINE I == {i \in DOMAIN d : m \in d[i].marks}
<1>1. CASE I = {}
  BY <1>1 DEF FirstIndex
<1>2. CASE I # {}
  <2>1. I \subseteq Nat
    OBVIOUS
  <2>2. \E x \in I : \A y \in I : ~(<<y, x>> \in OpToRel(<, Nat))
    BY <1>2, <2>1, WFMin, NatLessThanWellFounded
  <2>3. PICK x \in I : \A y \in I : ~(<<y, x>> \in OpToRel(<, Nat))
    BY <2>2
  <2>4. \A y \in I : x <= y
    <3> TAKE y \in I
    <3>1. ~(y < x)
      BY <2>1, <2>3 DEF OpToRel
    <3>2. x \in Nat /\ y \in Nat
      BY <2>1
    <3>. QED
      BY <3>1, <3>2
  <2>5. FirstIndex(d, m) \in I
    BY <1>2, <2>4 DEF FirstIndex
  <2>. QED
    BY <2>5
<1>. QED
  BY <1>1, <1>2

(* content.insert_str: the segments before the place, the new one, then   *)
(* the rest shifted by one.                                                *)
LEMMA InsertAfterProps ==
  ASSUME NEW S, NEW d \in Seq(S), NEW j \in 0 .. Len(d), NEW s \in S
  PROVE  /\ InsertAfter(d, j, s) \in Seq(S)
         /\ Len(InsertAfter(d, j, s)) = Len(d) + 1
         /\ \A k \in 1 .. Len(d) + 1 :
              InsertAfter(d, j, s)[k] = IF k <= j THEN d[k]
                                        ELSE IF k = j + 1 THEN s ELSE d[k - 1]
<1>1. /\ SubSeq(d, 1, j) \in Seq(S)
      /\ Len(SubSeq(d, 1, j)) = j
      /\ \A k \in 1 .. j : SubSeq(d, 1, j)[k] = d[k]
  BY SubSeqProperties
<1>2. /\ SubSeq(d, j + 1, Len(d)) \in Seq(S)
      /\ Len(SubSeq(d, j + 1, Len(d))) = Len(d) - j
      /\ \A k \in 1 .. Len(d) - j : SubSeq(d, j + 1, Len(d))[k] = d[j + k]
  BY SubSeqProperties
<1>3. /\ SubSeq(d, 1, j) \o <<s>> \in Seq(S)
      /\ Len(SubSeq(d, 1, j) \o <<s>>) = j + 1
      /\ \A k \in 1 .. j + 1 : (SubSeq(d, 1, j) \o <<s>>)[k] =
                                IF k <= j THEN d[k] ELSE s
  BY <1>1, ConcatProperties
<1>4. /\ InsertAfter(d, j, s) \in Seq(S)
      /\ Len(InsertAfter(d, j, s)) = Len(d) + 1
      /\ \A k \in 1 .. Len(d) + 1 :
           InsertAfter(d, j, s)[k] =
             IF k <= j + 1 THEN (SubSeq(d, 1, j) \o <<s>>)[k]
                           ELSE SubSeq(d, j + 1, Len(d))[k - (j + 1)]
  <2>1. PICK A \in Seq(S) : A = SubSeq(d, 1, j) \o <<s>>
    BY <1>3
  <2>2. PICK B \in Seq(S) : B = SubSeq(d, j + 1, Len(d))
    BY <1>2
  <2>3. /\ A \o B \in Seq(S)
        /\ Len(A \o B) = Len(A) + Len(B)
        /\ \A k \in 1 .. Len(A) + Len(B) :
             (A \o B)[k] = IF k <= Len(A) THEN A[k] ELSE B[k - Len(A)]
    BY ConcatProperties
  <2>4. InsertAfter(d, j, s) = A \o B
    BY <2>1, <2>2 DEF InsertAfter
  <2>5. Len(A) = j + 1 /\ Len(B) = Len(d) - j
    BY <1>2, <1>3, <2>1, <2>2
  <2>6. \A k \in 1 .. Len(d) + 1 :
          (A \o B)[k] = IF k <= j + 1 THEN A[k] ELSE B[k - (j + 1)]
    BY <2>3, <2>5
  <2>7. InsertAfter(d, j, s) \in Seq(S)
    BY <2>3, <2>4
  <2>8. Len(InsertAfter(d, j, s)) = Len(d) + 1
    BY <2>3, <2>4, <2>5
  <2>9. \A k \in 1 .. Len(d) + 1 :
          InsertAfter(d, j, s)[k] =
            IF k <= j + 1 THEN (SubSeq(d, 1, j) \o <<s>>)[k]
                          ELSE SubSeq(d, j + 1, Len(d))[k - (j + 1)]
    BY <2>1, <2>2, <2>4, <2>6
  <2>. QED
    BY <2>7, <2>8, <2>9
<1>. QED
  BY <1>2, <1>3, <1>4

(* create_experiment's template is well placed when the user's title and  *)
(* hypothesis hold no "## Results".                                        *)
LEMMA TemplatePlaced ==
  ASSUME NoResultsMarker, NEW tm \in UserMarks, NEW hm \in UserMarks
  PROVE  Template(tm, hm) \in Seq(PSeg) /\ WellPlaced(Template(tm, hm))
<1>1. tm \subseteq Markers \ {"R"} /\ hm \subseteq Markers \ {"R"}
  BY DEF NoResultsMarker
<1>2. Template(tm, hm) \in Seq(PSeg)
  BY <1>1 DEF Template, Seg, PSeg, Srcs, TagVals, Markers
<1>3. WellPlaced(Template(tm, hm))
  BY <1>1 DEF Template, Seg, WellPlaced, Markers
<1>. QED
  BY <1>2, <1>3

(* log_observation's append keeps a document well placed.                  *)
LEMMA AppendPlaced ==
  ASSUME NEW d \in Seq(PSeg), WellPlaced(d), NEW o \in TagVals
  PROVE  Append(d, Observation(o)) \in Seq(PSeg)
         /\ WellPlaced(Append(d, Observation(o)))
<1>1. Observation(o) \in PSeg
  BY DEF Observation, Seg, PSeg, Srcs
<1>2. /\ Append(d, Observation(o)) \in Seq(PSeg)
      /\ Len(Append(d, Observation(o))) = Len(d) + 1
      /\ \A i \in 1 .. Len(d) : Append(d, Observation(o))[i] = d[i]
      /\ Append(d, Observation(o))[Len(d) + 1] = Observation(o)
  BY <1>1, AppendProperties
<1>3. Observation(o).src = "observation" /\ Observation(o).marks = {}
  BY DEF Observation, Seg
<1>. QED
  BY <1>2, <1>3 DEF WellPlaced

(* update_status's replace of the first status line keeps a document well *)
(* placed: the line it replaces holds "**Status:**", so it is no Results   *)
(* header, and the new line holds no "## Results".                         *)
LEMMA SetStatusPlaced ==
  ASSUME NEW d \in Seq(PSeg), WellPlaced(d), NEW st \in Statuses,
         NEW stMarks \in SUBSET (Markers \ {"R"})
  PROVE  SetStatus(d, st, stMarks) \in Seq(PSeg)
         /\ WellPlaced(SetStatus(d, st, stMarks))
<1> DEFINE i == FirstIndex(d, "S")
           new == Seg("status", {"S"} \cup stMarks, st)
<1>1. CASE i = 0
  BY <1>1 DEF SetStatus
<1>2. CASE i # 0
  <2>1. i \in 1 .. Len(d) /\ "S" \in d[i].marks
    BY <1>2, FirstIndexFound
  <2>2. d[i].src # "results"
    BY <2>1 DEF WellPlaced
  <2>3. new \in PSeg /\ new.src = "status" /\ "R" \notin new.marks
    BY DEF Seg, PSeg, Srcs, TagVals, Markers
  <2>4. /\ [d EXCEPT ![i] = new] \in Seq(PSeg)
        /\ Len([d EXCEPT ![i] = new]) = Len(d)
        /\ \A k \in 1 .. Len(d) : [d EXCEPT ![i] = new][k] = IF k = i THEN new ELSE d[k]
    BY <2>1, <2>3, ExceptSeq
  <2>5. SetStatus(d, st, stMarks) = [d EXCEPT ![i] = new]
    BY <1>2 DEF SetStatus
  <2> DEFINE r == [d EXCEPT ![i] = new]
  <2>6. \A k \in 1 .. Len(r) : "R" \in r[k].marks => r[k].src = "results"
    BY <2>3, <2>4 DEF WellPlaced
  <2>7. \A k \in 1 .. Len(r) : r[k].src = "results" => r[k].marks = {"R"}
    BY <2>3, <2>4 DEF WellPlaced
  <2>8. \A k \in 1 .. Len(r) : r[k].src = "conclusion" =>
          \E j \in 1 .. Len(r) : r[j].src = "results" /\ j < k
    <3> SUFFICES ASSUME NEW k \in 1 .. Len(r), r[k].src = "conclusion"
                 PROVE  \E j \in 1 .. Len(r) : r[j].src = "results" /\ j < k
      OBVIOUS
    <3>1. k # i /\ d[k].src = "conclusion"
      BY <2>3, <2>4
    <3>2. PICK j \in 1 .. Len(d) : d[j].src = "results" /\ j < k
      BY <3>1, <2>4 DEF WellPlaced
    <3>3. j # i /\ r[j] = d[j]
      BY <2>2, <2>4, <3>2
    <3>. QED
      BY <2>4, <3>2, <3>3
  <2>9. WellPlaced(r)
    BY <2>6, <2>7, <2>8 DEF WellPlaced
  <2>. QED
    BY <2>4, <2>5, <2>9
<1>. QED
  BY <1>1, <1>2

(* update_status's insert of the conclusion keeps a document well placed: *)
(* the first "## Results" it finds is on a Results header, the conclusion *)
(* goes right after it, and the segments after it shift together.         *)
LEMMA AddConclusionPlaced ==
  ASSUME NEW d \in Seq(PSeg), WellPlaced(d), NEW c \in TagVals
  PROVE  AddConclusion(d, c) \in Seq(PSeg) /\ WellPlaced(AddConclusion(d, c))
<1> DEFINE j == FirstIndex(d, "R")
           new == Seg("conclusion", {}, c)
           r == InsertAfter(d, j, new)
<1>1. CASE c = NoConclusion \/ j = 0
  BY <1>1 DEF AddConclusion
<1>2. CASE c # NoConclusion /\ j # 0
  <2>1. j \in 1 .. Len(d) /\ d[j].src = "results"
    BY <1>2, FirstIndexFound DEF WellPlaced
  <2>2. new \in PSeg /\ new.src = "conclusion" /\ new.marks = {}
    BY DEF Seg, PSeg, Srcs
  <2>3. /\ r \in Seq(PSeg)
        /\ Len(r) = Len(d) + 1
        /\ \A k \in 1 .. Len(d) + 1 :
             r[k] = IF k <= j THEN d[k] ELSE IF k = j + 1 THEN new ELSE d[k - 1]
    <3>1. \A jj \in 0 .. Len(d), ss \in PSeg :
            /\ InsertAfter(d, jj, ss) \in Seq(PSeg)
            /\ Len(InsertAfter(d, jj, ss)) = Len(d) + 1
            /\ \A k \in 1 .. Len(d) + 1 :
                 InsertAfter(d, jj, ss)[k] =
                   IF k <= jj THEN d[k] ELSE IF k = jj + 1 THEN ss ELSE d[k - 1]
      BY InsertAfterProps
    <3>2. j \in 0 .. Len(d)
      BY <2>1
    <3>. QED
      BY <2>2, <3>1, <3>2
  <2>4. AddConclusion(d, c) = r
    BY <1>2 DEF AddConclusion
  <2>a. \A k \in 1 .. Len(r) : r[k] = new \/ \E m \in 1 .. Len(d) : r[k] = d[m]
    <3> SUFFICES ASSUME NEW k \in 1 .. Len(r)
                 PROVE  r[k] = new \/ \E m \in 1 .. Len(d) : r[k] = d[m]
      OBVIOUS
    <3>1. CASE k <= j
      BY <2>1, <2>3, <3>1
    <3>2. CASE k = j + 1
      BY <2>1, <2>3, <3>2
    <3>3. CASE k > j + 1
      <4>1. k - 1 \in 1 .. Len(d) /\ r[k] = d[k - 1]
        BY <2>1, <2>3, <3>3
      <4>. QED
        BY <4>1
    <3>. QED
      BY <2>1, <3>1, <3>2, <3>3
  <2>5. \A k \in 1 .. Len(r) : "R" \in r[k].marks => r[k].src = "results"
    BY <2>2, <2>a DEF WellPlaced
  <2>6. \A k \in 1 .. Len(r) : r[k].src = "results" => r[k].marks = {"R"}
    BY <2>2, <2>a DEF WellPlaced
  <2>7. \A k \in 1 .. Len(r) : r[k].src = "conclusion" =>
          \E h \in 1 .. Len(r) : r[h].src = "results" /\ h < k
    <3> SUFFICES ASSUME NEW k \in 1 .. Len(r), r[k].src = "conclusion"
                 PROVE  \E h \in 1 .. Len(r) : r[h].src = "results" /\ h < k
      OBVIOUS
    <3>1. CASE k = j + 1
      BY <2>1, <2>3, <3>1
    <3>2. CASE k <= j
      <4>1. PICK h \in 1 .. Len(d) : d[h].src = "results" /\ h < k
        BY <2>1, <2>3, <3>2 DEF WellPlaced
      <4>. QED
        BY <2>1, <2>3, <3>2, <4>1
    <3>3. CASE k > j + 1
      <4>0. k \in 1 .. Len(d) + 1 /\ ~(k <= j) /\ k # j + 1
        BY <2>1, <2>3, <3>3
      <4>1. d[k - 1].src = "conclusion"
        BY <2>3, <4>0
      <4>2. PICK h \in 1 .. Len(d) : d[h].src = "results" /\ h < k - 1
        BY <2>1, <2>3, <3>3, <4>1 DEF WellPlaced
      <4>3. CASE h <= j
        <5>1. h \in 1 .. Len(r) /\ r[h] = d[h]
          BY <2>1, <2>3, <4>2, <4>3
        <5>. QED
          BY <3>3, <4>2, <5>1
      <4>4. CASE h > j
        <5>1. r[h + 1] = d[h]
          BY <2>1, <2>3, <4>2, <4>4
        <5>. QED
          BY <2>1, <2>3, <4>2, <5>1
      <4>. QED
        BY <2>1, <4>2, <4>3, <4>4
    <3>. QED
      BY <2>1, <2>3, <3>1, <3>2, <3>3
  <2>8. WellPlaced(r)
    BY <2>5, <2>6, <2>7 DEF WellPlaced
  <2>. QED
    BY <2>3, <2>4, <2>8
<1>. QED
  BY <1>1, <1>2

(* update_status's whole edit of a well-placed copy is well placed.        *)
LEMMA EditPlaced ==
  ASSUME NEW d \in Seq(PSeg), WellPlaced(d), NEW st \in Statuses,
         NEW stMarks \in SUBSET (Markers \ {"R"}), NEW c \in TagVals
  PROVE  Edit(d, st, stMarks, c) \in Seq(PSeg) /\ WellPlaced(Edit(d, st, stMarks, c))
<1>1. SetStatus(d, st, stMarks) \in Seq(PSeg) /\ WellPlaced(SetStatus(d, st, stMarks))
  BY SetStatusPlaced
<1>. QED
  BY <1>1, AddConclusionPlaced DEF Edit

-----------------------------------------------------------------------------
(* The inductive invariant.                                                *)

LEMMA InitIInv == Init => IInv
BY DEF Init, IInv, ProofTypes, FilesPlaced, AppendReady, WriteReady, NoCall,
       CallRec, TagVals

(* NoCall, the arguments of a client between calls, is well typed.          *)
LEMMA NoCallType == NoCall \in CallRec
BY DEF NoCall, CallRec, TagVals

(* Every step keeps IInv; one case per action of Next.                     *)
LEMMA StepIInv ==
  ASSUME NoResultsMarker
  PROVE  IInv /\ [Next]_vars => IInv'
<1> SUFFICES ASSUME IInv, [Next]_vars PROVE IInv'
  OBVIOUS
<1> USE DEF IInv
<1>1. ASSUME NEW p \in Clients, CreateExperiment(p) PROVE IInv'
  <2>1. PICK e \in ExpIds, tm \in UserMarks, hm \in UserMarks :
          /\ files[e] = NoFile
          /\ files' = [files EXCEPT ![e] = Template(tm, hm)]
    BY <1>1 DEF CreateExperiment
  <2>2. Template(tm, hm) \in Seq(PSeg) /\ WellPlaced(Template(tm, hm))
    BY TemplatePlaced
  <2>3. UNCHANGED <<pc, call, snapshot>> /\ calls' = [calls EXCEPT ![p] = @ + 1]
    BY <1>1 DEF CreateExperiment, Start
  <2>4. ProofTypes'
    BY <2>1, <2>3 DEF ProofTypes
  <2>5. FilesPlaced'
    BY <2>1, <2>2 DEF FilesPlaced, ProofTypes
  <2>6. AppendReady'
    BY <2>1, <2>2, <2>3 DEF AppendReady, ProofTypes
  <2>7. WriteReady'
    BY <2>3 DEF WriteReady
  <2>. QED
    BY <2>4, <2>5, <2>6, <2>7
<1>2. ASSUME NEW p \in Clients, LogObservationRead(p) PROVE IInv'
  <2>1. UNCHANGED <<files, snapshot>> /\ calls' = [calls EXCEPT ![p] = @ + 1]
    BY <1>2 DEF LogObservationRead, Start
  <2>2. PICK e \in ExpIds :
          \/ files[e] = NoFile /\ UNCHANGED <<pc, call>>
          \/ /\ files[e] # NoFile
             /\ pc' = [pc EXCEPT ![p] = "append"]
             /\ call' = [call EXCEPT ![p] = [NoCall EXCEPT !.exp = e,
                                                           !.tag = <<p, calls[p]>>]]
    BY <1>2 DEF LogObservationRead
  <2>3. ProofTypes' /\ FilesPlaced'
    <3>1. [NoCall EXCEPT !.exp = e, !.tag = <<p, calls[p]>>] \in CallRec
      BY DEF ProofTypes, NoCall, CallRec, TagVals
    <3>2. calls' \in [Clients -> Nat]
      BY <2>1 DEF ProofTypes
    <3>3. pc' \in [Clients -> {"idle", "append", "write"}] /\ call' \in [Clients -> CallRec]
      BY <2>2, <3>1 DEF ProofTypes
    <3>4. FilesPlaced'
      BY <2>1 DEF FilesPlaced
    <3>. QED
      BY <2>1, <3>2, <3>3, <3>4 DEF ProofTypes
  <2>4. AppendReady'
    <3>1. CASE files[e] = NoFile /\ UNCHANGED <<pc, call>>
      BY <2>1, <3>1 DEF AppendReady
    <3>2. CASE /\ files[e] # NoFile
               /\ pc' = [pc EXCEPT ![p] = "append"]
               /\ call' = [call EXCEPT ![p] = [NoCall EXCEPT !.exp = e,
                                                             !.tag = <<p, calls[p]>>]]
      <4>1. files[e] \in Seq(PSeg) /\ WellPlaced(files[e])
        BY <3>2 DEF FilesPlaced
      <4>2. call'[p].exp = e
        BY <3>2 DEF ProofTypes, NoCall
      <4>. QED
        BY <2>1, <3>2, <4>1, <4>2 DEF AppendReady, ProofTypes
    <3>. QED
      BY <2>2, <3>1, <3>2
  <2>5. WriteReady'
    BY <2>1, <2>2 DEF WriteReady, ProofTypes
  <2>. QED
    BY <2>3, <2>4, <2>5
<1>3. ASSUME NEW p \in Clients, LogObservationAppend(p) PROVE IInv'
  <2> DEFINE e == call[p].exp
             d == Append(files[e], Observation(call[p].tag))
  <2>1. /\ pc[p] = "append" /\ files' = [files EXCEPT ![e] = d]
        /\ pc' = [pc EXCEPT ![p] = "idle"] /\ call' = [call EXCEPT ![p] = NoCall]
        /\ UNCHANGED <<snapshot, calls>>
    BY <1>3 DEF LogObservationAppend
  <2>2. e \in ExpIds /\ files[e] \in Seq(PSeg) /\ WellPlaced(files[e])
        /\ call[p].tag \in TagVals
    BY <2>1 DEF AppendReady, ProofTypes, CallRec
  <2>3. d \in Seq(PSeg) /\ WellPlaced(d)
    BY <2>2, AppendPlaced
  <2>4. ProofTypes'
    BY <2>1, NoCallType DEF ProofTypes
  <2>5. FilesPlaced'
    BY <2>1, <2>2, <2>3 DEF FilesPlaced, ProofTypes
  <2>6. AppendReady'
    BY <2>1, <2>2, <2>3 DEF AppendReady, ProofTypes
  <2>7. WriteReady'
    BY <2>1 DEF WriteReady, ProofTypes
  <2>. QED
    BY <2>4, <2>5, <2>6, <2>7
<1>4. ASSUME NEW p \in Clients, UpdateStatusRead(p) PROVE IInv'
  <2>1. UNCHANGED files /\ calls' = [calls EXCEPT ![p] = @ + 1]
    BY <1>4 DEF UpdateStatusRead, Start
  <2>2. PICK e \in ExpIds, st \in Statuses, c \in {NoConclusion, <<p, calls[p]>>} :
          \/ files[e] = NoFile /\ UNCHANGED <<pc, call, snapshot>>
          \/ /\ files[e] # NoFile
             /\ pc' = [pc EXCEPT ![p] = "write"]
             /\ call' = [call EXCEPT ![p] = [exp |-> e, tag |-> c, st |-> st]]
             /\ snapshot' = [snapshot EXCEPT ![p] = files[e]]
    BY <1>4 DEF UpdateStatusRead
  <2>3. CASE files[e] = NoFile /\ UNCHANGED <<pc, call, snapshot>>
    BY <2>1, <2>3 DEF ProofTypes, FilesPlaced, AppendReady, WriteReady
  <2>4. CASE /\ files[e] # NoFile
             /\ pc' = [pc EXCEPT ![p] = "write"]
             /\ call' = [call EXCEPT ![p] = [exp |-> e, tag |-> c, st |-> st]]
             /\ snapshot' = [snapshot EXCEPT ![p] = files[e]]
    <3>1. [exp |-> e, tag |-> c, st |-> st] \in CallRec
      BY DEF ProofTypes, CallRec, TagVals
    <3>2. files[e] \in Seq(PSeg) /\ WellPlaced(files[e])
      BY <2>4 DEF FilesPlaced
    <3>3. ProofTypes' /\ FilesPlaced'
      <4>1. calls' \in [Clients -> Nat] /\ DOMAIN snapshot' = Clients
        BY <2>1, <2>4 DEF ProofTypes
      <4>2. pc' \in [Clients -> {"idle", "append", "write"}] /\ call' \in [Clients -> CallRec]
        BY <2>4, <3>1 DEF ProofTypes
      <4>3. FilesPlaced'
        BY <2>1 DEF FilesPlaced
      <4>. QED
        BY <2>1, <4>1, <4>2, <4>3 DEF ProofTypes
    <3>4. AppendReady'
      BY <2>1, <2>4 DEF AppendReady, ProofTypes
    <3>5. WriteReady'
      BY <2>4, <3>2 DEF WriteReady, ProofTypes
    <3>. QED
      BY <3>3, <3>4, <3>5
  <2>. QED
    BY <2>2, <2>3, <2>4
<1>5. ASSUME NEW p \in Clients, UpdateStatusWrite(p) PROVE IInv'
  <2> DEFINE e == call[p].exp
             st == call[p].st
             d == Edit(snapshot[p], st, StatusMarks[st], call[p].tag)
  <2>1. /\ pc[p] = "write"
        /\ files' = [files EXCEPT ![e] = d]
        /\ pc' = [pc EXCEPT ![p] = "idle"] /\ call' = [call EXCEPT ![p] = NoCall]
        /\ snapshot' = [snapshot EXCEPT ![p] = <<>>] /\ UNCHANGED calls
    BY <1>5 DEF UpdateStatusWrite
  <2>2. /\ e \in ExpIds /\ st \in Statuses /\ call[p].tag \in TagVals
        /\ snapshot[p] \in Seq(PSeg) /\ WellPlaced(snapshot[p])
    BY <2>1 DEF WriteReady, ProofTypes, CallRec
  <2>3. StatusMarks[st] \in SUBSET (Markers \ {"R"})
    BY <2>2 DEF NoResultsMarker
  <2>4. d \in Seq(PSeg) /\ WellPlaced(d)
    BY <2>2, <2>3, EditPlaced
  <2>5. ProofTypes'
    BY <2>1, NoCallType DEF ProofTypes
  <2>6. FilesPlaced'
    BY <2>1, <2>2, <2>4 DEF FilesPlaced, ProofTypes
  <2>7. AppendReady'
    BY <2>1, <2>2, <2>4 DEF AppendReady, ProofTypes
  <2>8. WriteReady'
    BY <2>1 DEF WriteReady, ProofTypes
  <2>. QED
    BY <2>5, <2>6, <2>7, <2>8
<1>6. ASSUME NEW p \in Clients, GetOrList(p) PROVE IInv'
  BY <1>6 DEF GetOrList, Start, ProofTypes, FilesPlaced, AppendReady, WriteReady
<1>7. CASE UNCHANGED vars
  BY <1>7 DEF vars, ProofTypes, FilesPlaced, AppendReady, WriteReady
<1>. QED
  BY <1>1, <1>2, <1>3, <1>4, <1>5, <1>6, <1>7 DEF Next

(* A well-placed file has every conclusion below a Results header.         *)
LEMMA IInvConclusion == IInv => ConclusionInResults
<1> SUFFICES ASSUME IInv, NEW e \in ExpIds, files[e] # NoFile,
                    NEW i \in IndicesOf(files[e], "conclusion")
             PROVE  \E j \in IndicesOf(files[e], "results") : j < i
  BY DEF ConclusionInResults
<1>1. files[e] \in Seq(PSeg) /\ WellPlaced(files[e])
  BY DEF IInv, FilesPlaced
<1>. QED
  BY <1>1 DEF WellPlaced, IndicesOf

(* update_status puts every conclusion under "## Results", in every        *)
(* behaviour, for any clients, experiments and call bound, as long as no   *)
(* title, hypothesis or status string holds the marker.                   *)
THEOREM ConclusionPlaced ==
  ASSUME NoResultsMarker
  PROVE  Spec => []ConclusionInResults
<1>1. Init => IInv
  BY InitIInv
<1>2. IInv /\ [Next]_vars => IInv'
  BY StepIInv
<1>3. IInv => ConclusionInResults
  BY IInvConclusion
<1>. QED
  BY <1>1, <1>2, <1>3, PTL DEF Spec
=============================================================================
