------------------------- MODULE TrackerStatusProofs -------------------------
(***************************************************************************)
(* Proof that every status line of an experiment shows the status of the  *)
(* last update_status write (StatusLineHolds), for any number of clients, *)
(* experiments and calls, provided no title or hypothesis contains        *)
(* "**Status:**" (nor "## Results", which IInv of ExperimentTrackerProofs *)
(* needs).                                                                 *)
(*                                                                         *)
(* update_status rewrites the first segment holding "**Status:**" of the  *)
(* copy it read, and a write installs that copy over whatever the file    *)
(* became meanwhile.  The property is therefore not inductive: it needs   *)
(* that in every file, and in every copy about to be written back,        *)
(*   - a segment holds "**Status:**" exactly when it is a status line,    *)
(*   - there is at most one status line,                                  *)
(* so that the line SetStatus replaces is the one status line there is.   *)
(* That is StatusShape; StatusInv adds it to the tags of the files.        *)
(***************************************************************************)
EXTENDS ExperimentTrackerProofs

(* No title or hypothesis a caller passes contains "**Status:**".  TLC    *)
(* finds StatusLineHolds violated otherwise: a title holding it is the    *)
(* first match, and update_status rewrites the title, not the status line. *)
NoStatusMarker == UserMarks \subseteq SUBSET (Markers \ {"S"})

(* The workspace's "no document here" is not itself a document.            *)
NoFileNotDoc == NoFile \notin Seq(PSeg)

StatusShape(d) ==
  /\ \A i \in 1 .. Len(d) : "S" \in d[i].marks <=> d[i].src = "status"
  /\ \A i, j \in 1 .. Len(d) : d[i].src = "status" /\ d[j].src = "status" => i = j

StatusTagged(d, s) == \A i \in 1 .. Len(d) : d[i].src = "status" => d[i].tag = s

(* Every file has the shape and shows its last status; every copy about   *)
(* to be written back has the shape.                                       *)
StatusInv ==
  /\ DOMAIN lastStatus = ExpIds
  /\ \A e \in ExpIds : files[e] # NoFile =>
       StatusShape(files[e]) /\ StatusTagged(files[e], lastStatus[e])
  /\ \A p \in Clients : pc[p] = "write" => StatusShape(snapshot[p])

SInv == IInv /\ StatusInv

-----------------------------------------------------------------------------
(* str::find finds a marker that some segment holds.                       *)
LEMMA FirstIndexHit ==
  ASSUME NEW d \in Seq(PSeg), NEW m, NEW k \in 1 .. Len(d), m \in d[k].marks
  PROVE  FirstIndex(d, m) \in 1 .. Len(d) /\ m \in d[FirstIndex(d, m)].marks
<1> DEFINE I == {i \in DOMAIN d : m \in d[i].marks}
<1>1. I \subseteq Nat /\ I # {}
  OBVIOUS
<1>2. PICK x \in I : \A y \in I : ~(<<y, x>> \in OpToRel(<, Nat))
  BY <1>1, WFMin, NatLessThanWellFounded
<1>3. \A y \in I : x <= y
  <2> TAKE y \in I
  <2>1. ~(y < x)
    BY <1>1, <1>2 DEF OpToRel
  <2>. QED
    BY <1>1, <2>1
<1>4. FirstIndex(d, m) \in I
  BY <1>1, <1>3 DEF FirstIndex
<1>. QED
  BY <1>4

(* A document without "**Status:**" anywhere: str::find gives None.        *)
LEMMA FirstIndexMiss ==
  ASSUME NEW d \in Seq(PSeg), NEW m, \A k \in 1 .. Len(d) : m \notin d[k].marks
  PROVE  FirstIndex(d, m) = 0
BY DEF FirstIndex

(* The replace of the first "**Status:**" line rewrites the one status    *)
(* line, to the new status, and leaves the shape.                          *)
LEMMA SetStatusShape ==
  ASSUME NEW d \in Seq(PSeg), StatusShape(d), NEW st, NEW stMarks
  PROVE  /\ StatusShape(SetStatus(d, st, stMarks))
         /\ StatusTagged(SetStatus(d, st, stMarks), st)
<1> DEFINE i == FirstIndex(d, "S")
           new == Seg("status", {"S"} \cup stMarks, st)
           r == [d EXCEPT ![i] = new]
<1>1. CASE \A k \in 1 .. Len(d) : "S" \notin d[k].marks
  <2>1. SetStatus(d, st, stMarks) = d
    BY <1>1, FirstIndexMiss DEF SetStatus
  <2>2. \A k \in 1 .. Len(d) : d[k].src # "status"
    BY <1>1 DEF StatusShape
  <2>. QED
    BY <2>1, <2>2 DEF StatusTagged
<1>2. CASE \E k \in 1 .. Len(d) : "S" \in d[k].marks
  <2>1. i \in 1 .. Len(d) /\ "S" \in d[i].marks
    BY <1>2, FirstIndexHit
  <2>2. d[i].src = "status"
    BY <2>1 DEF StatusShape
  <2>3. SetStatus(d, st, stMarks) = r
    BY <2>1 DEF SetStatus
  <2>4. Len(r) = Len(d) /\ \A k \in 1 .. Len(d) : r[k] = IF k = i THEN new ELSE d[k]
    OBVIOUS
  <2>5. new.src = "status" /\ "S" \in new.marks /\ new.tag = st
    BY DEF Seg
  <2>6. \A k \in 1 .. Len(d) : k # i => d[k].src # "status"
    BY <2>1, <2>2 DEF StatusShape
  <2>7. StatusShape(r)
    BY <2>4, <2>5, <2>6 DEF StatusShape
  <2>8. StatusTagged(r, st)
    BY <2>4, <2>5, <2>6 DEF StatusTagged
  <2>. QED
    BY <2>3, <2>7, <2>8
<1>. QED
  BY <1>1, <1>2

(* Inserting a segment that is no status line and holds no "**Status:**"  *)
(* keeps the shape and the status shown.                                   *)
LEMMA InsertShape ==
  ASSUME NEW d \in Seq(PSeg), NEW j \in 0 .. Len(d), NEW s \in PSeg,
         s.src # "status", "S" \notin s.marks,
         StatusShape(d), NEW t, StatusTagged(d, t)
  PROVE  StatusShape(InsertAfter(d, j, s)) /\ StatusTagged(InsertAfter(d, j, s), t)
<1> DEFINE r == InsertAfter(d, j, s)
           pos(k) == IF k <= j THEN k ELSE k - 1
<1>1. /\ Len(r) = Len(d) + 1
      /\ \A k \in 1 .. Len(d) + 1 :
           r[k] = IF k <= j THEN d[k] ELSE IF k = j + 1 THEN s ELSE d[k - 1]
  <2>1. \A jj \in 0 .. Len(d), ss \in PSeg :
          /\ Len(InsertAfter(d, jj, ss)) = Len(d) + 1
          /\ \A k \in 1 .. Len(d) + 1 :
               InsertAfter(d, jj, ss)[k] =
                 IF k <= jj THEN d[k] ELSE IF k = jj + 1 THEN ss ELSE d[k - 1]
    BY InsertAfterProps
  <2>. QED
    BY <2>1
<1>2. \A k \in 1 .. Len(r) : k # j + 1 => pos(k) \in 1 .. Len(d) /\ r[k] = d[pos(k)]
  BY <1>1
<1>3. \A k \in 1 .. Len(r) : k = j + 1 => r[k] = s
  BY <1>1
<1>4. \A k \in 1 .. Len(r) : "S" \in r[k].marks <=> r[k].src = "status"
  BY <1>2, <1>3 DEF StatusShape
<1>5. \A k1, k2 \in 1 .. Len(r) :
        r[k1].src = "status" /\ r[k2].src = "status" => k1 = k2
  <2> SUFFICES ASSUME NEW k1 \in 1 .. Len(r), NEW k2 \in 1 .. Len(r),
                      r[k1].src = "status", r[k2].src = "status"
               PROVE  k1 = k2
    OBVIOUS
  <2>1. k1 # j + 1 /\ k2 # j + 1
    BY <1>3
  <2>2. d[pos(k1)].src = "status" /\ d[pos(k2)].src = "status"
    BY <1>2, <2>1
  <2>3. pos(k1) = pos(k2)
    BY <1>2, <2>1, <2>2 DEF StatusShape
  <2>. QED
    BY <2>1, <2>3, <1>1
<1>6. StatusTagged(r, t)
  BY <1>2, <1>3 DEF StatusTagged
<1>. QED
  BY <1>4, <1>5, <1>6 DEF StatusShape

(* The insert of a conclusion keeps the shape and the status shown.        *)
LEMMA AddConclusionShape ==
  ASSUME NEW d \in Seq(PSeg), NEW c \in TagVals, StatusShape(d), NEW t,
         StatusTagged(d, t)
  PROVE  StatusShape(AddConclusion(d, c)) /\ StatusTagged(AddConclusion(d, c), t)
<1> DEFINE j == FirstIndex(d, "R")
           new == Seg("conclusion", {}, c)
<1>1. CASE c = NoConclusion \/ j = 0
  BY <1>1 DEF AddConclusion
<1>2. CASE c # NoConclusion /\ j # 0
  <2>1. j \in 0 .. Len(d)
    BY <1>2, FirstIndexFound
  <2>2. new \in PSeg /\ new.src # "status" /\ "S" \notin new.marks
    BY DEF Seg, PSeg, Srcs
  <2>3. AddConclusion(d, c) = InsertAfter(d, j, new)
    BY <1>2 DEF AddConclusion
  <2>. QED
    BY <2>1, <2>2, <2>3, InsertShape
<1>. QED
  BY <1>1, <1>2

(* update_status's whole edit: the copy's one status line shows the new   *)
(* status, whatever the copy showed before.                                *)
LEMMA EditShape ==
  ASSUME NEW d \in Seq(PSeg), WellPlaced(d), StatusShape(d), NEW st \in Statuses,
         NEW stMarks \in SUBSET (Markers \ {"R"}), NEW c \in TagVals
  PROVE  StatusShape(Edit(d, st, stMarks, c)) /\ StatusTagged(Edit(d, st, stMarks, c), st)
<1>1. SetStatus(d, st, stMarks) \in Seq(PSeg)
  BY SetStatusPlaced
<1>2. StatusShape(SetStatus(d, st, stMarks)) /\ StatusTagged(SetStatus(d, st, stMarks), st)
  BY SetStatusShape
<1>. QED
  BY <1>1, <1>2, AddConclusionShape DEF Edit

(* log_observation's append keeps the shape and the status shown.          *)
LEMMA AppendShape ==
  ASSUME NEW d \in Seq(PSeg), NEW o \in TagVals, StatusShape(d), NEW t,
         StatusTagged(d, t)
  PROVE  StatusShape(Append(d, Observation(o))) /\ StatusTagged(Append(d, Observation(o)), t)
<1>1. Observation(o) \in PSeg /\ Observation(o).src # "status"
      /\ "S" \notin Observation(o).marks
  BY DEF Observation, Seg, PSeg, Srcs
<1>2. Append(d, Observation(o)) = InsertAfter(d, Len(d), Observation(o))
  <2>1. SubSeq(d, 1, Len(d)) = d /\ SubSeq(d, Len(d) + 1, Len(d)) = <<>>
    OBVIOUS
  <2>. QED
    BY <1>1, <2>1 DEF InsertAfter
<1>. QED
  BY <1>1, <1>2, InsertShape

(* create_experiment's template has one status line, "planning".           *)
LEMMA TemplateShape ==
  ASSUME NoStatusMarker, NEW tm \in UserMarks, NEW hm \in UserMarks
  PROVE  StatusShape(Template(tm, hm)) /\ StatusTagged(Template(tm, hm), "planning")
<1>1. tm \subseteq Markers \ {"S"} /\ hm \subseteq Markers \ {"S"}
  BY DEF NoStatusMarker
<1>. QED
  BY <1>1 DEF Template, Seg, StatusShape, StatusTagged, Markers

-----------------------------------------------------------------------------
(* Every step keeps SInv; one case per action of Next.                     *)
LEMMA StepSInv ==
  ASSUME NoResultsMarker, NoStatusMarker, NoFileNotDoc
  PROVE  SInv /\ [Next]_vars => SInv'
<1> SUFFICES ASSUME IInv, StatusInv, [Next]_vars PROVE IInv' /\ StatusInv'
  BY DEF SInv
<1>0. IInv'
  BY StepIInv
<1>1. ASSUME NEW p \in Clients, CreateExperiment(p) PROVE StatusInv'
  <2>1. PICK e \in ExpIds, tm \in UserMarks, hm \in UserMarks :
          /\ files[e] = NoFile
          /\ files' = [files EXCEPT ![e] = Template(tm, hm)]
          /\ lastStatus' = [lastStatus EXCEPT ![e] = "planning"]
    BY <1>1 DEF CreateExperiment
  <2>2. StatusShape(Template(tm, hm)) /\ StatusTagged(Template(tm, hm), "planning")
    BY TemplateShape
  <2>3. UNCHANGED <<pc, snapshot>>
    BY <1>1 DEF CreateExperiment
  <2>. QED
    BY <2>1, <2>2, <2>3 DEF StatusInv, IInv, ProofTypes
<1>2. ASSUME NEW p \in Clients, LogObservationRead(p) PROVE StatusInv'
  <2>1. UNCHANGED <<files, snapshot, lastStatus>>
    BY <1>2 DEF LogObservationRead
  <2>2. \A q \in Clients : pc'[q] = "write" => pc[q] = "write"
    BY <1>2 DEF LogObservationRead, IInv, ProofTypes
  <2>. QED
    BY <2>1, <2>2 DEF StatusInv
<1>3. ASSUME NEW p \in Clients, LogObservationAppend(p) PROVE StatusInv'
  <2> DEFINE e == call[p].exp
             d == Append(files[e], Observation(call[p].tag))
  <2>1. /\ pc[p] = "append" /\ files' = [files EXCEPT ![e] = d]
        /\ pc' = [pc EXCEPT ![p] = "idle"]
        /\ UNCHANGED <<snapshot, lastStatus>>
    BY <1>3 DEF LogObservationAppend
  <2>2. e \in ExpIds /\ files[e] \in Seq(PSeg) /\ call[p].tag \in TagVals
    BY <2>1 DEF IInv, AppendReady, ProofTypes, CallRec
  <2>3. StatusShape(files[e]) /\ StatusTagged(files[e], lastStatus[e])
    BY <2>2 DEF StatusInv, NoFileNotDoc
  <2>4. StatusShape(d) /\ StatusTagged(d, lastStatus[e])
    BY <2>2, <2>3, AppendShape
  <2>. QED
    BY <2>1, <2>2, <2>4 DEF StatusInv, IInv, ProofTypes
<1>4. ASSUME NEW p \in Clients, UpdateStatusRead(p) PROVE StatusInv'
  <2>1. UNCHANGED <<files, lastStatus>>
    BY <1>4 DEF UpdateStatusRead
  <2>2. PICK e \in ExpIds, st \in Statuses, c \in {NoConclusion, <<p, calls[p]>>} :
          \/ files[e] = NoFile /\ UNCHANGED <<pc, call, snapshot>>
          \/ /\ files[e] # NoFile
             /\ pc' = [pc EXCEPT ![p] = "write"]
             /\ snapshot' = [snapshot EXCEPT ![p] = files[e]]
    BY <1>4 DEF UpdateStatusRead
  <2>3. CASE files[e] = NoFile /\ UNCHANGED <<pc, call, snapshot>>
    BY <2>1, <2>3 DEF StatusInv
  <2>4. CASE /\ files[e] # NoFile
             /\ pc' = [pc EXCEPT ![p] = "write"]
             /\ snapshot' = [snapshot EXCEPT ![p] = files[e]]
    <3>1. StatusShape(files[e])
      BY <2>4 DEF StatusInv
    <3>. QED
      BY <2>1, <2>4, <3>1 DEF StatusInv, IInv, ProofTypes
  <2>. QED
    BY <2>2, <2>3, <2>4
<1>5. ASSUME NEW p \in Clients, UpdateStatusWrite(p) PROVE StatusInv'
  <2> DEFINE e == call[p].exp
             st == call[p].st
             d == Edit(snapshot[p], st, StatusMarks[st], call[p].tag)
  <2>1. /\ pc[p] = "write"
        /\ files' = [files EXCEPT ![e] = d]
        /\ lastStatus' = [lastStatus EXCEPT ![e] = st]
        /\ pc' = [pc EXCEPT ![p] = "idle"]
        /\ snapshot' = [snapshot EXCEPT ![p] = <<>>]
    BY <1>5 DEF UpdateStatusWrite
  <2>2. /\ e \in ExpIds /\ st \in Statuses /\ call[p].tag \in TagVals
        /\ snapshot[p] \in Seq(PSeg) /\ WellPlaced(snapshot[p])
    BY <2>1 DEF IInv, WriteReady, ProofTypes, CallRec
  <2>3. StatusMarks[st] \in SUBSET (Markers \ {"R"}) /\ StatusShape(snapshot[p])
    BY <2>1, <2>2 DEF NoResultsMarker, StatusInv
  <2>4. StatusShape(d) /\ StatusTagged(d, st)
    BY <2>2, <2>3, EditShape
  <2>. QED
    BY <2>1, <2>2, <2>4 DEF StatusInv, IInv, ProofTypes
<1>6. ASSUME NEW p \in Clients, GetOrList(p) PROVE StatusInv'
  BY <1>6 DEF GetOrList, StatusInv
<1>7. ASSUME UNCHANGED vars PROVE StatusInv'
  BY <1>7 DEF vars, StatusInv
<1>8. StatusInv'
  BY <1>1, <1>2, <1>3, <1>4, <1>5, <1>6, <1>7 DEF Next
<1>. QED
  BY <1>0, <1>8

LEMMA InitSInv == Init => SInv
<1> SUFFICES ASSUME Init PROVE SInv
  OBVIOUS
<1>1. IInv
  BY InitIInv
<1>2. StatusInv
  BY DEF Init, StatusInv
<1>. QED
  BY <1>1, <1>2 DEF SInv

(* update_status leaves every experiment showing the status of the last   *)
(* update_status write on its one status line, whatever reads, appends    *)
(* and write-backs of other clients interleave with it, as long as no     *)
(* title or hypothesis holds a marker the tool searches for.              *)
THEOREM StatusLineCorrect ==
  ASSUME NoResultsMarker, NoStatusMarker, NoFileNotDoc
  PROVE  Spec => []StatusLineHolds
<1>1. Init => SInv
  BY InitSInv
<1>2. SInv /\ [Next]_vars => SInv'
  BY StepSInv
<1>3. SInv => StatusLineHolds
  <2> SUFFICES ASSUME SInv, NEW e \in ExpIds, files[e] # NoFile,
                      NEW i \in IndicesOf(files[e], "status")
               PROVE  files[e][i].tag = lastStatus[e]
    BY DEF StatusLineHolds
  <2>1. files[e] \in Seq(PSeg)
    BY DEF SInv, IInv, FilesPlaced
  <2>. QED
    BY <2>1 DEF SInv, StatusInv, StatusTagged, IndicesOf
<1>. QED
  BY <1>1, <1>2, <1>3, PTL DEF Spec
==============================================================================
