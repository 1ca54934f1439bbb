--------------------------- MODULE TrackerLossProofs ---------------------------
(***************************************************************************)
(* Proof of EntriesLostOnlyByStaleWrite for any clients, experiments and   *)
(* call bound: an observation or a conclusion leaves an experiment's       *)
(* document only in an update_status write-back, and only if the copy     *)
(* that call read before its await did not hold it.                        *)
(*                                                                         *)
(* The argument: create writes only where no file was; log_observation's  *)
(* append keeps every entry (AppendKeeps); update_status's edit keeps      *)
(* every entry of the copy it edits (EditKeeps).  The edit replaces the   *)
(* first segment holding "**Status:**", so it keeps the entries only if   *)
(* no entry holds that marker.  The inductive invariant LInv says so of    *)
(* every file and of every copy a pending write holds, with TInv for the  *)
(* types.                                                                  *)
(***************************************************************************)
EXTENDS TrackerTypeProofs

(* Every file's entries hold no marker.                                    *)
FilesUnmarked ==
  \A e \in ExpIds : files[e] # NoFile => EntriesUnmarked(files[e])

(* Every copy a pending update_status holds has unmarked entries.         *)
CopiesUnmarked ==
  \A p \in Clients : pc[p] = "write" => EntriesUnmarked(snapshot[p])

LInv == TInv /\ FilesUnmarked /\ CopiesUnmarked

(* The step of EntriesLostOnlyByStaleWrite.                                *)
LostOnlyByStaleWrite ==
  \A e \in ExpIds : files[e] # NoFile =>
    \A x \in EntriesIn(files[e]) \ EntriesIn(files'[e]) :
      \E p \in Clients : /\ pc[p] = "write" /\ pc'[p] = "idle"
                         /\ call[p].exp = e
                         /\ x \notin EntriesIn(snapshot[p])

(* A document whose every entry reappears in another has its entries in   *)
(* it.                                                                     *)
LEMMA EntriesMove ==
  ASSUME NEW d \in Seq(PSeg), NEW r \in Seq(PSeg),
         \A i \in 1 .. Len(d) : IsEntry(d[i]) => \E k \in 1 .. Len(r) : r[k] = d[i]
  PROVE  EntriesIn(d) \subseteq EntriesIn(r)
<1> SUFFICES ASSUME NEW i \in 1 .. Len(d), IsEntry(d[i])
             PROVE  d[i].tag \in EntriesIn(r)
  BY DEF EntriesIn, IsEntry
<1>1. PICK k \in 1 .. Len(r) : r[k] = d[i]
  OBVIOUS
<1>. QED
  BY <1>1 DEF EntriesIn, IsEntry

(* content.insert_str of an unmarked segment keeps every entry.            *)
LEMMA InsertKeeps ==
  ASSUME NEW d \in Seq(PSeg), EntriesUnmarked(d), NEW j \in 0 .. Len(d),
         NEW s \in PSeg, s.marks = {}
  PROVE  /\ EntriesIn(d) \subseteq EntriesIn(InsertAfter(d, j, s))
         /\ EntriesUnmarked(InsertAfter(d, j, s))
<1> DEFINE r == InsertAfter(d, j, s)
<1>1. /\ r \in Seq(PSeg) /\ Len(r) = Len(d) + 1
      /\ \A k \in 1 .. Len(d) + 1 :
           r[k] = IF k <= j THEN d[k] ELSE IF k = j + 1 THEN s ELSE d[k - 1]
  <2>1. \A jj \in 0 .. Len(d), ss \in PSeg :
          /\ InsertAfter(d, jj, ss) \in Seq(PSeg)
          /\ Len(InsertAfter(d, jj, ss)) = Len(d) + 1
          /\ \A k \in 1 .. Len(d) + 1 :
               InsertAfter(d, jj, ss)[k] =
                 IF k <= jj THEN d[k] ELSE IF k = jj + 1 THEN ss ELSE d[k - 1]
    BY InsertAfterProps
  <2>. QED
    BY <2>1
<1>2. \A i \in 1 .. Len(d) : \E k \in 1 .. Len(r) : r[k] = d[i]
  <2> SUFFICES ASSUME NEW i \in 1 .. Len(d)
               PROVE  \E k \in 1 .. Len(r) : r[k] = d[i]
    OBVIOUS
  <2>1. CASE i <= j
    BY <1>1, <2>1
  <2>2. CASE i > j
    <3>1. i + 1 \in 1 .. Len(r) /\ r[i + 1] = d[i]
      BY <1>1, <2>2
    <3>. QED
      BY <3>1
  <2>. QED
    BY <2>1, <2>2
<1>3. \A k \in 1 .. Len(r) : r[k] = s \/ \E i \in 1 .. Len(d) : r[k] = d[i]
  <2> SUFFICES ASSUME NEW k \in 1 .. Len(r)
               PROVE  r[k] = s \/ \E i \in 1 .. Len(d) : r[k] = d[i]
    OBVIOUS
  <2>1. CASE k <= j
    BY <1>1, <2>1
  <2>2. CASE k = j + 1
    BY <1>1, <2>2
  <2>3. CASE k > j + 1
    <3>1. k - 1 \in 1 .. Len(d) /\ r[k] = d[k - 1]
      BY <1>1, <2>3
    <3>. QED
      BY <3>1
  <2>. QED
    BY <2>1, <2>2, <2>3
<1>4. EntriesIn(d) \subseteq EntriesIn(r)
  BY <1>1, <1>2, EntriesMove
<1>5. EntriesUnmarked(r)
  BY <1>3 DEF EntriesUnmarked
<1>. QED
  BY <1>4, <1>5

(* update_status's edit keeps every entry of the copy, and adds only an   *)
(* unmarked one.                                                           *)
LEMMA EditKeeps ==
  ASSUME NEW d \in Seq(PSeg), EntriesUnmarked(d), NEW st \in Statuses,
         NEW stMarks \in SUBSET Markers, NEW c \in TagVals
  PROVE  /\ EntriesIn(d) \subseteq EntriesIn(Edit(d, st, stMarks, c))
         /\ EntriesUnmarked(Edit(d, st, stMarks, c))
<1> DEFINE s1 == SetStatus(d, st, stMarks)
           j == FirstIndex(s1, "R")
           new == Seg("conclusion", {}, c)
<1>1. /\ s1 \in Seq(PSeg) /\ Len(s1) = Len(d)
      /\ \A k \in 1 .. Len(d) : IsEntry(s1[k]) \/ IsEntry(d[k]) => s1[k] = d[k]
  BY SetStatusEntries
<1>2. EntriesIn(d) \subseteq EntriesIn(s1) /\ EntriesUnmarked(s1)
  <2>1. EntriesUnmarked(s1)
    BY <1>1, SameEntries
  <2>2. EntriesIn(d) \subseteq EntriesIn(s1)
    BY <1>1, EntriesMove
  <2>. QED
    BY <2>1, <2>2
<1>3. Edit(d, st, stMarks, c) = AddConclusion(s1, c)
  BY DEF Edit
<1>4. CASE c = NoConclusion \/ j = 0
  BY <1>2, <1>3, <1>4 DEF AddConclusion
<1>5. CASE c # NoConclusion /\ j # 0
  <2>1. j \in 0 .. Len(s1)
    BY <1>1, FirstIndexFound
  <2>2. new \in PSeg /\ new.marks = {}
    BY DEF Seg, PSeg, Srcs
  <2>3. AddConclusion(s1, c) = InsertAfter(s1, j, new)
    BY <1>5 DEF AddConclusion
  <2>4. /\ EntriesIn(s1) \subseteq EntriesIn(InsertAfter(s1, j, new))
        /\ EntriesUnmarked(InsertAfter(s1, j, new))
    BY <1>1, <1>2, <2>1, <2>2, InsertKeeps
  <2>. QED
    BY <1>2, <1>3, <2>3, <2>4
<1>. QED
  BY <1>4, <1>5

(* log_observation's append keeps every entry and adds an unmarked one.    *)
LEMMA AppendKeeps ==
  ASSUME NEW d \in Seq(PSeg), EntriesUnmarked(d), NEW t \in TagVals
  PROVE  /\ EntriesIn(d) \subseteq EntriesIn(Append(d, Observation(t)))
         /\ EntriesUnmarked(Append(d, Observation(t)))
<1> DEFINE r == Append(d, Observation(t))
<1>1. Observation(t) \in PSeg /\ Observation(t).marks = {}
  BY DEF Observation, Seg, PSeg, Srcs
<1>2. /\ r \in Seq(PSeg) /\ Len(r) = Len(d) + 1
      /\ \A i \in 1 .. Len(d) : r[i] = d[i]
      /\ r[Len(d) + 1] = Observation(t)
  BY <1>1, AppendProperties
<1>3. \A i \in 1 .. Len(d) : \E k \in 1 .. Len(r) : r[k] = d[i]
  <2> SUFFICES ASSUME NEW i \in 1 .. Len(d) PROVE i \in 1 .. Len(r) /\ r[i] = d[i]
    OBVIOUS
  <2>. QED
    BY <1>2
<1>5. EntriesIn(d) \subseteq EntriesIn(r)
  BY <1>2, <1>3, EntriesMove
<1>4. EntriesUnmarked(r)
  BY <1>1, <1>2 DEF EntriesUnmarked
<1>. QED
  BY <1>4, <1>5

(* Each step keeps the entries of the files and of the pending copies     *)
(* unmarked, and loses an entry only in a write-back of a copy without it. *)
LEMMA StepLost ==
  ASSUME MarksTyped, NoFileNotDoc, LInv, [Next]_vars
  PROVE  /\ FilesUnmarked' /\ CopiesUnmarked'
         /\ LostOnlyByStaleWrite
<1> USE DEF LInv
<1>0. Tags \cup {NoConclusion} \subseteq TagVals
  BY DEF Tags, TagVals
<1>1. ASSUME NEW p \in Clients, CreateExperiment(p)
      PROVE  FilesUnmarked' /\ CopiesUnmarked' /\ LostOnlyByStaleWrite
  <2>1. PICK e \in ExpIds, tm \in UserMarks, hm \in UserMarks :
          /\ files[e] = NoFile
          /\ files' = [files EXCEPT ![e] = Template(tm, hm)]
    BY <1>1 DEF CreateExperiment
  <2>2. EntriesUnmarked(Template(tm, hm))
    BY TemplateEntries DEF EntryDocT
  <2>3. FilesUnmarked'
    BY <2>1, <2>2 DEF FilesUnmarked, TInv
  <2>4. CopiesUnmarked'
    BY <1>1 DEF CreateExperiment, CopiesUnmarked
  <2>5. LostOnlyByStaleWrite
    BY <2>1 DEF LostOnlyByStaleWrite, TInv
  <2>. QED
    BY <2>3, <2>4, <2>5
<1>2. ASSUME NEW p \in Clients, LogObservationAppend(p)
      PROVE  FilesUnmarked' /\ CopiesUnmarked' /\ LostOnlyByStaleWrite
  <2> DEFINE x == call[p].exp
             t == call[p].tag
  <2>1. pc[p] = "append" /\ files' = [files EXCEPT ![x] = Append(files[x], Observation(t))]
    BY <1>2 DEF LogObservationAppend
  <2>2. x \in ExpIds /\ t \in Tags /\ files[x] \in Seq(Segs)
    BY <2>1 DEF TInv
  <2>3. files[x] # NoFile
    <3>1. files[x] \in Seq(PSeg)
      BY <2>2, SegsDoc
    <3>. QED BY <3>1 DEF NoFileNotDoc
  <2>4. files[x] \in Seq(PSeg) /\ EntriesUnmarked(files[x]) /\ t \in TagVals
    BY <1>0, <2>2, <2>3, SegsDoc DEF FilesUnmarked
  <2>5. /\ EntriesIn(files[x]) \subseteq EntriesIn(Append(files[x], Observation(t)))
        /\ EntriesUnmarked(Append(files[x], Observation(t)))
    BY <2>4, AppendKeeps
  <2>6. FilesUnmarked'
    BY <2>1, <2>2, <2>5 DEF FilesUnmarked, TInv
  <2>7. CopiesUnmarked'
    BY <1>2, <2>1 DEF LogObservationAppend, CopiesUnmarked, TInv
  <2>8. LostOnlyByStaleWrite
    BY <2>1, <2>2, <2>5 DEF LostOnlyByStaleWrite, TInv
  <2>. QED
    BY <2>6, <2>7, <2>8
<1>3. ASSUME NEW p \in Clients, UpdateStatusRead(p)
      PROVE  FilesUnmarked' /\ CopiesUnmarked' /\ LostOnlyByStaleWrite
  <2>1. files' = files
    BY <1>3 DEF UpdateStatusRead
  <2>2. PICK e \in ExpIds :
          \/ UNCHANGED <<pc, snapshot>>
          \/ /\ files[e] # NoFile
             /\ pc' = [pc EXCEPT ![p] = "write"]
             /\ snapshot' = [snapshot EXCEPT ![p] = files[e]]
    BY <1>3 DEF UpdateStatusRead
  <2>3. CopiesUnmarked'
    BY <2>2 DEF CopiesUnmarked, FilesUnmarked, TInv
  <2>4. FilesUnmarked' /\ LostOnlyByStaleWrite
    BY <2>1 DEF FilesUnmarked, LostOnlyByStaleWrite
  <2>. QED
    BY <2>3, <2>4
<1>4. ASSUME NEW p \in Clients, UpdateStatusWrite(p)
      PROVE  FilesUnmarked' /\ CopiesUnmarked' /\ LostOnlyByStaleWrite
  <2> DEFINE e == call[p].exp
             st == call[p].st
             c == call[p].tag
  <2>1. /\ pc[p] = "write" /\ pc'[p] = "idle"
        /\ files' = [files EXCEPT ![e] = Edit(snapshot[p], st, StatusMarks[st], c)]
        /\ pc' = [pc EXCEPT ![p] = "idle"]
        /\ snapshot' = [snapshot EXCEPT ![p] = <<>>]
    BY <1>4 DEF UpdateStatusWrite, TInv
  <2>2. /\ e \in ExpIds /\ st \in Statuses /\ c \in Tags \cup {NoConclusion}
        /\ snapshot[p] \in Seq(Segs)
    BY <2>1 DEF TInv, CallType
  <2>3. /\ snapshot[p] \in Seq(PSeg) /\ EntriesUnmarked(snapshot[p]) /\ c \in TagVals
        /\ StatusMarks[st] \in SUBSET Markers
    BY <1>0, <2>1, <2>2, SegsDoc DEF CopiesUnmarked, MarksTyped
  <2>4. /\ EntriesIn(snapshot[p]) \subseteq EntriesIn(Edit(snapshot[p], st, StatusMarks[st], c))
        /\ EntriesUnmarked(Edit(snapshot[p], st, StatusMarks[st], c))
    BY <2>2, <2>3, EditKeeps
  <2>5. FilesUnmarked'
    BY <2>1, <2>2, <2>4 DEF FilesUnmarked, TInv
  <2>6. CopiesUnmarked'
    BY <2>1 DEF CopiesUnmarked, TInv
  <2>7. LostOnlyByStaleWrite
    <3> SUFFICES ASSUME NEW f \in ExpIds, files[f] # NoFile,
                        NEW x \in EntriesIn(files[f]) \ EntriesIn(files'[f])
                 PROVE  \E q \in Clients : /\ pc[q] = "write" /\ pc'[q] = "idle"
                                           /\ call[q].exp = f
                                           /\ x \notin EntriesIn(snapshot[q])
      BY DEF LostOnlyByStaleWrite
    <3>1. f = e
      BY <2>1 DEF TInv
    <3>2. x \notin EntriesIn(snapshot[p])
      BY <3>1, <2>1, <2>2, <2>4 DEF TInv
    <3>. QED
      BY <3>1, <3>2, <2>1
  <2>. QED
    BY <2>5, <2>6, <2>7
<1>5. ASSUME NEW p \in Clients, LogObservationRead(p) \/ GetOrList(p)
      PROVE  FilesUnmarked' /\ CopiesUnmarked' /\ LostOnlyByStaleWrite
  <2>1. files' = files /\ snapshot' = snapshot
    BY <1>5 DEF LogObservationRead, GetOrList
  <2>2. \A q \in Clients : pc'[q] = "write" => pc[q] = "write"
    BY <1>5 DEF LogObservationRead, GetOrList, Start, TInv
  <2>. QED
    BY <2>1, <2>2 DEF FilesUnmarked, CopiesUnmarked, LostOnlyByStaleWrite
<1>6. ASSUME UNCHANGED vars
      PROVE  FilesUnmarked' /\ CopiesUnmarked' /\ LostOnlyByStaleWrite
  BY <1>6 DEF vars, FilesUnmarked, CopiesUnmarked, LostOnlyByStaleWrite
<1>. QED
  BY <1>1, <1>2, <1>3, <1>4, <1>5, <1>6 DEF Next

(* For any clients, experiments and call bound, an observation or a       *)
(* conclusion leaves an experiment's document only when an update_status  *)
(* call writes back its edit of a copy, read before its await, that did   *)
(* not hold the entry: the lost update is the write-back's, and nothing   *)
(* else of create_experiment, log_observation or update_status drops an   *)
(* entry.                                                                  *)
THEOREM EntriesLostOnlyInStaleWrite ==
  ASSUME MarksTyped, NoFileNotDoc
  PROVE  Spec => EntriesLostOnlyByStaleWrite
<1>1. Init => LInv
  <2> SUFFICES ASSUME Init PROVE LInv
    OBVIOUS
  <2>. QED
    BY InitTInv DEF Init, LInv, FilesUnmarked, CopiesUnmarked
<1>2. LInv /\ [Next]_vars => LInv'
  BY StepTInv, StepLost DEF LInv
<1>3. LInv /\ [Next]_vars => [LostOnlyByStaleWrite]_vars
  BY StepLost
<1>. QED
  BY <1>1, <1>2, <1>3, PTL DEF Spec, EntriesLostOnlyByStaleWrite, LostOnlyByStaleWrite
==============================================================================
