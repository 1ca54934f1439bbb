-------------------------- MODULE TrackerEntryProofs --------------------------
(***************************************************************************)
(* Proof that no observation or conclusion is ever in a document twice    *)
(* (NoDuplicateEntries), for any number of clients, experiments and       *)
(* calls, even though update_status writes back a copy it read before     *)
(* other calls appended to or rewrote the file.                            *)
(*                                                                         *)
(* An entry carries the tag of the call that wrote it, <<client, n>> for  *)
(* the client's n-th call.  The property is not inductive: a write-back   *)
(* must not bring in a conclusion whose tag the file already holds.  The  *)
(* strengthening EntryInv says that                                        *)
(*   - in every file and every copy about to be written back, entries     *)
(*     hold no marker (so SetStatus never rewrites one), their tags are   *)
(*     distinct, and every tag was issued: its call was started,          *)
(*   - a call under way writes its own tag, Cur(p), and no file and no    *)
(*     copy holds that tag yet.                                            *)
(***************************************************************************)
EXTENDS TrackerStatusProofs

IsEntry(s) == s.src \in {"observation", "conclusion"}

EntriesUnmarked(d) == \A i \in 1 .. Len(d) : IsEntry(d[i]) => d[i].marks = {}

NoDupIn(d) ==
  \A i, j \in 1 .. Len(d) :
    IsEntry(d[i]) /\ IsEntry(d[j]) /\ d[i].tag = d[j].tag => i = j

TagsIn(d, T) == \A i \in 1 .. Len(d) : IsEntry(d[i]) => d[i].tag \in T

Fresh(d, t) == \A i \in 1 .. Len(d) : IsEntry(d[i]) => d[i].tag # t

EntryDocT(d, T) == EntriesUnmarked(d) /\ NoDupIn(d) /\ TagsIn(d, T)

-----------------------------------------------------------------------------
(* Lemmas about the document operators.                                    *)

(* content.insert_str after segment j: where each segment of the result   *)
(* comes from.                                                             *)
LEMMA InsertIndex ==
  ASSUME NEW d \in Seq(PSeg), NEW j \in 0 .. Len(d), NEW s \in PSeg
  PROVE  /\ InsertAfter(d, j, s) \in Seq(PSeg)
         /\ Len(InsertAfter(d, j, s)) = Len(d) + 1
         /\ InsertAfter(d, j, s)[j + 1] = s
         /\ \A k \in 1 .. Len(d) + 1 : k # j + 1 =>
              /\ (IF k <= j THEN k ELSE k - 1) \in 1 .. Len(d)
              /\ InsertAfter(d, j, s)[k] = d[IF k <= j THEN k ELSE k - 1]
<1>1. \A jj \in 0 .. Len(d), ss \in PSeg :
        /\ InsertAfter(d, jj, ss) \in Seq(PSeg)
        /\ Len(InsertAfter(d, jj, ss)) = Len(d) + 1
        /\ \A k \in 1 .. Len(d) + 1 :
             InsertAfter(d, jj, ss)[k] =
               IF k <= jj THEN d[k] ELSE IF k = jj + 1 THEN ss ELSE d[k - 1]
  BY InsertAfterProps
<1>2. /\ InsertAfter(d, j, s) \in Seq(PSeg)
      /\ Len(InsertAfter(d, j, s)) = Len(d) + 1
      /\ \A k \in 1 .. Len(d) + 1 :
           InsertAfter(d, j, s)[k] =
             IF k <= j THEN d[k] ELSE IF k = j + 1 THEN s ELSE d[k - 1]
  BY <1>1
<1>. QED
  BY <1>2

(* Two documents with the same entries at the same places agree on every  *)
(* property of the entries.                                                *)
LEMMA SameEntries ==
  ASSUME NEW d \in Seq(PSeg), NEW r \in Seq(PSeg), Len(r) = Len(d),
         \A k \in 1 .. Len(d) : IsEntry(r[k]) \/ IsEntry(d[k]) => r[k] = d[k]
  PROVE  /\ EntriesUnmarked(d) => EntriesUnmarked(r)
         /\ NoDupIn(d) => NoDupIn(r)
         /\ \A T : TagsIn(d, T) => TagsIn(r, T)
         /\ \A u : Fresh(d, u) => Fresh(r, u)
BY DEF EntriesUnmarked, NoDupIn, TagsIn, Fresh

(* An insert keeps the entry properties, given what the new segment is.   *)
LEMMA InsertEntries ==
  ASSUME NEW d \in Seq(PSeg), NEW j \in 0 .. Len(d), NEW s \in PSeg, NEW T,
         EntryDocT(d, T),
         IsEntry(s) => s.marks = {} /\ s.tag \in T /\ Fresh(d, s.tag)
  PROVE  /\ EntryDocT(InsertAfter(d, j, s), T)
         /\ \A u : Fresh(d, u) /\ (IsEntry(s) => s.tag # u) =>
                   Fresh(InsertAfter(d, j, s), u)
<1> DEFINE r == InsertAfter(d, j, s)
           pos(k) == IF k <= j THEN k ELSE k - 1
<1>1. /\ r \in Seq(PSeg)
      /\ Len(r) = Len(d) + 1
      /\ r[j + 1] = s
      /\ \A k \in 1 .. Len(r) : k # j + 1 => pos(k) \in 1 .. Len(d) /\ r[k] = d[pos(k)]
      /\ \A k1, k2 \in 1 .. Len(r) :
           k1 # j + 1 /\ k2 # j + 1 /\ pos(k1) = pos(k2) => k1 = k2
  <2>1. /\ r \in Seq(PSeg)
        /\ Len(r) = Len(d) + 1
        /\ r[j + 1] = s
        /\ \A k \in 1 .. Len(d) + 1 : k # j + 1 =>
             pos(k) \in 1 .. Len(d) /\ r[k] = d[pos(k)]
    BY InsertIndex
  <2>. QED
    BY <2>1
<1>2. EntriesUnmarked(r)
  BY <1>1 DEF EntryDocT, EntriesUnmarked
<1>3. TagsIn(r, T)
  BY <1>1 DEF EntryDocT, TagsIn
<1>4. NoDupIn(r)
  <2> SUFFICES ASSUME NEW k1 \in 1 .. Len(r), NEW k2 \in 1 .. Len(r),
                      IsEntry(r[k1]), IsEntry(r[k2]), r[k1].tag = r[k2].tag
               PROVE  k1 = k2
    BY DEF NoDupIn
  <2>1. CASE k1 = j + 1 /\ k2 = j + 1
    BY <2>1
  <2>2. CASE k1 = j + 1 /\ k2 # j + 1
    BY <1>1, <2>2 DEF Fresh
  <2>3. CASE k1 # j + 1 /\ k2 = j + 1
    BY <1>1, <2>3 DEF Fresh
  <2>4. CASE k1 # j + 1 /\ k2 # j + 1
    <3>0. /\ pos(k1) \in 1 .. Len(d) /\ r[k1] = d[pos(k1)]
          /\ pos(k2) \in 1 .. Len(d) /\ r[k2] = d[pos(k2)]
      BY <1>1, <2>4
    <3>1. pos(k1) = pos(k2)
      BY <3>0 DEF EntryDocT, NoDupIn
    <3>. QED
      BY <1>1, <2>4, <3>1
  <2>. QED
    BY <2>1, <2>2, <2>3, <2>4
<1>5. \A u : Fresh(d, u) /\ (IsEntry(s) => s.tag # u) => Fresh(r, u)
  BY <1>1 DEF Fresh
<1>. QED
  BY <1>2, <1>3, <1>4, <1>5 DEF EntryDocT

(* The replace of the first "**Status:**" line touches no entry, since    *)
(* entries hold no marker.                                                 *)
LEMMA SetStatusEntries ==
  ASSUME NEW d \in Seq(PSeg), EntriesUnmarked(d), NEW st \in Statuses,
         NEW stMarks \in SUBSET Markers
  PROVE  /\ SetStatus(d, st, stMarks) \in Seq(PSeg)
         /\ Len(SetStatus(d, st, stMarks)) = Len(d)
         /\ \A k \in 1 .. Len(d) :
              IsEntry(SetStatus(d, st, stMarks)[k]) \/ IsEntry(d[k]) =>
                SetStatus(d, st, stMarks)[k] = d[k]
<1> DEFINE i == FirstIndex(d, "S")
           new == Seg("status", {"S"} \cup stMarks, st)
<1>1. CASE i = 0
  BY <1>1 DEF SetStatus
<1>2. CASE i # 0
  <2>1. i \in 1 .. Len(d) /\ "S" \in d[i].marks
    BY <1>2, FirstIndexFound
  <2>2. ~IsEntry(d[i])
    BY <2>1 DEF EntriesUnmarked
  <2>3. new \in PSeg /\ ~IsEntry(new)
    BY DEF Seg, PSeg, Srcs, TagVals, Markers, IsEntry
  <2>4. SetStatus(d, st, stMarks) = [d EXCEPT ![i] = new]
    BY <1>2 DEF SetStatus
  <2>5. /\ [d EXCEPT ![i] = new] \in Seq(PSeg)
        /\ Len([d EXCEPT ![i] = new]) = Len(d)
        /\ \A k \in 1 .. Len(d) : [d EXCEPT ![i] = new][k] = IF k = i THEN new ELSE d[k]
    BY <2>1, <2>3, ExceptSeq
  <2>. QED
    BY <2>2, <2>3, <2>4, <2>5
<1>. QED
  BY <1>1, <1>2

(* update_status's whole edit of a copy: its entries, and the conclusion  *)
(* if one is given, fresh in the copy.                                     *)
LEMMA EditEntries ==
  ASSUME NEW d \in Seq(PSeg), NEW st \in Statuses, NEW stMarks \in SUBSET Markers,
         NEW c \in TagVals, NEW T, EntryDocT(d, T),
         c # NoConclusion => c \in T /\ Fresh(d, c)
  PROVE  /\ EntryDocT(Edit(d, st, stMarks, c), T)
         /\ \A u : Fresh(d, u) /\ (c # NoConclusion => c # u) =>
                   Fresh(Edit(d, st, stMarks, c), u)
<1> DEFINE s1 == SetStatus(d, st, stMarks)
           j == FirstIndex(s1, "R")
           new == Seg("conclusion", {}, c)
<1>1. /\ s1 \in Seq(PSeg) /\ Len(s1) = Len(d)
      /\ \A k \in 1 .. Len(d) : IsEntry(s1[k]) \/ IsEntry(d[k]) => s1[k] = d[k]
  BY SetStatusEntries DEF EntryDocT
<1>2. /\ EntriesUnmarked(d) => EntriesUnmarked(s1)
      /\ NoDupIn(d) => NoDupIn(s1)
      /\ \A TT : TagsIn(d, TT) => TagsIn(s1, TT)
      /\ \A u : Fresh(d, u) => Fresh(s1, u)
  BY <1>1, SameEntries
<1>3. EntryDocT(s1, T) /\ (c # NoConclusion => Fresh(s1, c))
  BY <1>2 DEF EntryDocT
<1>4. Edit(d, st, stMarks, c) = AddConclusion(s1, c)
  BY DEF Edit
<1>5. CASE c = NoConclusion \/ j = 0
  <2>1. AddConclusion(s1, c) = s1
    BY <1>5 DEF AddConclusion
  <2>. QED
    BY <1>2, <1>3, <1>4, <2>1
<1>6. CASE c # NoConclusion /\ j # 0
  <2>1. j \in 0 .. Len(s1)
    BY <1>1, <1>6, FirstIndexFound
  <2>2. new \in PSeg /\ IsEntry(new) /\ new.marks = {} /\ new.tag = c
    BY DEF Seg, PSeg, Srcs, IsEntry
  <2>3. AddConclusion(s1, c) = InsertAfter(s1, j, new)
    BY <1>6 DEF AddConclusion
  <2>4. /\ EntryDocT(InsertAfter(s1, j, new), T)
        /\ \A u : Fresh(s1, u) /\ (IsEntry(new) => new.tag # u) =>
                  Fresh(InsertAfter(s1, j, new), u)
    BY <1>1, <1>3, <1>6, <2>1, <2>2, InsertEntries
  <2>. QED
    BY <1>2, <1>4, <1>6, <2>2, <2>3, <2>4
<1>. QED
  BY <1>5, <1>6

(* log_observation's append: content.push_str at the end.                  *)
LEMMA AppendIsInsert ==
  ASSUME NEW d \in Seq(PSeg), NEW s \in PSeg
  PROVE  Append(d, s) = InsertAfter(d, Len(d), s)
<1>1. SubSeq(d, 1, Len(d)) = d /\ SubSeq(d, Len(d) + 1, Len(d)) = <<>>
  OBVIOUS
<1>. QED
  BY <1>1 DEF InsertAfter

(* log_observation's append of an issued tag the file does not hold.       *)
LEMMA AppendEntries ==
  ASSUME NEW d \in Seq(PSeg), NEW t \in TagVals, NEW T, EntryDocT(d, T),
         t \in T, Fresh(d, t)
  PROVE  /\ Append(d, Observation(t)) \in Seq(PSeg)
         /\ EntryDocT(Append(d, Observation(t)), T)
         /\ \A u : Fresh(d, u) /\ t # u => Fresh(Append(d, Observation(t)), u)
<1>1. Observation(t) \in PSeg /\ IsEntry(Observation(t))
      /\ Observation(t).marks = {} /\ Observation(t).tag = t
  BY DEF Observation, Seg, PSeg, Srcs, IsEntry
<1>2. Append(d, Observation(t)) = InsertAfter(d, Len(d), Observation(t))
  BY <1>1, AppendIsInsert
<1>3. /\ EntryDocT(InsertAfter(d, Len(d), Observation(t)), T)
      /\ \A u : Fresh(d, u) /\ (IsEntry(Observation(t)) => Observation(t).tag # u) =>
                Fresh(InsertAfter(d, Len(d), Observation(t)), u)
  BY <1>1, InsertEntries
<1>4. Append(d, Observation(t)) \in Seq(PSeg)
  BY <1>1, AppendProperties
<1>. QED
  BY <1>1, <1>2, <1>3, <1>4

(* create_experiment's template holds no entry.                            *)
LEMMA TemplateEntries ==
  ASSUME NEW tm, NEW hm
  PROVE  /\ \A T : EntryDocT(Template(tm, hm), T)
         /\ \A u : Fresh(Template(tm, hm), u)
BY DEF Template, Seg, IsEntry, EntryDocT, EntriesUnmarked, NoDupIn, TagsIn, Fresh

-----------------------------------------------------------------------------
(* The inductive invariant.                                                *)

(* The tags of the calls started so far.                                   *)
Issued == {t \in Clients \X Nat : t[2] < calls[t[1]]}

(* The tag of client p's current call: Start numbers it calls[p] and then *)
(* counts it.                                                              *)
Cur(p) == <<p, calls[p] - 1>>

FilesEntries == \A e \in ExpIds : files[e] # NoFile => EntryDocT(files[e], Issued)

CopiesEntries == \A p \in Clients : pc[p] = "write" => EntryDocT(snapshot[p], Issued)

CallsStarted == \A p \in Clients : pc[p] # "idle" => calls[p] # 0

CallTags ==
  /\ \A p \in Clients : pc[p] = "append" => call[p].tag = Cur(p)
  /\ \A p \in Clients : pc[p] = "write" => call[p].tag \in {NoConclusion, Cur(p)}

CurFresh ==
  \A p \in Clients : pc[p] # "idle" =>
    /\ \A e \in ExpIds : files[e] # NoFile => Fresh(files[e], Cur(p))
    /\ \A q \in Clients : pc[q] = "write" => Fresh(snapshot[q], Cur(p))

EntryInv == FilesEntries /\ CopiesEntries /\ CallsStarted /\ CallTags /\ CurFresh

EInv == IInv /\ EntryInv

(* A document's entries keep their properties as more calls start.         *)
LEMMA EntryDocGrows ==
  ASSUME NEW d, NEW T, NEW U, T \subseteq U, EntryDocT(d, T)
  PROVE  EntryDocT(d, U)
BY DEF EntryDocT, TagsIn

(* A document whose tags are all in T holds no tag outside T.              *)
LEMMA FreshOutside ==
  ASSUME NEW d, NEW T, EntryDocT(d, T), NEW t, t \notin T
  PROVE  Fresh(d, t)
BY DEF EntryDocT, TagsIn, Fresh

(* Starting a call: the issued tags grow, the other clients' current tags *)
(* stay, and the new current tag is one no document holds yet.             *)
LEMMA StartTags ==
  ASSUME ProofTypes, NEW p \in Clients, calls' = [calls EXCEPT ![p] = @ + 1]
  PROVE  /\ Issued \subseteq Issued'
         /\ \A q \in Clients \ {p} : Cur(q)' = Cur(q)
         /\ Cur(p)' = <<p, calls[p]>>
         /\ Cur(p)' \notin Issued
         /\ calls'[p] # 0
BY DEF ProofTypes, Issued, Cur

(* create_experiment writes a template, which holds no entry.              *)
LEMMA CreateEntryInv ==
  ASSUME IInv, EntryInv, NEW p \in Clients, CreateExperiment(p)
  PROVE  EntryInv'
<1> USE DEF EntryInv
<1>1. PICK e \in ExpIds, tm \in UserMarks, hm \in UserMarks :
        /\ files[e] = NoFile
        /\ files' = [files EXCEPT ![e] = Template(tm, hm)]
  BY DEF CreateExperiment
<1>2. /\ pc' = pc /\ call' = call /\ snapshot' = snapshot /\ pc[p] = "idle"
      /\ calls' = [calls EXCEPT ![p] = @ + 1]
  BY DEF CreateExperiment, Start
<1>3. /\ Issued \subseteq Issued'
      /\ \A q \in Clients \ {p} : Cur(q)' = Cur(q)
  BY <1>2, StartTags DEF IInv
<1>4. ProofTypes
  BY DEF IInv
<1>5. FilesEntries'
  <2> SUFFICES ASSUME NEW e2 \in ExpIds, files'[e2] # NoFile
               PROVE  EntryDocT(files'[e2], Issued')
    BY DEF FilesEntries
  <2>1. CASE e2 = e
    BY <1>1, <1>4, <2>1, TemplateEntries DEF ProofTypes
  <2>2. CASE e2 # e
    BY <1>1, <1>3, <2>2, EntryDocGrows DEF FilesEntries
  <2>. QED
    BY <2>1, <2>2
<1>6. CopiesEntries'
  BY <1>2, <1>3, EntryDocGrows DEF CopiesEntries
<1>7. CallsStarted' /\ CallTags'
  BY <1>2, <1>3, <1>4 DEF CallsStarted, CallTags, ProofTypes
<1>8. CurFresh'
  <2> SUFFICES ASSUME NEW q \in Clients, pc'[q] # "idle"
               PROVE  /\ \A e2 \in ExpIds : files'[e2] # NoFile => Fresh(files'[e2], Cur(q)')
                      /\ \A r \in Clients : pc'[r] = "write" => Fresh(snapshot'[r], Cur(q)')
    BY DEF CurFresh
  <2>1. q # p /\ Cur(q)' = Cur(q) /\ pc[q] # "idle"
    BY <1>2, <1>3
  <2>2. \A e2 \in ExpIds : files'[e2] # NoFile => Fresh(files'[e2], Cur(q))
    <3> SUFFICES ASSUME NEW e2 \in ExpIds, files'[e2] # NoFile
                 PROVE  Fresh(files'[e2], Cur(q))
      OBVIOUS
    <3>1. CASE e2 = e
      BY <1>1, <1>4, <3>1, TemplateEntries DEF ProofTypes
    <3>2. CASE e2 # e
      BY <1>1, <2>1, <3>2 DEF CurFresh
    <3>. QED
      BY <3>1, <3>2
  <2>3. \A r \in Clients : pc'[r] = "write" => Fresh(snapshot'[r], Cur(q))
    BY <1>2, <2>1 DEF CurFresh
  <2>. QED
    BY <2>1, <2>2, <2>3
<1>. QED
  BY <1>5, <1>6, <1>7, <1>8 DEF EntryInv

(* get_experiment and list_experiments only count a call.                  *)
LEMMA GetOrListEntryInv ==
  ASSUME IInv, EntryInv, NEW p \in Clients, GetOrList(p)
  PROVE  EntryInv'
<1> USE DEF EntryInv
<1>1. /\ files' = files /\ pc' = pc /\ call' = call /\ snapshot' = snapshot
      /\ pc[p] = "idle" /\ calls' = [calls EXCEPT ![p] = @ + 1]
  BY DEF GetOrList, Start
<1>2. /\ Issued \subseteq Issued'
      /\ \A q \in Clients \ {p} : Cur(q)' = Cur(q)
  BY <1>1, StartTags DEF IInv
<1>3. ProofTypes
  BY DEF IInv
<1>4. FilesEntries' /\ CopiesEntries'
  BY <1>1, <1>2, EntryDocGrows DEF FilesEntries, CopiesEntries
<1>5. CallsStarted' /\ CallTags'
  BY <1>1, <1>2, <1>3 DEF CallsStarted, CallTags, ProofTypes
<1>6. CurFresh'
  <2> SUFFICES ASSUME NEW q \in Clients, pc'[q] # "idle"
               PROVE  /\ \A e2 \in ExpIds : files'[e2] # NoFile => Fresh(files'[e2], Cur(q)')
                      /\ \A r \in Clients : pc'[r] = "write" => Fresh(snapshot'[r], Cur(q)')
    BY DEF CurFresh
  <2>1. q # p /\ Cur(q)' = Cur(q) /\ pc[q] # "idle"
    BY <1>1, <1>2
  <2>2. \A e2 \in ExpIds : files'[e2] # NoFile => Fresh(files'[e2], Cur(q))
    BY <1>1, <2>1 DEF CurFresh
  <2>3. \A r \in Clients : pc'[r] = "write" => Fresh(snapshot'[r], Cur(q))
    BY <1>1, <2>1 DEF CurFresh
  <2>. QED
    BY <2>1, <2>2, <2>3
<1>. QED
  BY <1>4, <1>5, <1>6 DEF EntryInv

(* log_observation's read: a call that goes on numbers its entry with a   *)
(* tag no document holds.                                                  *)
LEMMA LogReadEntryInv ==
  ASSUME IInv, EntryInv, NEW p \in Clients, LogObservationRead(p)
  PROVE  EntryInv'
<1> USE DEF EntryInv
<1>1. /\ files' = files /\ snapshot' = snapshot /\ pc[p] = "idle"
      /\ calls' = [calls EXCEPT ![p] = @ + 1]
  BY DEF LogObservationRead, Start
<1>2. /\ Issued \subseteq Issued'
      /\ \A q \in Clients \ {p} : Cur(q)' = Cur(q)
      /\ Cur(p)' = <<p, calls[p]>>
      /\ Cur(p)' \notin Issued
      /\ calls'[p] # 0
  BY <1>1, StartTags DEF IInv
<1>3. ProofTypes
  BY DEF IInv
<1>4. PICK e \in ExpIds :
        \/ files[e] = NoFile /\ pc' = pc /\ call' = call
        \/ /\ pc' = [pc EXCEPT ![p] = "append"]
           /\ call' = [call EXCEPT ![p] = [NoCall EXCEPT !.exp = e,
                                                         !.tag = <<p, calls[p]>>]]
  BY DEF LogObservationRead
<1>5. /\ \A q \in Clients : pc'[q] # "idle" => q = p \/ pc'[q] = pc[q]
      /\ \A q \in Clients : q # p => pc'[q] = pc[q] /\ call'[q] = call[q]
      /\ pc'[p] \in {"idle", "append"}
      /\ pc'[p] = "append" => call'[p].tag = <<p, calls[p]>>
  <2>1. CASE files[e] = NoFile /\ pc' = pc /\ call' = call
    BY <1>1, <2>1
  <2>2. CASE /\ pc' = [pc EXCEPT ![p] = "append"]
             /\ call' = [call EXCEPT ![p] = [NoCall EXCEPT !.exp = e,
                                                           !.tag = <<p, calls[p]>>]]
    BY <1>3, <2>2 DEF ProofTypes, NoCall
  <2>. QED
    BY <1>4, <2>1, <2>2
<1>6. FilesEntries' /\ CopiesEntries'
  BY <1>1, <1>2, <1>5, EntryDocGrows DEF FilesEntries, CopiesEntries
<1>7. CallsStarted'
  BY <1>1, <1>2, <1>5 DEF CallsStarted
<1>8. CallTags'
  BY <1>2, <1>5 DEF CallTags
<1>9. CurFresh'
  <2> SUFFICES ASSUME NEW q \in Clients, pc'[q] # "idle"
               PROVE  /\ \A e2 \in ExpIds : files'[e2] # NoFile => Fresh(files'[e2], Cur(q)')
                      /\ \A r \in Clients : pc'[r] = "write" => Fresh(snapshot'[r], Cur(q)')
    BY DEF CurFresh
  <2>1. CASE q = p
    <3>1. \A e2 \in ExpIds : files'[e2] # NoFile => Fresh(files'[e2], Cur(q)')
      BY <1>1, <1>2, <2>1, FreshOutside DEF FilesEntries
    <3>2. \A r \in Clients : pc'[r] = "write" => Fresh(snapshot'[r], Cur(q)')
      BY <1>1, <1>2, <1>5, <2>1, FreshOutside DEF CopiesEntries
    <3>. QED
      BY <3>1, <3>2
  <2>2. CASE q # p
    <3>1. Cur(q)' = Cur(q) /\ pc[q] # "idle"
      BY <1>2, <1>5, <2>2
    <3>2. \A e2 \in ExpIds : files'[e2] # NoFile => Fresh(files'[e2], Cur(q))
      BY <1>1, <3>1 DEF CurFresh
    <3>3. \A r \in Clients : pc'[r] = "write" => Fresh(snapshot'[r], Cur(q))
      BY <1>1, <1>5, <3>1 DEF CurFresh
    <3>. QED
      BY <3>1, <3>2, <3>3
  <2>. QED
    BY <2>1, <2>2
<1>. QED
  BY <1>6, <1>7, <1>8, <1>9 DEF EntryInv

(* update_status's read: the copy it takes holds issued, distinct tags,   *)
(* and the conclusion it may add carries a tag no document holds.          *)
LEMMA UpdateReadEntryInv ==
  ASSUME IInv, EntryInv, NEW p \in Clients, UpdateStatusRead(p)
  PROVE  EntryInv'
<1> USE DEF EntryInv
<1>1. /\ files' = files /\ pc[p] = "idle"
      /\ calls' = [calls EXCEPT ![p] = @ + 1]
  BY DEF UpdateStatusRead, Start
<1>2. /\ Issued \subseteq Issued'
      /\ \A q \in Clients \ {p} : Cur(q)' = Cur(q)
      /\ Cur(p)' = <<p, calls[p]>>
      /\ Cur(p)' \notin Issued
      /\ calls'[p] # 0
  BY <1>1, StartTags DEF IInv
<1>3. ProofTypes
  BY DEF IInv
<1>4. PICK e \in ExpIds, st \in Statuses, c \in {NoConclusion, <<p, calls[p]>>} :
        \/ files[e] = NoFile /\ pc' = pc /\ call' = call /\ snapshot' = snapshot
        \/ /\ files[e] # NoFile
           /\ pc' = [pc EXCEPT ![p] = "write"]
           /\ call' = [call EXCEPT ![p] = [exp |-> e, tag |-> c, st |-> st]]
           /\ snapshot' = [snapshot EXCEPT ![p] = files[e]]
  BY DEF UpdateStatusRead
<1>5. /\ \A q \in Clients : q # p => /\ pc'[q] = pc[q] /\ call'[q] = call[q]
                                     /\ snapshot'[q] = snapshot[q]
      /\ pc'[p] \in {"idle", "write"}
      /\ pc'[p] = "write" =>
           /\ files[e] # NoFile /\ snapshot'[p] = files[e]
           /\ call'[p].tag \in {NoConclusion, <<p, calls[p]>>}
  <2>1. CASE files[e] = NoFile /\ pc' = pc /\ call' = call /\ snapshot' = snapshot
    BY <1>1, <2>1
  <2>2. CASE /\ files[e] # NoFile
             /\ pc' = [pc EXCEPT ![p] = "write"]
             /\ call' = [call EXCEPT ![p] = [exp |-> e, tag |-> c, st |-> st]]
             /\ snapshot' = [snapshot EXCEPT ![p] = files[e]]
    BY <1>3, <2>2 DEF ProofTypes
  <2>. QED
    BY <1>4, <2>1, <2>2
<1>6. FilesEntries'
  BY <1>1, <1>2, EntryDocGrows DEF FilesEntries
<1>7. CopiesEntries'
  BY <1>1, <1>2, <1>5, EntryDocGrows DEF FilesEntries, CopiesEntries
<1>8. CallsStarted'
  BY <1>1, <1>2, <1>3, <1>5 DEF CallsStarted, ProofTypes
<1>10. CallTags'
  <2> SUFFICES ASSUME NEW q \in Clients
               PROVE  /\ pc'[q] = "append" => call'[q].tag = Cur(q)'
                      /\ pc'[q] = "write" => call'[q].tag \in {NoConclusion, Cur(q)'}
    BY DEF CallTags
  <2>1. CASE q = p
    BY <1>2, <1>5, <2>1
  <2>2. CASE q # p
    BY <1>2, <1>5, <2>2 DEF CallTags
  <2>. QED
    BY <2>1, <2>2
<1>9. CurFresh'
  <2> SUFFICES ASSUME NEW q \in Clients, pc'[q] # "idle"
               PROVE  /\ \A e2 \in ExpIds : files'[e2] # NoFile => Fresh(files'[e2], Cur(q)')
                      /\ \A r \in Clients : pc'[r] = "write" => Fresh(snapshot'[r], Cur(q)')
    BY DEF CurFresh
  <2>1. CASE q = p
    <3>1. \A e2 \in ExpIds : files'[e2] # NoFile => Fresh(files'[e2], Cur(q)')
      BY <1>1, <1>2, <2>1, FreshOutside DEF FilesEntries
    <3>2. \A r \in Clients : pc'[r] = "write" => Fresh(snapshot'[r], Cur(q)')
      BY <1>2, <1>5, <2>1, FreshOutside DEF FilesEntries, CopiesEntries
    <3>. QED
      BY <3>1, <3>2
  <2>2. CASE q # p
    <3>1. Cur(q)' = Cur(q) /\ pc[q] # "idle"
      BY <1>2, <1>5, <2>2
    <3>2. \A e2 \in ExpIds : files'[e2] # NoFile => Fresh(files'[e2], Cur(q))
      BY <1>1, <3>1 DEF CurFresh
    <3>3. \A r \in Clients : pc'[r] = "write" => Fresh(snapshot'[r], Cur(q))
      BY <1>5, <3>1 DEF CurFresh
    <3>. QED
      BY <3>1, <3>2, <3>3
  <2>. QED
    BY <2>1, <2>2
<1>. QED
  BY <1>6, <1>7, <1>8, <1>9, <1>10 DEF EntryInv

(* log_observation's append adds the call's own tag, which the file did   *)
(* not hold and no other call under way uses.                              *)
LEMMA AppendEntryInv ==
  ASSUME NoFileNotDoc, IInv, EntryInv, NEW p \in Clients, LogObservationAppend(p)
  PROVE  EntryInv'
<1> USE DEF EntryInv
<1> DEFINE e == call[p].exp
           d == Append(files[e], Observation(call[p].tag))
<1>1. /\ pc[p] = "append" /\ files' = [files EXCEPT ![e] = d]
      /\ pc' = [pc EXCEPT ![p] = "idle"] /\ call' = [call EXCEPT ![p] = NoCall]
      /\ snapshot' = snapshot /\ calls' = calls
  BY DEF LogObservationAppend
<1>2. ProofTypes
  BY DEF IInv
<1>3. /\ e \in ExpIds /\ files[e] \in Seq(PSeg) /\ files[e] # NoFile
      /\ call[p].tag = Cur(p) /\ Cur(p) \in Issued /\ Cur(p) \in TagVals
  <2>1. e \in ExpIds /\ files[e] \in Seq(PSeg)
    BY <1>1 DEF IInv, AppendReady
  <2>2. files[e] # NoFile
    BY <2>1 DEF NoFileNotDoc
  <2>3. calls[p] \in Nat /\ calls[p] # 0
    BY <1>1, <1>2 DEF ProofTypes, CallsStarted
  <2>4. Cur(p) \in Issued /\ Cur(p) \in TagVals
    BY <2>3 DEF Cur, Issued, TagVals
  <2>. QED
    BY <1>1, <2>1, <2>2, <2>4 DEF CallTags
<1>4. EntryDocT(files[e], Issued) /\ Fresh(files[e], Cur(p))
  BY <1>1, <1>3 DEF FilesEntries, CurFresh
<1>5. /\ EntryDocT(d, Issued)
      /\ \A u : Fresh(files[e], u) /\ Cur(p) # u => Fresh(d, u)
  BY <1>3, <1>4, AppendEntries
<1>6. Issued' = Issued /\ \A q \in Clients : Cur(q)' = Cur(q)
  BY <1>1 DEF Issued, Cur
<1>7. \A q \in Clients : q # p => pc'[q] = pc[q] /\ call'[q] = call[q]
  BY <1>1, <1>2 DEF ProofTypes
<1>8. pc'[p] = "idle"
  BY <1>1, <1>2 DEF ProofTypes
<1>9. FilesEntries'
  BY <1>1, <1>2, <1>3, <1>5, <1>6 DEF FilesEntries, ProofTypes
<1>10. CopiesEntries' /\ CallsStarted' /\ CallTags'
  BY <1>1, <1>6, <1>7, <1>8 DEF CopiesEntries, CallsStarted, CallTags
<1>11. CurFresh'
  <2> SUFFICES ASSUME NEW q \in Clients, pc'[q] # "idle"
               PROVE  /\ \A e2 \in ExpIds : files'[e2] # NoFile => Fresh(files'[e2], Cur(q)')
                      /\ \A r \in Clients : pc'[r] = "write" => Fresh(snapshot'[r], Cur(q)')
    BY DEF CurFresh
  <2>1. q # p /\ pc[q] # "idle" /\ Cur(q)' = Cur(q) /\ Cur(p) # Cur(q)
    BY <1>6, <1>7, <1>8 DEF Cur
  <2>2. \A e2 \in ExpIds : files'[e2] # NoFile => Fresh(files'[e2], Cur(q))
    <3> SUFFICES ASSUME NEW e2 \in ExpIds, files'[e2] # NoFile
                 PROVE  Fresh(files'[e2], Cur(q))
      OBVIOUS
    <3>1. CASE e2 = e
      <4>1. Fresh(files[e], Cur(q))
        BY <1>3, <2>1 DEF CurFresh
      <4>. QED
        BY <1>1, <1>2, <1>5, <2>1, <3>1, <4>1 DEF ProofTypes
    <3>2. CASE e2 # e
      BY <1>1, <2>1, <3>2 DEF CurFresh
    <3>. QED
      BY <3>1, <3>2
  <2>3. \A r \in Clients : pc'[r] = "write" => Fresh(snapshot'[r], Cur(q))
    BY <1>1, <1>7, <1>8, <2>1 DEF CurFresh
  <2>. QED
    BY <2>1, <2>2, <2>3
<1>. QED
  BY <1>9, <1>10, <1>11 DEF EntryInv

(* update_status's write-back installs the edited copy: its entries were  *)
(* distinct, and the conclusion it adds carries the call's own tag, which *)
(* the copy did not hold.                                                  *)
LEMMA WriteEntryInv ==
  ASSUME NoResultsMarker, IInv, EntryInv, NEW p \in Clients, UpdateStatusWrite(p)
  PROVE  EntryInv'
<1> USE DEF EntryInv
<1> DEFINE e == call[p].exp
           st == call[p].st
           c == call[p].tag
           d == Edit(snapshot[p], st, StatusMarks[st], c)
<1>1. /\ pc[p] = "write" /\ files' = [files EXCEPT ![e] = d]
      /\ pc' = [pc EXCEPT ![p] = "idle"] /\ call' = [call EXCEPT ![p] = NoCall]
      /\ snapshot' = [snapshot EXCEPT ![p] = <<>>] /\ calls' = calls
  BY DEF UpdateStatusWrite
<1>2. ProofTypes
  BY DEF IInv
<1>3. /\ e \in ExpIds /\ st \in Statuses /\ c \in TagVals
      /\ snapshot[p] \in Seq(PSeg)
      /\ StatusMarks[st] \in SUBSET Markers
  BY <1>1, <1>2 DEF IInv, WriteReady, ProofTypes, CallRec, NoResultsMarker
<1>4. /\ EntryDocT(snapshot[p], Issued)
      /\ c \in {NoConclusion, Cur(p)}
      /\ Fresh(snapshot[p], Cur(p))
  BY <1>1 DEF CopiesEntries, CallTags, CurFresh
<1>5. Cur(p) \in Issued
  <2>1. calls[p] \in Nat /\ calls[p] # 0
    BY <1>1, <1>2 DEF ProofTypes, CallsStarted
  <2>. QED
    BY <2>1 DEF Cur, Issued
<1>6. /\ EntryDocT(d, Issued)
      /\ \A u : Fresh(snapshot[p], u) /\ (c # NoConclusion => c # u) => Fresh(d, u)
  <2>1. c # NoConclusion => c \in Issued /\ Fresh(snapshot[p], c)
    BY <1>4, <1>5
  <2>. QED
    BY <1>3, <1>4, <2>1, EditEntries
<1>7. Issued' = Issued /\ \A q \in Clients : Cur(q)' = Cur(q)
  BY <1>1 DEF Issued, Cur
<1>8. /\ \A q \in Clients : q # p =>
           pc'[q] = pc[q] /\ call'[q] = call[q] /\ snapshot'[q] = snapshot[q]
      /\ pc'[p] = "idle"
  BY <1>1, <1>2 DEF ProofTypes
<1>9. FilesEntries'
  BY <1>1, <1>2, <1>3, <1>6, <1>7 DEF FilesEntries, ProofTypes
<1>10. CopiesEntries' /\ CallsStarted' /\ CallTags'
  BY <1>1, <1>7, <1>8 DEF CopiesEntries, CallsStarted, CallTags
<1>11. CurFresh'
  <2> SUFFICES ASSUME NEW q \in Clients, pc'[q] # "idle"
               PROVE  /\ \A e2 \in ExpIds : files'[e2] # NoFile => Fresh(files'[e2], Cur(q)')
                      /\ \A r \in Clients : pc'[r] = "write" => Fresh(snapshot'[r], Cur(q)')
    BY DEF CurFresh
  <2>1. q # p /\ pc[q] # "idle" /\ Cur(q)' = Cur(q) /\ Cur(p) # Cur(q)
    BY <1>7, <1>8 DEF Cur
  <2>2. \A e2 \in ExpIds : files'[e2] # NoFile => Fresh(files'[e2], Cur(q))
    <3> SUFFICES ASSUME NEW e2 \in ExpIds, files'[e2] # NoFile
                 PROVE  Fresh(files'[e2], Cur(q))
      OBVIOUS
    <3>1. CASE e2 = e
      <4>1. Fresh(snapshot[p], Cur(q))
        BY <1>1, <2>1 DEF CurFresh
      <4>2. c # NoConclusion => c # Cur(q)
        BY <1>4, <2>1
      <4>. QED
        BY <1>1, <1>2, <1>3, <1>6, <3>1, <4>1, <4>2 DEF ProofTypes
    <3>2. CASE e2 # e
      BY <1>1, <2>1, <3>2 DEF CurFresh
    <3>. QED
      BY <3>1, <3>2
  <2>3. \A r \in Clients : pc'[r] = "write" => Fresh(snapshot'[r], Cur(q))
    BY <1>8, <2>1 DEF CurFresh
  <2>. QED
    BY <2>1, <2>2, <2>3
<1>. QED
  BY <1>9, <1>10, <1>11 DEF EntryInv

(* Every step keeps EInv; one lemma above per action of Next.              *)
LEMMA StepEInv ==
  ASSUME NoResultsMarker, NoFileNotDoc
  PROVE  EInv /\ [Next]_vars => EInv'
<1> SUFFICES ASSUME IInv, EntryInv, [Next]_vars PROVE IInv' /\ EntryInv'
  BY DEF EInv
<1>1. IInv'
  BY StepIInv
<1>2. ASSUME NEW p \in Clients, CreateExperiment(p) PROVE EntryInv'
  BY <1>2, CreateEntryInv
<1>3. ASSUME NEW p \in Clients, LogObservationRead(p) PROVE EntryInv'
  BY <1>3, LogReadEntryInv
<1>4. ASSUME NEW p \in Clients, LogObservationAppend(p) PROVE EntryInv'
  BY <1>4, AppendEntryInv
<1>5. ASSUME NEW p \in Clients, UpdateStatusRead(p) PROVE EntryInv'
  BY <1>5, UpdateReadEntryInv
<1>6. ASSUME NEW p \in Clients, UpdateStatusWrite(p) PROVE EntryInv'
  BY <1>6, WriteEntryInv
<1>7. ASSUME NEW p \in Clients, GetOrList(p) PROVE EntryInv'
  BY <1>7, GetOrListEntryInv
<1>8. ASSUME UNCHANGED vars PROVE EntryInv'
  <2>1. Issued' = Issued /\ \A q \in Clients : Cur(q)' = Cur(q)
    BY <1>8 DEF vars, Issued, Cur
  <2>. QED
    BY <1>8, <2>1 DEF vars, EntryInv, FilesEntries, CopiesEntries, CallsStarted,
                      CallTags, CurFresh
<1>9. EntryInv'
  BY <1>2, <1>3, <1>4, <1>5, <1>6, <1>7, <1>8 DEF Next
<1>. QED
  BY <1>1, <1>9

LEMMA InitEInv == Init => EInv
<1> SUFFICES ASSUME Init PROVE EInv
  OBVIOUS
<1>1. IInv
  BY InitIInv
<1>2. EntryInv
  BY DEF Init, EntryInv, FilesEntries, CopiesEntries, CallsStarted, CallTags, CurFresh
<1>. QED
  BY <1>1, <1>2 DEF EInv

(* Neither log_observation's append nor update_status's write-back of a   *)
(* copy read before other calls changed the file ever puts an observation *)
(* or a conclusion into a document twice, for any clients, experiments    *)
(* and call bound, as long as no user text or status string holds         *)
(* "## Results".                                                           *)
THEOREM EntriesUnique ==
  ASSUME NoResultsMarker, NoFileNotDoc
  PROVE  Spec => []NoDuplicateEntries
<1>1. Init => EInv
  BY InitEInv
<1>2. EInv /\ [Next]_vars => EInv'
  BY StepEInv
<1>3. EInv => NoDuplicateEntries
  <2> SUFFICES ASSUME EInv, NEW e \in ExpIds, files[e] # NoFile,
                      NEW i \in IndicesOf(files[e], "observation") \cup IndicesOf(files[e], "conclusion"),
                      NEW j \in IndicesOf(files[e], "observation") \cup IndicesOf(files[e], "conclusion"),
                      files[e][i].tag = files[e][j].tag
               PROVE  i = j
    BY DEF NoDuplicateEntries
  <2>1. files[e] \in Seq(PSeg) /\ NoDupIn(files[e])
    BY DEF EInv, IInv, FilesPlaced, EntryInv, FilesEntries, EntryDocT
  <2>2. i \in 1 .. Len(files[e]) /\ j \in 1 .. Len(files[e])
        /\ IsEntry(files[e][i]) /\ IsEntry(files[e][j])
    BY <2>1 DEF IndicesOf, IsEntry
  <2>. QED
    BY <2>1, <2>2 DEF NoDupIn
<1>. QED
  BY <1>1, <1>2, <1>3, PTL DEF Spec
==============================================================================
