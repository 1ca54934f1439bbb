--------------------------- MODULE ExperimentTracker ---------------------------
(***************************************************************************)
(* ExperimentTrackerTool (science.rs 485-790) with concurrent callers.     *)
(* Every agent job may call the tool; a call is a task that awaits the     *)
(* workspace between its steps, so the calls of different clients          *)
(* interleave at each await:                                               *)
(*   create_experiment   one write                                         *)
(*   log_observation     read (existence check), then append               *)
(*   update_status       read, edit the copy, then write the whole copy    *)
(*   get, list           one read                                          *)
(* Each workspace operation is taken to be atomic.  The Workspace itself   *)
(* (crate::workspace) is not part of the sources and is modelled from its  *)
(* use: write replaces a document, append adds at its end, read returns it *)
(* or fails when no document is at the path.                               *)
(***************************************************************************)
EXTENDS ExperimentDoc

CONSTANTS
  Clients,      \* concurrent callers of the tool
  ExpIds,       \* ids create_experiment may generate
  Statuses,     \* status strings passed to update_status
  StatusMarks,  \* StatusMarks[st]: the markers the status string st holds
  UserMarks,    \* the marker sets a title or a hypothesis may hold
  MaxCalls      \* calls per client

ASSUME MaxCallsAssumption == MaxCalls \in Nat

VARIABLES
  files,       \* the workspace: experiment id -> document or NoFile
  pc,          \* where each client's current call is: "idle", "append", "write"
  call,        \* the arguments of each client's current call
  snapshot,    \* update_status's copy of the document it read
  calls,       \* calls each client has started
  lastStatus   \* history: the status of the last update_status write

vars == <<files, pc, call, snapshot, calls, lastStatus>>

(* The tag of an observation or conclusion: the client and its call.       *)
Tags == Clients \X (0 .. MaxCalls)

NoCall == [exp |-> NoFile, tag |-> NoConclusion, st |-> "none"]

Init ==
  /\ files = [e \in ExpIds |-> NoFile]
  /\ pc = [p \in Clients |-> "idle"]
  /\ call = [p \in Clients |-> NoCall]
  /\ snapshot = [p \in Clients |-> <<>>]
  /\ calls = [p \in Clients |-> 0]
  /\ lastStatus = [e \in ExpIds |-> "planning"]

(* A client starts a new call.                                             *)
Start(p) ==
  /\ pc[p] = "idle"
  /\ calls[p] < MaxCalls
  /\ calls' = [calls EXCEPT ![p] = @ + 1]

(* create_experiment: the id is fresh (the uuid), the template is written. *)
CreateExperiment(p) ==
  /\ Start(p)
  /\ \E e \in ExpIds, tm, hm \in UserMarks :
       /\ files[e] = NoFile
       /\ files' = [files EXCEPT ![e] = Template(tm, hm)]
       /\ lastStatus' = [lastStatus EXCEPT ![e] = "planning"]
  /\ UNCHANGED <<pc, call, snapshot>>

(* log_observation up to its read: an unknown id ends the call with        *)
(* "Experiment not found"; otherwise the call goes on to append.           *)
LogObservationRead(p) ==
  /\ Start(p)
  /\ \E e \in ExpIds :
       \/ /\ files[e] = NoFile
          /\ UNCHANGED <<pc, call>>
       \/ /\ files[e] # NoFile
          /\ pc' = [pc EXCEPT ![p] = "append"]
          /\ call' = [call EXCEPT ![p] = [NoCall EXCEPT !.exp = e,
                                                        !.tag = <<p, calls[p]>>]]
  /\ UNCHANGED <<files, snapshot, lastStatus>>

(* Plausible fault: the entry tagged with the experiment id.               *)
FaultyTagAppend(p) ==
  /\ pc[p] = "append"
  /\ files' = [files EXCEPT ![call[p].exp] = Append(@, Observation(call[p].exp))]
  /\ pc' = [pc EXCEPT ![p] = "idle"]
  /\ call' = [call EXCEPT ![p] = NoCall]
  /\ UNCHANGED <<snapshot, calls, lastStatus>>

(* Plausible fault: an append retried after it took effect.               *)
FaultyRetriedAppend(p) ==
  /\ pc[p] = "append"
  /\ files' = [files EXCEPT ![call[p].exp] = Append(@, Observation(call[p].tag))]
  /\ UNCHANGED <<pc, call, snapshot, calls, lastStatus>>

(* Plausible fault: the entry inserted at the start of the file.          *)
FaultyPrependAppend(p) ==
  /\ pc[p] = "append"
  /\ files' = [files EXCEPT ![call[p].exp] = <<Observation(call[p].tag)>> \o @]
  /\ pc' = [pc EXCEPT ![p] = "idle"]
  /\ call' = [call EXCEPT ![p] = NoCall]
  /\ UNCHANGED <<snapshot, calls, lastStatus>>

(* workspace.append of the entry, then the call returns "logged".          *)
LogObservationAppend(p) ==
  /\ pc[p] = "append"
  /\ files' = [files EXCEPT ![call[p].exp] = Append(@, Observation(call[p].tag))]
  /\ pc' = [pc EXCEPT ![p] = "idle"]
  /\ call' = [call EXCEPT ![p] = NoCall]
  /\ UNCHANGED <<snapshot, calls, lastStatus>>

(* update_status up to its read: the status is any string (it is not       *)
(* checked against the schema's enum), the conclusion optional.            *)
UpdateStatusRead(p) ==
  /\ Start(p)
  /\ \E e \in ExpIds, st \in Statuses, c \in {NoConclusion, <<p, calls[p]>>} :
       \/ /\ files[e] = NoFile
          /\ UNCHANGED <<pc, call, snapshot>>
       \/ /\ files[e] # NoFile
          /\ pc' = [pc EXCEPT ![p] = "write"]
          /\ call' = [call EXCEPT ![p] = [exp |-> e, tag |-> c, st |-> st]]
          /\ snapshot' = [snapshot EXCEPT ![p] = files[e]]
  /\ UNCHANGED <<files, lastStatus>>

(* Plausible fault: a write that waits until the file is the copy read.   *)
FaultyWaitingWrite(p) ==
  /\ pc[p] = "write"
  /\ files[call[p].exp] = snapshot[p]
  /\ LET e == call[p].exp
         st == call[p].st
     IN  /\ files' = [files EXCEPT ![e] = Edit(snapshot[p], st, StatusMarks[st],
                                                call[p].tag)]
         /\ lastStatus' = [lastStatus EXCEPT ![e] = st]
  /\ pc' = [pc EXCEPT ![p] = "idle"]
  /\ call' = [call EXCEPT ![p] = NoCall]
  /\ snapshot' = [snapshot EXCEPT ![p] = <<>>]
  /\ UNCHANGED calls

(* The status line and the conclusion are edited into the copy that was    *)
(* read, and workspace.write replaces the document with it.                *)
UpdateStatusWrite(p) ==
  /\ pc[p] = "write"
  /\ LET e == call[p].exp
         st == call[p].st
     IN  /\ files' = [files EXCEPT ![e] = Edit(snapshot[p], st, StatusMarks[st],
                                                call[p].tag)]
         /\ lastStatus' = [lastStatus EXCEPT ![e] = st]
  /\ pc' = [pc EXCEPT ![p] = "idle"]
  /\ call' = [call EXCEPT ![p] = NoCall]
  /\ snapshot' = [snapshot EXCEPT ![p] = <<>>]
  /\ UNCHANGED calls

(* get_experiment and list_experiments: one read, nothing changes.         *)
GetOrList(p) ==
  /\ Start(p)
  /\ UNCHANGED <<files, pc, call, snapshot, lastStatus>>

Next ==
  \E p \in Clients :
    \/ CreateExperiment(p)
    \/ LogObservationRead(p)
    \/ LogObservationAppend(p)
    \/ UpdateStatusRead(p)
    \/ UpdateStatusWrite(p)
    \/ GetOrList(p)

Spec == Init /\ [][Next]_vars

-----------------------------------------------------------------------------
(* A segment: an entry carries its call's tag, a template line a string.  *)
IsSegment(s) ==
  /\ DOMAIN s = {"src", "marks", "tag"}
  /\ s.marks \subseteq Markers
  /\ \/ s.src \in {"observation", "conclusion"} /\ s.tag \in Tags
     \/ s.src \in {"title", "status", "hypothesis", "observations", "results"}
        /\ s.tag \in Statuses \cup {"none", "planning"}

IsDoc(d) ==
  /\ DOMAIN d = 1 .. Len(d)
  /\ \A i \in DOMAIN d : IsSegment(d[i])

TypeOK ==
  /\ DOMAIN files = ExpIds
  /\ \A e \in ExpIds : files[e] = NoFile \/ IsDoc(files[e])
  /\ pc \in [Clients -> {"idle", "append", "write"}]
  /\ call \in [Clients -> [exp : ExpIds \cup {NoFile},
                           tag : Tags \cup {NoConclusion},
                           st : Statuses \cup {"none"}]]
  /\ DOMAIN snapshot = Clients
  /\ \A p \in Clients : IsDoc(snapshot[p])
  /\ calls \in [Clients -> 0 .. MaxCalls]
  /\ lastStatus \in [ExpIds -> Statuses \cup {"planning"}]

(* Segments of document d written by src.                                  *)
IndicesOf(d, src) == {i \in DOMAIN d : d[i].src = src}

(* update_status puts a conclusion under "## Results": every conclusion    *)
(* segment of an experiment comes after the Results header.  This depends *)
(* on str::find meeting the template's header first, i.e. on no earlier    *)
(* user text (title, hypothesis, status string) containing the marker.     *)
ConclusionInResults ==
  \A e \in ExpIds : files[e] # NoFile =>
    \A i \in IndicesOf(files[e], "conclusion") :
      \E j \in IndicesOf(files[e], "results") : j < i

(* update_status rewrites the status line create wrote: every status line *)
(* of an experiment shows the status of the last update_status write that *)
(* reached it, whatever writes and appends interleaved with it.            *)
StatusLineHolds ==
  \A e \in ExpIds : files[e] # NoFile =>
    \A i \in IndicesOf(files[e], "status") : files[e][i].tag = lastStatus[e]

(* No observation or conclusion is in a document twice: neither the       *)
(* append of log_observation nor the write-back of update_status, over a  *)
(* copy read before other calls' entries, duplicates an entry.            *)
NoDuplicateEntries ==
  \A e \in ExpIds : files[e] # NoFile =>
    \A i, j \in IndicesOf(files[e], "observation") \cup IndicesOf(files[e], "conclusion") :
      files[e][i].tag = files[e][j].tag => i = j

(* log_observation reports "logged", update_status "updated", and nothing *)
(* ever takes their entry out: no step removes an observation or a        *)
(* conclusion from an experiment's document.  The write-back of           *)
(* update_status replaces the file with a copy read before it awaited, so *)
(* a concurrent append or update is at stake.                             *)
EntriesNeverRemoved ==
  [][\A e \in ExpIds : files[e] # NoFile =>
        EntriesIn(files[e]) \subseteq EntriesIn(files'[e])]_vars

(* Where an entry can be lost: update_status writes back an edit of the   *)
(* copy it read before its await, so an observation or a conclusion       *)
(* leaves an experiment's document only in such a write-back, and only     *)
(* when that copy did not hold it (another call added it after the read).  *)
(* Neither create, nor log_observation's append, nor the edit of the       *)
(* status line and the conclusion drops an entry.                          *)
EntriesLostOnlyByStaleWrite ==
  [][\A e \in ExpIds : files[e] # NoFile =>
       \A x \in EntriesIn(files[e]) \ EntriesIn(files'[e]) :
         \E p \in Clients : /\ pc[p] = "write" /\ pc'[p] = "idle"
                            /\ call[p].exp = e
                            /\ x \notin EntriesIn(snapshot[p])]_vars

(* The template puts observations under "## Observations": every          *)
(* observation segment lies between that header and "## Results".         *)
ObservationsUnderHeading ==
  \A e \in ExpIds : files[e] # NoFile =>
    \A i \in IndicesOf(files[e], "observation") :
      /\ \E j \in IndicesOf(files[e], "observations") : j < i
      /\ \A k \in IndicesOf(files[e], "results") : i < k
=============================================================================
