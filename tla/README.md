# TLA+ models of ironclaw's science tools and skill gating

This directory holds TLA+ specifications of `src/src/tools/builtin/science.rs`
and `src/src/skills/gating.rs`, the TLC models that check them on small
instances, and TLAPS proofs of their main invariants for every instance.

## The system

`science.rs` implements four agent tools. `gating.rs` decides whether a skill's
requirements are met.

| Part | Source | State | Operations |
|---|---|---|---|
| `ScienceComputeTool` | science.rs 391-475, 1166-1594 | none between calls | `execute`, which dispatches on `operation` to `compute_statistics`, `compute_unit_conversion` (with `convert_units`, `to_base_unit` and `from_base_unit`), `lookup_constant`, `compute_dilution` and `compute_molarity` |
| `ExperimentTrackerTool` | science.rs 485-790 | markdown files `experiments/<id>.md` in the shared `Workspace` | `create`, `log_observation` (read, then append), `update_status` (read, edit, write back), `get`, `list` |
| `ScienceReportTool` | science.rs 793-1095 | markdown files `reports/<id>.md` in the same `Workspace` | `create`, `get`, `list`, `append_section` (read, then append) |
| `ScienceSearchTool` | science.rs 27-389 | none; HTTP client | `search` on pubmed, arxiv or crossref, or on `all` of them |
| arXiv and string helpers | science.rs 1098-1163 | none | `parse_arxiv_atom`, `extract_xml_tag`, `truncate_str` |
| Skill gating | gating.rs | none | `check_requirements`, which runs `check_requirements_sync` on a blocking pool |

The parts interact only through the workspace. The experiment tracker and the
report tool each read and write their own files there, and any number of agent
jobs may call them concurrently. A tracker call awaits between its read and its
write, so calls on the same experiment interleave. The compute tool, the search
tool and the helpers share no state.

What is hard to test, by part (PROJECT.json `hazards` lists each at its line):

- **Compute tool.** Every answer comes from hand-written tables and arms that
  must agree with each other:
  - the two unit tables;
  - the four dilution arms and their divisor guards;
  - the molarity guards;
  - the median's even/odd rule against the percentile's interpolation.

  A slip in any one shows only for particular inputs.
- **Experiment tracker.**
  - `update_status` is a read-modify-write of the whole file. A concurrent
    `log_observation` append, or a second update, can be lost.
  - Both edits locate their place by the first occurrence of a marker string,
    which user text written by `create` can contain.
  - Observations are appended at the end of the file, which is below
    `## Results`.
- **Report tool.** `append_section` awaits between its existence check and
  its append, so appends of several callers interleave.
- **Gating.**
  - Seven loops must each report every unmet requirement, as a failure or a
    warning.
  - A failed join of the blocking task turns into "not passed" with a single
    synthetic failure.
  - The freeze-line match of `python_package_exists` decides whether an
    installed package counts.

## Modules

| Module | Models |
|---|---|
| `UnitTables` | `to_base_unit` and `from_base_unit` |
| `Statistics` | `compute_statistics`'s arithmetic |
| `ScienceCompute` | `execute` and the five handlers, as a state machine |
| `MC_ScienceCompute` | the TLC instance of `ScienceCompute` |
| `ScienceComputeProofs` | TLAPS proofs about `ScienceCompute` |
| `ExperimentDoc` | the experiment document and the edits the tracker makes to it |
| `ExperimentTracker` | `ExperimentTrackerTool` with concurrent callers, each await a step |
| `ExperimentTrackerProofs` | the TLAPS proof that conclusions stay under Results |
| `TrackerStatusProofs` | the TLAPS proof that the status line shows the last status |
| `TrackerEntryProofs` | the TLAPS proof that no entry is in a file twice |
| `TrackerTypeProofs` | the TLAPS proof of the tracker's `TypeOK` |
| `TrackerLossProofs` | the TLAPS proof that an entry is lost only by a stale write-back |
| `MC_ExperimentTracker` | the TLC instances of `ExperimentTracker` |
| `ReportDoc` | the report document: the template's segments and an appended entry |
| `ScienceReport` | `ScienceReportTool` with concurrent callers |
| `ScienceReportProofs` | the TLAPS proofs of the report tool's `TypeOK` and `AppendsKeptInOrder` |
| `MC_ScienceReport` | its TLC instance |
| `PipMatch` | the freeze-line match of `python_package_exists` |
| `MC_PipMatch` | all bounded name and line pairs, against PEP 503 normalisation |
| `Gating` | `check_requirements` and its blocking task |
| `GatingProofs` | the TLAPS proofs of gating's `TypeOK`, `PassedOnlyIfMet` and `DiagnosticsExact` |
| `MC_Gating` | every bounded requirement set on one host |

### UnitTables

Each arm of `to_base_unit` and `from_base_unit` is a row:

- `names`: the spellings the arm matches;
- `base`: the base unit's name;
- `map`: the affine map the arm applies.

A map `[pre, num, den, post]` stands for `(value + pre) * num / den + post`.
`num` and `den` are the source's f64 literals, kept as strings. The offsets of
the temperature arms are integers in hundredths (273.15 is `27315`).

Each category of each table is its own definition (`ToBaseLength`, ...,
`FromBaseEnergy`). `ToBaseArm(u)` is the arm `match unit` selects.
`FromBaseMatches(base, t)` holds when `match (base, target)` has an arm for the
pair.

### Statistics

The statistics are computed in exact integer arithmetic:

- `Values` is the `filter_map(as_f64)` of the data.
- `SortAsc` is the sorted copy.
- The mean and the variances are fractions `[num, den]`.
- The median and the percentiles are multiplied by 100. The R-7 rank
  `p/100 * (n-1)` then has its floor in `q \div 100` and its fractional part in
  `q % 100`, where `q = p*(n-1)`.
- `std_dev` and `sem` are square roots of the variances and are not modelled.

### ScienceCompute

The tool keeps no state between calls. The model's state is therefore the last
request and the response `execute` returned for it:

- `request`: the parameters, with each field a number of `Num`, `NotNumber` (a
  JSON value that is not a number) or `Absent`;
- `response`: the answer.

An error response is `[kind, op]`. Every error the code returns is
`ToolError::InvalidParameters`, and `kind` names the branch that produced it:
`MissingField`, `UnknownUnit`, `IncompatibleUnits`, `NonPositive`, and so on.

There is one action per arm of `match operation`: `Statistics`, `UnitConvert`,
`Constants`, `Dilution`, `Molarity`, and `UnknownOperation` (no operation, or
an unknown one). Each action draws its parameters with `\E` from the bounded
sets and applies the whole handler:

- Its guards are the handler's early returns, in their order. For example,
  molarity checks the three required fields, then `mw > 0`, then `vol > 0`.
- Strings are lowercased through the constant `Lowercase`, the table of
  `str::to_lowercase` on the offered spellings.
- The four match arms of `compute_dilution` are one rule. The single absent
  field `u` is solved as the product of the opposite side of C1*V1 = C2*V2,
  divided by `Partner[u]`, the other field on `u`'s own side. The arm requires
  `Partner[u] > 0`, exactly the divisor each arm of the source checks.

The statistics response carries only `[kind |-> "ok", op]`. The properties
recompute `Stats(request.data)`, which keeps the numeric payload out of the
type invariant.

Characters of the constants' unit and label strings that are outside Latin-1
are spelled in ASCII, because SANY reads Latin-1 only.

### ExperimentDoc and ExperimentTracker

**The document.** `ExperimentDoc` abstracts an `experiments/<id>.md` file to a
sequence of segments `[src, marks, tag]`, one per line or paragraph the code
locates or adds:

- `src` says who wrote the segment: a template line (`title`, `status`,
  `hypothesis`, `observations`, `results`), an `observation` or a `conclusion`.
- `marks` is the set of the two marker strings the code searches for that the
  text contains: `"S"` for `**Status:**` and `"R"` for `## Results`. User text
  may contain either.
- `tag` is the status of a status line, or the call that wrote an entry.

`str::find` is `FirstIndex`, the first segment whose marks hold the marker.
`SetStatus` replaces that segment (`replace_range`). `AddConclusion` inserts
after the first Results segment (`insert_str` after the following `\n\n`).
`Edit` is `update_status`'s whole edit of the copy it read.

Text that no code searches is left out. This covers the ID, the dates, the
placeholders, and the protocol and tags, which sit where the hypothesis sits.

**The tracker.** `ExperimentTracker` models each client (an agent job calling
the tool) as a process. It keeps a `pc`, the arguments of its current call and
the copy `update_status` read. Every await on the workspace is its own action:

| Action | Code |
|---|---|
| `CreateExperiment` | `create_experiment`: one write of the template under a fresh id |
| `LogObservationRead` | `log_observation` up to its read; a missing file ends the call |
| `LogObservationAppend` | its `workspace.append` |
| `UpdateStatusRead` | `update_status` up to its read; a missing file ends the call |
| `UpdateStatusWrite` | the edit of the copy and `workspace.write` of it |
| `GetOrList` | `get_experiment` and `list_experiments`, reads only |

`calls` counts each client's calls up to `MaxCalls`. `lastStatus` is a history
variable for `StatusLineHolds`. The `Workspace` is not under `src/`. It is
modelled from its use: a read returns the file or fails, `write` replaces a
file, `append` adds at its end, and each operation is atomic.

`Spec` has no fairness: no liveness property is checked. A caller may stop
calling, and nothing in the code bounds how long a workspace operation
takes.

### ScienceReport

`ScienceReport` models `reports/<id>.md`. A report is the title, the seven
`## ` headers of the template, then the entries `append_section` adds, each
`[name, tag]`. `CreateReport` writes the template. `AppendSectionRead` checks
that the report exists; `AppendSectionWrite` appends. `appended` records the
completed appends of each report, in order. `ReportDoc` holds the template
and the entry.

### PipMatch and Gating

`PipMatch` translates the closure `python_package_exists` gives to
`lines().any()`. Strings are sequences of one-character strings, and
`to_lowercase` goes through the constant `Upper`. A line matches when,
lowercased, it starts with the lowercased name, followed by the end of the
line or by `==`. `MC_PipMatch` enumerates every name of one to four
characters over `{a, B, -, _}` and every freeze line. It compares the match
with `Normalize`, PEP 503's rule that `-`, `_` and `.` runs are one separator
and case does not matter.

`Gating` models `check_requirements`:

- `Checks(r)` is the seven requirement loops of `check_requirements_sync`,
  concatenated in the code's order (required bins, env, config,
  python_packages, then optional bins, env, config).
- The host is constant for a run: `OnPath`, `EnvValue` (`unset`, `utf8` or
  `nonutf8`), `ExistingConfigs`, `PipWorks` and `PipLines`. `Met` is the
  check of each kind. `EnvVarErr` is `std::env::var(..).is_err()`, which also
  fails for a value that is not UTF-8.
- The blocking task is `StartTask`, then one `Check` per loop iteration, then
  `ReturnResult`.
- `CancelTask` is a join error before the task ran. The code turns it into
  `passed: false` with one synthetic failure.
- `Msgs`, the set of messages a result may hold, is every check of every
  requirement set, plus the synthetic failure.
- `RequirementsAssumption` says every list of a requirement set is a
  sequence of names, as the `Vec<String>` fields of the skill's
  requirements are. The proofs need it; TLC evaluates it on `gating_safety`.

## Runs

Every run's cfg is listed in PROJECT.json `runs`, and every property of a
passing run has a mutant there: TLC finds each mutant's property violated.

### Compute tool

The compute runs use `MC_ScienceCompute`, with these bounds:

- `Num = {-1, 0, 2}`: one negative number, zero and one positive number.
- Data arrays of length 0 to 4, over `Num` and `NotNumber`, so both even and
  odd lengths, ties and non-numbers occur.
- 11 unit spellings covering five categories plus one unknown unit, mixed case, the affine
  temperature units, `Å`, and one unknown spelling (`furlong`).
- 5 constant spellings: canonical names, aliases, a mixed-case alias and an
  unknown one.
- The five operation names and one unknown name.

Zero and a negative number reach every `> 0` guard. Three values per field
make each dilution combination occur, from no field missing to all four
missing.

| Run | Expect | Checks |
|---|---|---|
| `compute_safety` (`MC_ScienceCompute.cfg`) | pass (1821 states) | `TypeOK`, plus the safety properties listed below |
| `compute_unknown_unit` | violation | `UnknownUnitReported` (spec.md 4.2) |
| `compute_negative_mass` | violation | `NegativeMassRejected` (spec.md 4.4) |

`TypeOK` includes that no dilution or molarity answer has a zero denominator.
The safety properties are:

- **`ConversionCategorySound`**: a conversion succeeds exactly when both
  spellings are known to `to_base_unit` and have the same base. This is the
  condition for the two tables to agree.
- **`RoundTripExact`**: the `from_base_unit` arm of each unit undoes its
  `to_base_unit` arm, the affine temperature arms included.
- **`DilutionSound`**:
  - the answer is ok exactly when one field is missing and its divisor is
    positive;
  - the answer solves that field and echoes the other three;
  - the answer satisfies C1*V1 = C2*V2.
- **`MolaritySound`**: moles, mol/L and mmol/L agree with the inputs.
- **`PercentilesOrdered`**: min <= p25 <= ... <= p99 <= max.
- **`MedianIsP50`**: the median equals the 50th percentile.
- **`MeanWithinRange`**: min <= mean <= max.

Each property of `compute_safety` has a mutant in PROJECT.json, and TLC finds
each mutant's property violated. The mutants are:

- a dropped volume check;
- `litres` missing from `from_base_unit`;
- a wrong sign on the Celsius offset;
- the wrong divisor for V1;
- mmol/L scaled by 100;
- percentiles read from the unsorted values;
- the median taking the upper middle element for every length;
- n counted over the whole data array.

The two violation runs record divergences from spec.md (PROJECT.json
`findings`):

- An unknown `to_unit` is reported as a category mismatch
  (science.rs:1434).
- A negative `mass_grams` is accepted by `compute_molarity`
  (science.rs:1571).

The compute runs need no fairness. The compute tool has no liveness question:
each call returns.

### Experiment tracker

All tracker runs use `MC_ExperimentTracker`. They have one experiment, since
every hazard is two calls on the same file. They check deadlock off, because
the bounded clients stop by design.

| Run | Clients, MaxCalls | Expect | Checks |
|---|---|---|---|
| `tracker_safety` (`MC_ExperimentTracker.cfg`) | 2, 3 | pass (12264 states) | `TypeOK`, `ConclusionInResults`, `StatusLineHolds`, `NoDuplicateEntries`, `EntriesLostOnlyByStaleWrite` |
| `tracker_lost_update` | 2, 2 | violation | `EntriesNeverRemoved` |
| `tracker_observation_section` | 1, 2 | violation | `ObservationsUnderHeading` |
| `tracker_marked_text` | 1, 3 | violation | `ConclusionInResults`, with marked user text and status |

The properties:

- **`ConclusionInResults`**: every conclusion lies below a Results header.
- **`StatusLineHolds`**: every status line shows the status of the last
  `update_status` write.
- **`NoDuplicateEntries`**: no observation or conclusion is in a file twice.
  This is at stake when a write-back carries an old copy, or an append is
  retried.
- **`EntriesNeverRemoved`**: an action property. No step takes an observation
  or a conclusion out of a file. It is what the "logged" and "updated"
  replies promise, and `tracker_lost_update` shows it fails.
- **`EntriesLostOnlyByStaleWrite`**: an action property, and the exact
  diagnosis of that failure. An entry leaves a file only in a step where
  some client's `update_status` writes back its copy of that file, and only
  if the copy, read before its await, did not hold the entry. Create, the
  append and the edit itself never drop an entry. A mutant that overwrites
  the paragraph after the Results header breaks it.
- **`ObservationsUnderHeading`**: observations lie between `## Observations`
  and `## Results`, where the template puts them.

**Why these bounds.** Two clients with three calls each are enough to:

- create the experiment;
- interleave a log or an update between the other client's read and write;
- do it again after a conclusion exists.

**No fairness.** No liveness property is checked: a caller may stop, and
the code bounds no workspace operation, so completion would rest on an
assumption the code does not justify.

**Findings** (PROJECT.json `findings`, all `code_bug`):

- **Lost update** (`tracker_lost_update`, science.rs:732). `update_status`
  writes back the whole copy it read. An observation appended in between, or
  the conclusion of a concurrent update, is lost after its call returned
  success. The trace: c1 creates the experiment and starts
  `log_observation`; c2's `update_status` reads; c1 appends; c2 writes
  back its copy, without c1's observation.
- **Observations below Results** (`tracker_observation_section`,
  science.rs:684). `log_observation` appends at the end of the file, below
  `## Results` and any conclusion, not under `## Observations`.
- **Conclusion misplaced by marked text** (`tracker_marked_text`,
  science.rs:721). `content.find("## Results")` takes the first occurrence. A
  title, a hypothesis or an earlier status string containing it (`status` is
  not checked against the schema's enum) puts the conclusion above the
  Results section.

### Report tool

`report_safety` (`MC_ScienceReport.cfg`, pass, 5847 states) has two clients
with three calls each, one report and two section names. It checks `TypeOK`
and **`AppendsKeptInOrder`**: the template stays intact, and the entries of a
report are exactly the completed `append_section` calls, once each, in the
order they returned. It is stated by position, through `Layout(d, a)`: the
report's length is the template's plus the number of completed appends.
Its first segments are the template. The tag of each later segment is the
matching entry of `appended`. A report that does not exist has no
completed append. The existence check that `append_section` makes before its
await can never be stale, because no call removes or rewrites a report, so
this instance exercises no case where a report vanishes.

### Gating

- **`pip_match_sound`** (`MC_PipMatch.cfg`, pass, 7396 states) checks
  **`MatchSound`**: a freeze line matches a requirement only if the line's
  package has the same normalised name. The `==` check rules out prefixes
  such as `ab` for `a`.
- **`pip_match_separator`** (violation) checks **`MatchComplete`**: an
  installed package whose name differs only in separators matches. It fails
  for `a-a` against the line `a_a==1` (gating.rs:184, a `code_bug`: the
  comment expects both spellings).
- **`gating_safety`** (`MC_Gating.cfg`, pass, 9888 states) runs every
  requirement set of the bounded lists: 1152 of them. These include two
  failing binaries (for the order), a set, an unset and a non-UTF-8 variable,
  a present and a missing config, and a package named as pip prints it, in
  upper case, or with `_` for `-`. It checks:
  - `TypeOK`;
  - **`PassedOnlyIfMet`**: `passed` only when every required check holds.
  - **`DiagnosticsExact`**: the failures and warnings are exactly the unmet
    required and optional checks, in loop order; or the single synthetic
    failure of a join error. "Exactly, in loop order" is stated by
    position: `Selects(s, C, P)` says an increasing map of the places of `s`
    onto the set `P` of places of `C` picks `s` out of `C`. `UnmetAt(r, b)`
    is the set of places of the unmet checks of kind `b`.

  No fairness is assumed and no liveness property is checked. `which` and
  `pip list` run with no timeout (gating.rs:125, 161), so nothing in the
  code makes the blocking task return; the deadlock check is off because
  the task stops by design once it is done.


## Proofs

### The compute tool

`ScienceComputeProofs` proves three theorems:

- **`TypeCorrect == Spec => []TypeOK`.**
- **`DilutionCorrect == Spec => []DilutionSound`.**
- **`MolarityCorrect == Spec => []MolaritySound`.**

They hold for every value of the constants. They assume only the named
assumptions of `ScienceCompute`:

- `Num \subseteq Int`;
- `Absent` and `NotNumber` are not numbers;
- `Absent # NotNumber`.

Neither invariant needs strengthening. Every step computes its response from
the request it records, so each invariant is re-established by any step,
whatever the state before it.

The proof of `TypeCorrect` has one lemma per handler (`DilutionType`,
`MolarityType`, and so on).

The dilution proofs rest on `DilutionCases`, which restates `compute_dilution`
as three cases:

1. not exactly one field missing;
2. one field `u` missing with `Partner[u] <= 0`;
3. one field `u` missing with `Partner[u] > 0`, answered by the solved record.

Three facts about the missing set connect the code to these cases:

- `FS_Singleton` gives `Cardinality(missing) = 1 <=> missing = {u}`.
- The missing set is finite, because it is a subset of the four keys
  (`KeysFinite`, `FS_Subset`).
- The `CHOOSE` of the code then picks `u`.

`SolvedBalances` proves C1*V1 = C2*V2 for each of the four arms.

`MolarityStep` follows `compute_molarity`: an ok answer means the three
fields were numbers and passed both `> 0` checks, so the outputs are
`Frac(m, w)`, `Frac(m, w * v)` and `Frac(1000 * m, w * v)`.
`DilutionOp` and `OtherHandlersOp` show that the other handlers never
answer for `"molarity"`.

Only TLC checks the other compute properties:

- The statistics properties compute `Stats` through `SumOf` and `SelectSeq`
  (recursive functions) and `SortAsc`. Proving them for every input would
  need induction over sequences, which the installed provers cannot
  instantiate.
- The unit-table properties run into the non-ASCII spelling, as described
  under "What only TLC checks".

### The tracker's conclusions

`ExperimentTrackerProofs` proves

**`ConclusionPlaced == ASSUME NoResultsMarker PROVE Spec => []ConclusionInResults`**

for any sets of clients, experiments and statuses, and any call bound.

**The assumption.** `NoResultsMarker` says that no title or hypothesis a
caller passes (`UserMarks`), and no status string (`StatusMarks`), contains
`## Results`. It is the theorem's hypothesis, not an ASSUME of the module,
because `tracker_marked_text` shows the property fails without it.

**Why a stronger invariant is needed.** `ConclusionInResults` is not
inductive:

- A write installs a copy read earlier, so the copies of clients about to
  write must satisfy it too.
- `AddConclusion` lands below a Results header only because the first
  `## Results` it finds is one.

**The inductive invariant.** `IInv` says of every file, and of every copy a
client in `"write"` holds, that it is `WellPlaced`:

1. Only Results headers carry the Results marker.
2. A Results header carries no other marker, so the status line
   `SetStatus` replaces is never one.
3. Every conclusion has a Results header before it.

`IInv` also types the variables, and says that a pending append targets an
existing, well-placed file.

**The lemmas.**

- `FirstIndexFound`: `str::find`'s model is 0, or an index holding the
  marker. It rests on `WFMin` and `NatLessThanWellFounded` of
  `WellFoundedInduction`.
- `InsertAfterProps`: the index arithmetic of `insert_str`, from
  `SubSeqProperties` and `ConcatProperties`.
- `TemplatePlaced`, `AppendPlaced`, `SetStatusPlaced`,
  `AddConclusionPlaced` and `EditPlaced`: each document operation keeps a
  document well placed.

**The steps.** `StepIInv` has one step per action of `Next`, and under each
one step per conjunct of `IInv`. With `InitIInv` and `IInvConclusion`, PTL
gives the theorem.

### The tracker's status line

`TrackerStatusProofs` proves

**`StatusLineCorrect == ASSUME NoResultsMarker, NoStatusMarker, NoFileNotDoc PROVE Spec => []StatusLineHolds`**

**The assumptions.**

- `NoStatusMarker`: no title or hypothesis contains `**Status:**`. TLC finds
  `StatusLineHolds` violated without it. The title is then the first match,
  and `update_status` rewrites the title instead of the status line.
- `NoResultsMarker`: the hypothesis of `ConclusionPlaced`, whose invariant
  this proof reuses.
- `NoFileNotDoc`: the workspace's "no document" value is not a document.

**The inductive invariant.** `SInv` is `IInv` together with `StatusInv`.
`StatusInv` says that in every file, and in every copy a client in `"write"`
holds (`StatusShape`):

- a segment carries the status marker exactly when it is the status line;
- there is at most one status line;
- in a file, that line shows `lastStatus` (`StatusTagged`).

The copies are needed because a write installs a copy read earlier. The
lemmas `SetStatusShape`, `InsertShape`, `AddConclusionShape`, `EditShape`,
`AppendShape` and `TemplateShape` show that each document operation keeps
the shape. `FirstIndexHit` and `FirstIndexMiss` give the segment
`str::find` returns.

### No duplicated entries

`TrackerEntryProofs` proves

**`EntriesUnique == ASSUME NoResultsMarker, NoFileNotDoc PROVE Spec => []NoDuplicateEntries`**

This holds even though a write-back can install a stale copy.

**The inductive invariant.** `EInv` is `IInv` with `EntryInv`:

- **Documents.** Every file, and every copy about to be written, has entries
  that hold no marker, carry no tag twice, and carry only issued tags
  (`Issued`: a tag whose call has started).
- **Calls in progress.** Each client between its two steps holds its
  current tag (`Cur(p)`).
- **Freshness.** That tag is in no file and in no copy (`CurFresh`).

A stale copy can therefore only lack entries: it can never re-add one, and a
new entry's tag is fresh everywhere.

**The lemmas.**

- `InsertEntries`, `SetStatusEntries`, `EditEntries`, `AppendEntries` and
  `TemplateEntries`: each operation keeps `EntryDocT`.
- `FreshOutside` and `StartTags`: the tag of a new call is fresh.
- One lemma per action of `Next` (`CreateEntryInv`, …, `WriteEntryInv`).

### The tracker's types

`TrackerTypeProofs` proves

**`TrackerTypeCorrect == ASSUME MarksTyped PROVE Spec => []TypeOK`**

It holds for any clients, experiments and call bound.

**The assumption.** `MarksTyped` says the marker sets of titles, hypotheses
and statuses hold only the two markers. Without it the template's segments
are not `IsSegment`.

**Why not through `IInv`.** The proof does not rest on `IInv`, so it needs
neither `NoResultsMarker` nor `NoFileNotDoc`.

**The inductive invariant.** `TInv` types every segment with the set
`Segs`: an entry carries a tag in `Tags`, and any other segment carries a
status. `TInv` also says two things about a call between its steps:

- a pending append's file is a typed document and its tag is in `Tags`;
- a pending write's status is a status.

**The lemmas.** `TemplateTyped`, `AppendTyped`, `SetStatusTyped`,
`AddConclusionTyped` and `EditTyped` type each operation. `SegsDoc` turns
`Segs` into `IsDoc`.

### Where an entry can be lost

`TrackerLossProofs` proves, for any clients, experiments and call bound:

**`EntriesLostOnlyInStaleWrite == ASSUME MarksTyped, NoFileNotDoc PROVE Spec => EntriesLostOnlyByStaleWrite`**.

An observation or a conclusion leaves a file only in an `update_status`
write-back of a copy that did not hold it. `EntriesNeverRemoved` itself is
false for two clients (`tracker_lost_update`), so this is what can be proved
about lost entries: the lost update of science.rs:707-732 is the only way
to lose one.

**The inductive invariant.** `LInv` is `TInv` with `FilesUnmarked` and
`CopiesUnmarked`: no entry of a file, nor of a copy a pending write holds,
carries a marker. The edit replaces the first segment holding
`**Status:**`, so it keeps every entry of the copy only because no entry
holds that marker.

**The lemmas.**

- `InsertKeeps`, `EditKeeps` and `AppendKeeps`: each operation keeps every
  entry of the document it is given, and adds only an unmarked one.
- `EntriesMove`: a document whose entries all reappear in another has its
  entries there.
- `StepLost`: one step per action. Create writes only where no file was.
  The append keeps every entry. The write-back keeps the copy's entries, so
  an entry it drops was not in the copy, and the writing client is the
  witness.

### Gating

`GatingProofs` proves, for every host and every set of requirement lists
(under `RequirementsAssumption`):

- **`GatingTypeCorrect == Spec => []TypeOK`**;
- **`PassedMeansMet == Spec => []PassedOnlyIfMet`**;
- **`DiagnosticsAreExact == Spec => []DiagnosticsExact`**: the result lists
  exactly the unmet required checks as failures and the unmet optional ones
  as warnings, in the loops' order, and passes iff there is no failure.

**Why a stronger invariant is needed.** `PassedOnlyIfMet` and
`DiagnosticsExact` speak of the result, which is set only at the end.

**The inductive invariant.** `IInv` adds four facts:

- `NoFailureMeansMet`: while the loops run, an empty failure list means
  every required check done so far was met.
- `ResultFinal`: a result exists only once the task is done. A passed
  result comes with no failures and every check done.
- `LoopsSoFar`: the failures and the warnings list, in order, the unmet
  required and optional checks at the places `UnmetBefore` the cursor.
- `ResultOfLoops`: a result is the join failure, or the task's own two
  lists with `passed` iff the failures are empty, after every check ran.

**The lemmas.**

- `ChecksPartSeq` and `ChecksSeq`: each loop, and their concatenation, is a
  sequence of check records.
- `CheckInMsgs`: each check is a message a result may hold.
- `SelectsEmpty`, `SelectsAppend` and `SelectsEmptyIff`: the empty list
  selects no place; appending the element at a place past all of `P`
  selects `P` and that place; a list is empty iff it selects no place.
- `SelectsStep`: one iteration of the loops keeps `LoopsSoFar` for one
  kind of check. It is the only step where the cursor moves.

**A bug found.** Stating `TypeOK` for the proof showed that `Msgs` was
parsed as `UNION ({...} \cup {JoinFailure})`, without the synthetic
failure. It now has parentheses.

### The report tool

`ScienceReportProofs` proves two theorems for every set of clients,
reports and section names, and every call bound:

- `ReportTypeCorrect`: `Spec => []TypeOK`.
- `AppendsKept`: `Spec => []AppendsKeptInOrder`.

Each theorem has the hypothesis `NoFileNotADoc`: `NoFile`, the result of
reading a path never written, is no sequence of segments. That is what the
code's `NotFound` means. TLC cannot evaluate the hypothesis on a model
value, so it is a hypothesis of the theorems and not an `ASSUME`.

`AppendsKeptInOrder` is not inductive on its own. A pending
`append_section` will append to the report it found, so the invariant must
also say that this report still exists. It must say too that the pending
call's name and tag are of the right kind. `RTInv` adds those facts and
the shapes of the variables; `IInv == RTInv /\ AppendsKeptInOrder`.

- `CreateIInv`: a create writes the template at a fresh id, and that id
  has no appends.
- `ReadIInv`: the existence check keeps `IInv`.
- `WriteIInv`: the append keeps `IInv`, through the lemma
  `AppendKeepsLayout` (an append keeps `Layout`).

### What only TLC checks

- **Liveness.** No run checks liveness. The code bounds neither the
  workspace operations nor the `which` and `pip` subprocesses, so a
  completion property would hold only under a fairness the code does not
  give.
- **Recursive definitions.** Some properties are computed through recursive
  definitions over data, and proving them needs induction with an operator
  parameter, which the installed provers cannot instantiate:
  - the statistics;
  - the string normalisation of `MC_PipMatch`.

  `DiagnosticsExact` and the report tool's `AppendsKeptInOrder` are
  stated by position rather than with `SelectSeq` so that they can be
  proved.
- **The compute tables.** `ConversionCategorySound` and `RoundTripExact`
  are facts about the two unit tables. The tables hold the spelling `"å"`
  (science.rs), a non-ASCII string that both prover backends reject (Zenon:
  "bad character in string"). Without that spelling the same table facts
  prove at once. `compute_safety` checks the properties for eleven
  spellings, `"å"` among them.
- **Two clients.** `EntriesNeverRemoved` is false for two clients; what is
  proved instead, for any number, is `EntriesLostOnlyByStaleWrite`.

## Not modelled, and what is next

Not modelled:

- **`ScienceSearchTool`** (science.rs 27-389). It is HTTP requests and the
  parsing of their answers, with no state. The `all` source calls the three
  sources in sequence and keeps those that succeed.
- **`parse_arxiv_atom`, `extract_xml_tag` and `truncate_str`**. These are
  pure string functions, not reached yet.
- **f64 rounding and `sqrt`**, and the JSON and markdown formatting of
  responses.
- **Parameter validation of the tracker and report tools.** A missing
  required parameter is rejected before any workspace operation, which
  changes nothing.
- **Id collisions.** The models give every create a fresh id. The code
  writes without checking the path (science.rs:616 and 1010), but a
  collision needs tens of thousands of creates on one day.

Next:

1. `truncate_str` and `extract_xml_tag` as pure operators, checked over
   bounded strings against reference definitions.
2. The tracker and report tools composed over one workspace, so that the
   bounded calls mix both.
3. A proof of `ObservationsUnderHeading` once `log_observation` is fixed.
