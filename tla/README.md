# A TLA+ model of rngkit-core

rngkit-core reads random bits from devices, records them, and analyses what it recorded.
This directory holds TLA+ modules for the parts of it where order, failure and concurrency
matter, the TLC configurations that check them on small instances, and proofs, checked by
TLAPS, of what holds for every instance. Paths below are relative to `src/crates/` unless
they say otherwise.

## The system

| Component | State | Operations | What is hard | What must hold |
|---|---|---|---|---|
| **Session recorder** `rngkit-recording/src/native/writer.rs`, `manifest.rs`, `fsutil.rs`, `native/csv.rs` | directory of a session: `.bin`, `.csv`, `manifest.json`; the `SessionWriter` value (next index and offset, counts, the CSV writer's buffer) | create, commit_sample, add_overrun, finalize_completed, finalize_failed, drop | three files written in an order, any call may fail in any place, the caller may go on after an error, kills, power loss | a CSV row is the commit marker of durable bytes; what was reported stays; a failed commit leaves at most one row |
| **Collection engine** `rngkit-engine/src/runner.rs`, `cancellation.rs`, `event.rs`, `error.rs` | the running session, the token, the events the sink took | run_session | a stop request at any moment; failures of source, recorder, analysis and sink, and failures while handling them; crashes | sink, caller, manifest and disk agree; the first error is the one reported; a stop request ends the session after at most one more sample |
| **Native session reader** `native/reader.rs`, `consistency.rs` | manifest, BIN length, rows accepted | open, raw_samples | opens what another process is writing, or what a crash left | exactly committed rows and their bytes; a crash does not make a session unreadable |
| **Concatenation** `rngkit-recording/src/concatenation/*.rs` | input files, a staging directory per call, the output root | inspect_*, create_*, open_concatenation | inputs are read twice and may change; creators and strangers race for a name; crashes between the steps | a bundle under its name is whole, opens, and holds the rows that were hashed; nothing is replaced |
| **XLSX reports** `rngkit-xlsx/src/report.rs` | temporary file, destination, process-wide name counter | write_report | promotion by link and removal, races for the destination, guessable temporary names, crashes | never a partial workbook; replaced only on demand; the result agrees with what happened |
| **Legacy v3 and standalone inputs** `legacy_v3/*.rs`, `standalone.rs`, `normalized.rs` | none of its own; a call's detections and rows read so far | open_standalone, open_legacy, open_flat_legacy_concatenation | format detection, pairing of BIN and CSV that may still grow | a pair is accepted exactly if it agrees row by row; no row of a growing file is given a wrong sample |
| **Session names** `naming.rs`, `concatenation/naming.rs` | none | parse, render; a report's guess of the clock's offset | identifiers look like other parts of a name; rounding of negative differences | names read back as what they were made of, in one way; an offset shown is the right one |
| **Analysis accumulator** `rngkit-analysis/src/accumulator.rs` | two checked counters | push, snapshot | overflow half-way through a push | batch and incremental analysis agree; an error does not half-count |
| **Source registry and discovery** `rngkit-sources/src/**` | a report, an opened source | discover, open, read_bits | devices come and go between and during the calls; one backend failing among several; ambiguous selection | a report omits no device silently; open settles for no other device; samples are whole |
| **Core values** `rngkit-core/src/*.rs` | validated values | constructors | bounds, fold rules | only valid values exist; part of `Naming` |

How they interact: the engine owns one recorder, one source, one accumulator and a sink it
calls back; another thread sets the token. Readers, concatenation and reports share
nothing with a recorder but the files. Concatenation reads CSVs, possibly of a session that
is still recorded. Reports take rows a reader has already read into memory. The name of a
session, made from the descriptor of its source, is all a standalone file has for a
manifest: readers, concatenation and reports parse it.

## Modules

| Module | What it is |
|---|---|
| `SessionWriter` | the recorder under any client; the base of the next two |
| `CommitLog` | abstract: a log with at most one sample on its way |
| `Engine` | run_session; extends `SessionWriter`, whose steps it takes |
| `SessionProtocol` | abstract: what the caller of run_session is promised |
| `NativeReader` | a reader beside a `SessionWriter`, which it extends |
| `Concatenation` | creators of bundles, their inputs and the output root |
| `PublishOnce` | abstract: an artifact appears whole, once, under a free name |
| `ReportWriter` | calls that write one XLSX report |
| `Inputs` | opening files without a manifest, beside a recorder |
| `Accumulator` | the totals behind the statistics |
| `Naming` | names of sessions and bundles, offsets of clocks: operators, no state |
| `Sources` | discovery, opening and reading of sources; extends `Naming`, whose operators it calls |
| `SessionWriterProofs`, `EngineProofs`, `NativeReaderProofs`, `ConcatenationProofs`, `ReportProofs`, `InputsProofs`, `AccumulatorProofs`, `SourcesProofs` | theorems |
| `MC*` | instances for TLC |

Definitions marked `(* mutated: ... *)` are not part of a specification. Each is a
plausible slip in the code (a sync left out, a check dropped), in the shape of the
definition after it; put in its place, TLC finds the property violated that it is listed
with in `PROJECT.json`. That file also maps every definition to its source lines.

### SessionWriter

A capture is the number of the call of `commit_sample` that brought it, the BIN a sequence
of captures with a possible fragment behind it, a CSV row an index, an offset in samples
and the capture it describes. `binSynced`, `csvSynced` and `manifestsSynced` say how much
is durable; `buffer` is the user-space buffer of `csv::Writer`, which keeps a row that
could not be written and writes it again when it is dropped.

`wpc` is the point the running operation has reached: `commit_sample` is `Validate`,
`AppendBin`, `SyncBin`, `AppendCsv`, `FlushCsv`, `SyncCsv`, one for each call that may fail
or after which a crash makes a difference, each with its error return. `create` is
`CheckAbsent`, `MakeDir`, `CreateArtifacts`, `CreateManifest`. `ForeignDir` is another
process that takes the name between the check and `create_dir`. `Kill` loses the buffer;
`PowerLoss` cuts each file somewhere behind its durable part and may leave a fragment.

Assumed of the file system: a successful sync of a file makes earlier creates and renames
durable (a journal keeps their order); a sync that failed does not succeed later without
the data. A row that lacks only its newline counts as a fragment.

### Engine

`pc` is the point of `run_session_inner`, `stop` or `fail`. During `create` and `commit`
the recorder's own `wpc` advances, so stop requests and crashes fall between its file
operations as well. The clock is its two decisions: did the cycle overrun, has the
deadline of the wait passed. The accumulator succeeds or fails. `RequestCancel` is the
other thread. Errors of the sink are labelled `sink`; a stem or a local time that cannot be
made surfaces as `recording`, as in the code.

### NativeReader

`open` is `ReadManifest`, `StatBin`, `ReadRow` until the end, `ReadEnd`; `raw_samples` is
`ReadRaw`. The recorder moves between any two of them. Different captures may have the same
count of ones, so the popcount check may be passed by wrong bytes. `unreadable` stands for
whatever error a fragment at the end of the CSV causes. `raw_samples` stops at its first
error. Reading the files without the manifest is `Inputs`. A live
session is shown as interrupted like a crashed one (`manifest.rs:124`): the stored status is
all a reader has.

### Concatenation

One call is `job[c]`: it inspects the inputs (`InspectPath`, `ScanRow`, `ScanEnd`), orders
and numbers them (`Order`, `Number`), stages (`Stage`), reads every input again and copies
its rows (`CopyRow`, `CopyEnd`), syncs, writes the manifest and promotes (`Promote` looks,
`Rename` acts); `Cleanup` is the guard that removes the staging directory. A row is its
timestamp and count; what was read stands for its SHA-256, so that equal hashes mean equal
rows. `About` gives what a path's name says, its canonical file and its format: they do not
change while a call runs. All other malformations of a row are `BadRow` once files have
been rewritten. All creators run in the same second, the case in which names can collide.
Nobody syncs the output root, so `PowerLoss` may undo a promotion. What a failed removal
leaves of a staging directory is not told apart. `Rename` and the return are one step: a
kill between them leaves the same files, and a result nobody gets.

`open_concatenation` is the predicate `Opens` with `Valid` for the manifest, used in the
properties and, as in the code, by the writer on its own manifest.

### ReportWriter

A call is `Check`, `CreateTemp` (one attempt each), `WriteWorkbook`, `SyncWorkbook`, then
`Link` and `RemoveTemp` (ErrorIfExists on Unix), `Move` (on Windows) or `Replace`; `Discard` is the clean-up and
the decision between `AlreadyExists` and another error (`io` stands for all of those).
`journal` holds the states the directory went through since the last sync: a power loss may
bring back any. The rest of a temporary name, process id and clock, is the same for all
processes here, the worst case: ids are used again, and a clock before 1970 counts as 0.
Other programs have taken some temporary names beforehand (`Planted`) and may create the
destination as long as a call runs; none deletes it. `windows` is the build, the same for
all calls. `MoveFileExW` writes through and refuses a destination that is there.
`ReplaceHalf` is the documented failure of `ReplaceFileW` without a backup that leaves the
destination without a file; the call then discards its workbook, too. The third variant of
`promote_noclobber`, for neither Unix nor Windows, looks and then renames: the mutant
`LinkByRename` shows what that race can do.

### Inputs

A name is its stem (session, concatenation, neither), its family of sources and its
extension; a line is of a kind (header, row of either format, other) with the fields a
reader checks. A call goes on through `CsvSibling`, `Detect`, `ReadCurrent` or `StatCsv`,
`StatBin`, `ReadLegacy`, then `CheckPair`, or `ReadBin`, or `ReadFlat`; each opens or
measures one file, and between them the recorder may create the files (`CreateBin`,
`CreateCsv`, `WriteHeader`) and extend them (`WriteSample`, `WriteRow`), or stop and leave
part of a write behind (`StopRecording`). A file only grows at its end, so reading it up to
its end is one step. Empty lines, which all readers skip, are left out.

The model shows two things a reader of the code should know, neither of which the code
promises otherwise: a recording at work, or one a crash left with uncommitted bytes, is
refused here as corrupt while the native reader opens it; and a CSV that is created after
the look for it leaves the call with estimated samples (`EstimatedWithoutCsv` therefore
speaks of a CSV that was there when the call began).

### Accumulator

`Push` keeps the order of `push`: check, count, add, snapshot, each with its early return,
so that a total that does not fit would leave the count advanced. The widths are
constants, related only by the assumption that the totals hold every product of a full
count and a sample size (u64, u32, u128 in the code). The caller may go on after an error.

### Sources and Naming

`discover` is `Discover`, then `ListBitb`, `ListTrng` and `ListSoft`: the library calls that
list devices, and `Plug` and `Unplug` may fall between any two. `Open` covers the four
adapters with what their libraries do to find a device (`Resolve`), fail with and have
mapped (`MapBitb` and its like); `ReadBits` is `read_bits` with `enforce_len`. The libraries
are external: one answers with devices that are there, with an error although they are,
and at times a byte short. `answer` is what the last call was asked and returned, so that
an invariant can relate it to the devices of that moment. Error variants that the adapters
map to a kind already present, and cargo features that leave a family out, are not told
apart from those modelled.

A name is the sequence of tokens between its underscores. A token is a text with a number
behind it, and says whether the number has superfluous zeros; "s8" is a sample size and a
source identifier, "concat" is a mark and an identifier. `IsSession` is `SessionStem::parse`;
`IsConcat` finds a mark, deletes it, parses the rest and renders it again, as
`ConcatenationStem::parse` does; `Dispatch` is the choice of `open_standalone`. The calendar,
the 32 characters an identifier may have and the fractions of seconds are left out.
`Inferred` is the offset a report takes from the name and the first row if there is no
manifest; `Written` and `Parsed` take one through the manifest. A session is
named wherever a source is open, after that source; the other calls depend on no other
state, and `Apart`, a bound and no guard of the code, makes them only where nothing else
goes on.

## Runs

| Run | What it shows | Bounds |
|---|---|---|
| `session_writer` | types; `CsvIsBacked`, `AckedIsDurable`, `OneUnreportedRow`, `ForeignDirUntouched`, `ManifestsCountDurable`, `PoisonIsFinal`; implements `CommitLog` | 3 commits, 3 manifest versions, overruns to 1 |
| `engine` | types; `AnnouncedIsDurable`, `EventOrder`, `CompletedIsComplete`, `OutcomeAgrees`, `PrimaryErrorKept`; implements `SessionProtocol`; `CancelEndsSession` | 3 samples, 3 manifest versions, overruns to 2 |
| `native_reader` | types; `OpenedIsCommitted`, `RawsAreTheRows`, `QuietSessionOpens` | 2 commits, 2 manifest versions |
| `concat_create` | types; `PromotedIsFaithful`; implements `PublishOnce` | 2 creators (symmetric), 2 files, 2 rewrites, strangers |
| `concat_inspect` | `VerdictIsRight` | 1 creator, every list of up to 3 of 6 paths, both calls, no rewrites |
| `report_writer` | types; `DestIsWhole`, `VerdictAgrees`, `NoClobber`, `OthersTempsKept` | 3 calls in 2 processes, 4 temporary names of which one is planted, 2 attempts; both builds |
| `inputs` | types; `VerdictIsRight`, `RecordsAreBacked`, `NoRowMissed`, `EstimatedWithoutCsv` | every name and call; files of up to 3 lines and 2 samples with one thing wrong, or a recorder of 2 samples |
| `accumulator` | types; `SnapshotIsExact`, `ErrorCountsNothing` | 4 samples of 3 bits |
| `sources` | types; `SourcesAreHonest` (`ReportIsHonest`, `OpenIsHonest`, `SampleIsWhole`), `NamesAreTrue` (`NamesReadBack`, `ClockIsTrueOrAbsent`) | 3 devices of 2 families, every library error; every name of up to 6 of 8 tokens behind 3 heads; intervals of 1 and 8 seconds; 9 offsets, 8 delays, 8 acquisition times |
| `reader_live_corrupt`, `inputs_timestamp`, `report_conflict` | a statement of the repository that the code does not meet (below) | as above |

Why the bounds suffice. A commit can be affected by its own failure and by what one earlier
commit left in the buffer or in the BIN; three commits give success, failure and a try
after it in every order. The first manifest and two finalizations cover a finalization
repeated after an error. An overrun counter of 1 or 2 reaches saturation. For the reader two rows
suffice for a row before, at and after the stale length of the BIN. Two creators and a
stranger are all the parties one name can have at a time; two rewrites change an input
between and during its two readings and back again, and versions differ in length or in one
count with equal timestamps. The six paths of `concat_inspect` hold an alias, other folds,
sources, formats and sample sizes, and contents that follow, touch, overlap, decrease or
are empty; three inputs are needed because compatibility is checked against the first
input and overlap against the neighbour. Three report calls give a refusing call against a
replacing one in its own process and a refusing one in another, so that temporary names
collide by accident, by a planted file and after a restart. For `inputs` a row's fields take
the right value and one beside it, in the first and the second place; a third row tells
neighbours from ends in the order of times; the last instant is met by the second sample.
For `sources` two devices of one family make a selection ambiguous and one comes while
another goes; six tokens are one more than the longest session name, so that a mark can be
put, doubled or misplaced in any name; the tokens hold those with two meanings, a
superfluous zero and a fold out of range. Offsets are the ends of the range, half and
quarter hours and two that belong to no zone; delays and acquisition times lie at and beside
each edge of rounding and tolerance.

The runs of concatenation and reports do not check for deadlock: calls end, and nothing calls again.

**Fairness.** Only `engine` uses any: weak fairness of `EngineStep`, i.e. the engine's
thread runs on and the source returns from every read, with a sample or an error, as the
contract of `EntropySource::read_bits` has it (`rngkit-core/src/source.rs:336-343`); a read
that hangs cannot be cancelled, nor does the code say it can. Nothing forces a stop request, a crash or even the end of
an interval; `CancelEndsSession` must hold if the deadline never comes.

### Where the code and its text differ

- `TimestampRangeIsReported` (`inputs_timestamp`): `legacy_v3/bin.rs:166` makes an index
  beyond the range of timestamps an error, but line 169 adds with the `+` of
  `OffsetDateTime`, which panics first: a large interval in a BIN's name and a few dozen
  samples suffice.
- `CorruptIsReal` (`reader_live_corrupt`): `open` takes the BIN's length once, before it
  reads the rows (`native/reader.rs:49`). A sample committed in between has a row past that
  length, and a sound session is called corrupt.
- `ConflictIsWithAnother` (`report_conflict`): if the temporary name cannot be removed
  after the link, the caller is told `AlreadyExists` for the report the call itself
  published (`rngkit-xlsx/src/report.rs:663`, `253-258`).

Three more, seen while modelling and not the subject of a run:

- `rngkit-recording/README.md:39-40` demands a common source and fold of the inputs and line
  49-50 names schema 2; the format-neutral calls combine them into a mixed bundle with a
  manifest of schema 3.
- `rngkit-xlsx/src/report.rs:536-537` says that legacy rows "naturally infer UTC+00:00". They do
  if the first row came within seven and a half minutes; one of 15 minutes after the start
  gives an offset of -00:15, as the difference is again near a multiple of 900 seconds.
  `ClockIsTrueOrAbsent` speaks of delays below 450 seconds for that reason.
- `rngkit-recording/src/fsutil.rs:204-205` promises "either the previous complete file or the
  new complete file". On Windows the same `ReplaceFileW` without a backup is used as in
  reports, whose documented failures include one with the previous file gone
  (`ReplaceHalf`); what is left of a manifest then is its temporary file.

## Proofs

All theorems hold for every value of the constants under the named assumptions of the
modules (bounds are naturals; creators and calls are not called "nobody" or "stranger"; the
attributes of paths have their types, and a name has a fold exactly if its source is bitb, as
`SessionStem::parse` takes no other (`naming.rs:42-49`, `173-189`); versions are sequences of
rows; a stem's time is one an `OffsetDateTime` can hold). TLC evaluates these assumptions in
the runs.

The library states induction of an operator, which the provers cannot instantiate.
`NatInductionSet` states it of a set of naturals instead, from the least number outside the
set; a formula is proved for every length as the set of the lengths for which it holds.

- **`SessionWriterProofs`**: the type invariant, all five safety invariants, `PoisonIsFinal` and
  the refinement of `CommitLog`. `CsvIsBacked` is not inductive: a flush appends a row
  because earlier steps synced its bytes. `WriterInv` says for each point of
  `commit_sample` how far BIN, CSV and buffer may be ahead of the reported samples
  (`Progress`), that the buffer holds at most the row of the capture that is whole and
  durable in the BIN (`Buffered`), and that a fragment in the CSV means the writer is
  poisoned (`Rows`), which is why no second row can follow it. One lemma for each action,
  then one theorem for each property. The refinement maps a flush or a drop that writes the
  row to `Store`, the sync to `Report`, a power loss to `Lose` or nothing.
- **`EngineProofs`**: every step of a session is a step of the recorder under some client
  (`SessionUsesWriter`), so `WriterInv` is an invariant of every session and with it
  `CsvIsBacked` and `AckedIsDurable`. On top of it `EngineInv` ties the engine to the
  recorder: which points of the two go together (`Places`), what the sink has taken at each
  (`ToldInOrder`), that the samples and overruns it took are the recorder's but for the one
  under way (`Numbered`), that nothing lies behind the last sample wherever the engine can
  stop (`Recorded`), which manifest is visible, and that one not marked failed behind a failed session means
  that the recorder refused to mark it (`Shown`), and what the sink took last behind a
  completed one (`Farewell`). `OutcomeAgrees` needs the last two together with `Recorded`:
  it compares a result with the manifest, the rows and the events. From `EngineInv` follow the type
  invariant, `EventOrder`, `AnnouncedIsDurable`, `CompletedIsComplete`, `OutcomeAgrees` and
  `PrimaryErrorKept`. `StopIsBounded` gives each point of the engine and the recorder the
  steps that are left once a stop was requested: at most 15, each engine step uses one up
  and nothing else adds one, so no path leads back to another read.
  `SessionImplementsProtocol` is the refinement of `SessionProtocol`: the sink's accepting a SampleCommitted is `Sample`, the return is `Stop` or `Fail`, and
  everything the recorder does is a stutter.
- **`NativeReaderProofs`**: types, `OpenedIsCommitted`, `RawsAreTheRows`, `QuietSessionOpens`.
  A reader relies on two facts about what others do: while it runs, files only grow at
  their end (a power loss ends the reader, too), and once the recorder is gone they do not
  change at all (`Frozen`). Together with `WriterInv` of the recorder beside it, what was
  read stays a prefix of what is there (`Prefixes`), which is why comparing the popcount is
  never what keeps the samples right.
- **`ConcatenationProofs`**: types, `PromotedIsFaithful`, the refinement of `PublishOnce`.
  `ConcatInv` describes how far a staged CSV has come: rows of the inputs before the nth are
  those of their entries, rows after them those read so far (`Copied`, `LineOK`), output
  ranges are contiguous (`Ranges`), and a directory to be renamed is complete and synced
  (`Complete`). A creator that cleans up with "exists" found somebody there (`TurnedAway`).
  For `VerdictIsRight` a second invariant, `Verdicts`, follows each call while no input
  changes: what was inspected is fit and compatible with the first input (`Inspected`), what
  was read is the beginning of the file and ascends (`Reading`), and behind the sort the
  inputs are those of the call and can be combined (`Sorted`, `CanCombine`). Three facts
  carry it. If neighbours in the sorted order do not overlap no two inputs do, by induction
  on their distance (`NoneOverlaps`); and the order has every input in it, as it is then
  injective on a finite set (`SortingShowsOverlap`). Compatibility with the first input is
  compatibility of any two. What passed all this is accepted by the manifest's own
  validation, with any of the three schemas (`ManifestIsValid`), and the second reading ends
  with what the first one read, so neither ever turns a call away.
- **`ReportProofs`**: types, `DestIsWhole`, `VerdictAgrees`, `NoClobber`, `OthersTempsKept`.
  `RInv` says of each call that it holds the file under its temporary name and how full it
  is (`Holds`, `Filled`), where a published call stands (`Placed`), and of every state in
  the journal, not only the visible one, that its destination is durable (`DestDurable`);
  without that a power loss could bring back a bad one. A destination, once there, stays
  there on Unix only; there alone does a call rely on it after its promotion (`HasDest`).
- **`InputsProofs`**: types, `RecordsAreBacked`, `NoRowMissed`, `EstimatedWithoutCsv`,
  `VerdictIsRight`. The invariant says that the files only grew since the call began (`base`
  is a prefix), that the rows read are a prefix of the CSV's body, and what each step of the
  call has already established; then a recorder's step disturbs nothing, and a call's step
  adds one fact. As long as no file grew, `Settled` says in addition which of the conditions
  for opening each step has decided (`LegacyIsMeant`, `OpensFlat`); times that never decrease
  from row to row never decrease at all, by induction (`OrderOfTimes`), and the estimated
  times of a BIN are in range if the last one is (`LastEstimate`).
- **`AccumulatorProofs`**: types and `ErrorCountsNothing`, from `total <= count * SampleBits`:
  the total cannot overflow before the count does. `SnapshotIsExact` speaks of a fold over
  all samples ever counted: the function inside the community modules' fold is shown to
  exist for each length by induction (`AddsExists`), so the fold satisfies its equation
  (`SumEmpty`, `SumAppend`), and `TotalsAreExact` keeps the running totals equal to it.
- **`SourcesProofs`**: types, `SourcesAreHonest`, `NamesAreTrue`. `ReportInv` says that a family
  already listed accounts for its steady devices and one not yet listed for nothing. Names
  are read back by comparing tokens in place: the rest of a bundle's name without its mark
  is the session's name, a second mark can only be the source identifier "concat", and then
  deleting either leaves the same tokens. Offsets need the bounds of rounding to the nearest
  quarter, of a difference of either sign.

Only model-checked: liveness (`CancelEndsSession`), as fairness and `ENABLED` are beyond the
prover; what of it is safety, that a stopped session cannot go on for more than 15 steps, is
`StopIsBounded`. Every invariant, action property and refinement that a passing run checks is also a
theorem.

## Not modelled

- JSON, CSV syntax, calendar, texts of errors and labels, contents and layout of workbooks
  (`layout.rs`, the sheets and charts of `report.rs`): data no property tells apart.
- Windows, other than in reports: the recorder and concatenation are modelled as built for
  Unix; `fsutil.rs:216-255` and `concatenation/writer.rs:436-449` call `ReplaceFileW` and `MoveFileExW`.
- Directories that something else than the recorder wrote (hand-made manifests, paths that
  lead out of a directory, symbolic links).
- The device libraries, which are external, and a read that never returns.
- Floating-point z-scores.
- Overflow of row counts and indexes beyond 64 bits, which no recording reaches.
- File systems that do not keep the order of directory updates: the one hazard that is
  listed without a property.
- Core values are "partly" modelled: what is validated is in `Naming`, the labels
  and variants of descriptors are carried along unread.

## Plan

Done, in this order: recorder, engine, reader, concatenation, reports, inputs, accumulator,
sources and names, each with its proofs.

What a next step would be worth: `Concatenation` over the CSV of a live `SessionWriter` and
`Inputs` with it in the place of its own short recorder; the recorder's manifests on Windows.
