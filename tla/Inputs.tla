------------------------------- MODULE Inputs --------------------------------
(***************************************************************************)
(* Opening recorded files without a manifest: open_standalone, open_legacy *)
(* and open_flat_legacy_concatenation of rngkit_recording.  A call looks   *)
(* at the two files of one stem, the CSV and the BIN, in several steps     *)
(* (is there a sibling, which format, the rows, the samples); meanwhile a  *)
(* native recorder may be creating and extending them.                     *)
(*                                                                         *)
(* Files that change only grow at their end, so reading one to its end is  *)
(* one step, at the moment the end is met; and the header seen once is     *)
(* seen again when the file is reopened.  Offsets count samples, a BIN is  *)
(* the sequence of the one-counts of its samples.  Lines no reader takes   *)
(* for a row (torn, foreign, with a bad field or a wrong byte length) are  *)
(* all "other"; empty lines, which every reader skips, are left out.       *)
(***************************************************************************)
EXTENDS Integers, Sequences

CONSTANTS
  CsvFiles, BinFiles,  (* what a call may find when no recorder is at work *)
  MaxOnes,             (* sample_bits of the stem                          *)
  Start, Interval,     (* of the stem, in ticks                            *)
  LastTime,            (* the last instant OffsetDateTime can represent    *)
  MaxSamples           (* bound on the samples the recorder takes          *)

Kinds == {"header", "badHeader", "current", "legacy", "other"}

Line == [kind : Kinds, index : Nat, offset : Nat, ones : Nat, time : Int]

CsvFile == [there : BOOLEAN, lines : Seq(Line)]
BinFile == [there : BOOLEAN, ones : Seq(Nat), tail : {"clean", "torn"}]

ASSUME InputsAssumption ==
  /\ CsvFiles \subseteq CsvFile
  /\ \A file \in CsvFiles : ~file.there => file.lines = <<>>
  /\ BinFiles \subseteq BinFile
  /\ MaxOnes \in Nat /\ MaxSamples \in Nat
  /\ Start \in Int /\ Interval \in Nat \ {0} /\ LastTime \in Int
  /\ Start <= LastTime   (* an OffsetDateTime, parsed from the stem *)

VARIABLES
  csv, bin,   (* the files of the stem                                    *)
  recorder,   (* "none" ever, "recording" into them, "stopped" doing so    *)
  pc,         (* the step of the call about to run                        *)
  call,       (* the function called and what the path's name says        *)
  seen,       (* open_legacy: which of the two files is_file found        *)
  rows,       (* records made of the CSV                                  *)
  answer,     (* what the call returned                                   *)
  base,       (* history: the CSV when the call began                     *)
  grew        (* history: the files changed since then                    *)

files  == <<csv, bin, recorder>>
reader == <<pc, call, seen, rows, answer, base>>
vars   == <<files, reader, grew>>

Ops   == {"standalone", "legacy", "flat"}
Stems == {"session", "concat", "invalid"}
(* bitb, trng and pseudo; rdseed; any other valid source identifier *)
Sources == {"historic", "rdseed", "unknown"}
Exts  == {"csv", "bin", "none", "other"}
Name  == [stem : Stems, source : Sources, ext : Exts]

Record == [ones : Nat, time : Int]

NoCsv == [there |-> FALSE, lines |-> <<>>]
NoBin == [there |-> FALSE, ones |-> <<>>, tail |-> "clean"]
NoAnswer == [result |-> "none", records |-> <<>>, provenance |-> "none",
             paired |-> FALSE]
NoCall == [op |-> "standalone",
           name |-> [stem |-> "session", source |-> "historic", ext |-> "csv"]]

Init ==
  /\ \/ csv \in CsvFiles /\ bin \in BinFiles /\ recorder = "none"
     \/ csv = NoCsv /\ bin = NoBin /\ recorder = "recording"
  /\ pc = "idle" /\ call = NoCall
  /\ seen = [csv |-> FALSE, bin |-> FALSE]
  /\ rows = <<>> /\ answer = NoAnswer /\ base = csv /\ grew = FALSE

-----------------------------------------------------------------------------
(* What the readers accept *)

(* detect_csv_format; an empty file counts as legacy *)
Format(lines) ==
  CASE lines # <<>> /\ lines[1].kind = "header"    -> "current"
    [] lines # <<>> /\ lines[1].kind = "badHeader" -> "invalid"
    [] OTHER                                       -> "legacy"

(* mutated: offsets are not checked *)
CurrentRowNoOffset(line, k) ==
  line.kind = "current" /\ line.index = k /\ line.ones <= MaxOnes

CurrentRow(line, k) ==
  /\ line.kind = "current"
  /\ line.index = k
  /\ line.offset = k - 1
  /\ line.ones <= MaxOnes

(* mutated: a count up to and including the next size *)
LegacyRowLoose(line) == line.kind = "legacy" /\ line.ones <= MaxOnes + 1

LegacyRow(line) == line.kind = "legacy" /\ line.ones <= MaxOnes

RecordOf(line) == [ones |-> line.ones, time |-> line.time]

(* validate_current_source and validate_legacy_source *)
CurrentSource(name) == name.source \in {"historic", "rdseed"}
LegacySource(name)  == name.source = "historic"

-----------------------------------------------------------------------------
(* Steps of a call *)

Answered(a) ==
  /\ pc' = "done"
  /\ answer' = a

Fail(error) == Answered([NoAnswer EXCEPT !.result = error])

Opened(records, provenance, paired) ==
  Answered([result |-> "ok", records |-> records, provenance |-> provenance,
            paired |-> paired])

GoOn(step) ==
  /\ pc' = step
  /\ UNCHANGED answer

GoOnIf(condition, step, error) ==
  \/ condition /\ GoOn(step)
  \/ ~condition /\ Fail(error)

(* a recorder's files have the name of a session *)
Begin(op) ==
  /\ pc = "idle"
  /\ \E name \in Name :
       /\ recorder # "none" => name.stem = "session"
       /\ call' = [op |-> op, name |-> name]
  /\ base' = csv
  /\ UNCHANGED <<files, seen, rows>>
  /\ grew' = FALSE

IsFlat(name) == name.stem = "concat" /\ name.ext = "csv"

BeginFlat(name) == GoOnIf(LegacySource(name), "flat", "source")

CallStandalone ==
  /\ Begin("standalone")
  /\ LET name == call'.name
     IN  \/ IsFlat(name) /\ BeginFlat(name)
         \/ /\ ~IsFlat(name)
            /\ name.stem # "session" \/ name.ext \notin {"csv", "bin"}
            /\ Fail("name")
         \/ name.stem = "session" /\ name.ext = "csv" /\ GoOn("detect")
         \/ name.stem = "session" /\ name.ext = "bin" /\ GoOn("csvSibling")

(* an extension that is none of the two stays a part of the stem *)
CallLegacy ==
  /\ Begin("legacy")
  /\ LET name == call'.name
     IN  \/ /\ name.stem # "session" \/ name.ext = "other"
            /\ Fail("name")
         \/ /\ name.stem = "session" /\ name.ext # "other"
            /\ GoOnIf(LegacySource(name), "statCsv", "source")

CallFlat ==
  /\ Begin("flat")
  /\ LET name == call'.name
     IN  \/ ~IsFlat(name) /\ Fail("name")
         \/ IsFlat(name) /\ BeginFlat(name)

(* mutated: a BIN is read on its own whatever lies beside it *)
CsvSiblingIgnored ==
  /\ pc = "csvSibling"
  /\ GoOnIf(CurrentSource(call.name), "bin", "source")
  /\ UNCHANGED <<files, call, seen, rows, base, grew>>

(* open_bin_standalone: a CSV beside the BIN is opened in its place *)
CsvSibling ==
  /\ pc = "csvSibling"
  /\ \/ csv.there /\ GoOn("detect")
     \/ ~csv.there /\ GoOnIf(CurrentSource(call.name), "bin", "source")
  /\ UNCHANGED <<files, call, seen, rows, base, grew>>

Detect ==
  /\ pc = "detect"
  /\ \/ ~csv.there /\ Fail("io")
     \/ csv.there /\ Format(csv.lines) = "invalid" /\ Fail("header")
     \/ /\ csv.there /\ Format(csv.lines) = "current"
        /\ GoOnIf(CurrentSource(call.name), "current", "source")
     \/ /\ csv.there /\ Format(csv.lines) = "legacy"
        /\ GoOnIf(LegacySource(call.name), "statCsv", "source")
  /\ UNCHANGED <<files, call, seen, rows, base, grew>>

(* mutated: the last row is taken for one still being written *)
ReadCurrentButLast ==
  /\ pc = "current"
  /\ rows' = [k \in 1 .. Len(csv.lines) - 2 |-> RecordOf(csv.lines[k + 1])]
  /\ GoOn("pair")
  /\ UNCHANGED <<files, call, seen, base, grew>>

(* read_current_csv *)
ReadCurrent ==
  /\ pc = "current"
  /\ LET n == Len(csv.lines) - 1
     IN  \/ /\ \A k \in 1 .. n : CurrentRow(csv.lines[k + 1], k)
            /\ rows' = [k \in 1 .. n |-> RecordOf(csv.lines[k + 1])]
            /\ GoOn("pair")
         \/ /\ \E k \in 1 .. n : ~CurrentRow(csv.lines[k + 1], k)
            /\ Fail("malformed")
            /\ UNCHANGED rows
  /\ UNCHANGED <<files, call, seen, base, grew>>

(* open_legacy: is_file of the one, then of the other *)
StatCsv ==
  /\ pc = "statCsv"
  /\ seen' = [csv |-> csv.there, bin |-> FALSE]
  /\ GoOn("statBin")
  /\ UNCHANGED <<files, call, rows, base, grew>>

StatBin ==
  /\ pc = "statBin"
  /\ seen' = [seen EXCEPT !.bin = bin.there]
  /\ \/ seen.csv /\ GoOn("legacy")
     \/ ~seen.csv /\ GoOnIf(bin.there, "bin", "name")
  /\ UNCHANGED <<files, call, rows, base, grew>>

(* read_legacy_csv and records_from_csv *)
ReadLegacy ==
  /\ pc = "legacy"
  /\ LET n == Len(csv.lines)
         records == [k \in 1 .. n |-> RecordOf(csv.lines[k])]
     IN  \/ /\ \A k \in 1 .. n : LegacyRow(csv.lines[k])
            /\ rows' = records
            /\ \/ seen.bin /\ GoOn("pair")
               \/ ~seen.bin /\ Opened(records, "recorded", FALSE)
         \/ /\ \E k \in 1 .. n : ~LegacyRow(csv.lines[k])
            /\ Fail("malformed")
            /\ UNCHANGED rows
  /\ UNCHANGED <<files, call, seen, base, grew>>

(* mutated: counts are compared, contents are not *)
SameCountOnly == bin.tail = "clean" /\ Len(bin.ones) = Len(rows)

(* mutated: the BIN may hold more than the rows *)
EnoughSamples ==
  /\ bin.tail = "clean"
  /\ Len(bin.ones) >= Len(rows)
  /\ \A k \in 1 .. Len(rows) : bin.ones[k] = rows[k].ones

(* LegacyBinReader::open and read_next: whole samples, as many as rows, with *)
(* their counts; indexes and offsets of the rows are contiguous by now       *)
SameSamples ==
  /\ bin.tail = "clean"
  /\ Len(bin.ones) = Len(rows)
  /\ \A k \in 1 .. Len(rows) : bin.ones[k] = rows[k].ones

(* validate_bin_pair and the second half of paired_records *)
CheckPair ==
  /\ pc = "pair"
  /\ \/ ~bin.there /\ Opened(rows, "recorded", FALSE)
     \/ bin.there /\ SameSamples /\ Opened(rows, "recorded", TRUE)
     \/ bin.there /\ ~SameSamples /\ Fail("corrupt")
  /\ UNCHANGED <<files, call, seen, rows, base, grew>>

(* mutated: one interval late *)
EstimatedLate(k) == Start + Interval * k

Estimated(k) == Start + Interval * (k - 1)

(* records_from_bin; adding beyond the last instant panics *)
ReadBin ==
  /\ pc = "bin"
  /\ LET n == Len(bin.ones)
     IN  \/ ~bin.there /\ Fail("io")
         \/ bin.there /\ bin.tail = "torn" /\ Fail("corrupt")
         \/ /\ bin.there /\ bin.tail = "clean"
            /\ \/ /\ \E k \in 1 .. n : Estimated(k) > LastTime
                  /\ Fail("panic")
               \/ /\ \A k \in 1 .. n : Estimated(k) <= LastTime
                  /\ Opened([k \in 1 .. n |-> [ones |-> bin.ones[k],
                                               time |-> Estimated(k)]],
                            "estimated", FALSE)
  /\ UNCHANGED <<files, call, seen, rows, base, grew>>

(* mutated: only the ends are compared *)
EndsInOrder(lines) == lines[1].time <= lines[Len(lines)].time

NotDecreasing(lines) ==
  \A k \in 1 .. Len(lines) - 1 : lines[k].time <= lines[k + 1].time

(* open_flat_legacy_concatenation; nobody extends a file of such a name *)
ReadFlat ==
  /\ pc = "flat"
  /\ LET lines == csv.lines
         readable == \A k \in 1 .. Len(lines) : LegacyRow(lines[k])
     IN  \/ ~csv.there /\ Fail("io")
         \/ csv.there /\ Format(lines) \in {"current", "invalid"} /\ Fail("header")
         \/ /\ csv.there /\ Format(lines) = "legacy"
            /\ \/ ~readable /\ Fail("malformed")
               \/ readable /\ lines = <<>> /\ Fail("empty")
               \/ /\ readable /\ lines # <<>> /\ ~NotDecreasing(lines)
                  /\ Fail("decreasing")
               \/ /\ readable /\ lines # <<>> /\ NotDecreasing(lines)
                  /\ Opened([k \in 1 .. Len(lines) |-> RecordOf(lines[k])],
                            "recorded", FALSE)
  /\ UNCHANGED <<files, call, seen, rows, base, grew>>

Again ==
  /\ pc = "done"
  /\ pc' = "idle"
  /\ call' = NoCall /\ seen' = [csv |-> FALSE, bin |-> FALSE]
  /\ rows' = <<>> /\ answer' = NoAnswer
  /\ UNCHANGED <<files, base, grew>>

-----------------------------------------------------------------------------
(* The recorder: both files created, then one sample and its row at a time *)

Recording ==
  /\ recorder = "recording"
  /\ grew' = TRUE
  /\ UNCHANGED reader

CreateBin ==
  /\ Recording
  /\ ~bin.there
  /\ bin' = [bin EXCEPT !.there = TRUE]
  /\ UNCHANGED <<csv, recorder>>

CreateCsv ==
  /\ Recording
  /\ bin.there /\ ~csv.there
  /\ csv' = [csv EXCEPT !.there = TRUE]
  /\ UNCHANGED <<bin, recorder>>

Header == [kind |-> "header", index |-> 0, offset |-> 0, ones |-> 0, time |-> 0]
Torn   == [Header EXCEPT !.kind = "other"]

WriteHeader ==
  /\ Recording
  /\ csv.there /\ csv.lines = <<>>
  /\ csv' = [csv EXCEPT !.lines = <<Header>>]
  /\ UNCHANGED <<bin, recorder>>

RowsWritten == Len(csv.lines) - 1

WriteSample ==
  /\ Recording
  /\ csv.lines # <<>> /\ Len(bin.ones) = RowsWritten
  /\ RowsWritten < MaxSamples
  /\ \E n \in 0 .. MaxOnes : bin' = [bin EXCEPT !.ones = Append(bin.ones, n)]
  /\ UNCHANGED <<csv, recorder>>

(* mutated: the offset of the sample before *)
WriteRowBehind ==
  /\ Recording
  /\ csv.lines # <<>> /\ Len(bin.ones) = RowsWritten + 1
  /\ LET k == Len(bin.ones)
     IN  csv' = [csv EXCEPT !.lines = Append(csv.lines,
                   [kind |-> "current", index |-> k, offset |-> k - 2,
                    ones |-> bin.ones[k], time |-> k])]
  /\ UNCHANGED <<bin, recorder>>

WriteRow ==
  /\ Recording
  /\ csv.lines # <<>> /\ Len(bin.ones) = RowsWritten + 1
  /\ LET k == Len(bin.ones)
     IN  csv' = [csv EXCEPT !.lines = Append(csv.lines,
                   [kind |-> "current", index |-> k, offset |-> k - 1,
                    ones |-> bin.ones[k], time |-> k])]
  /\ UNCHANGED <<bin, recorder>>

(* it ends, or a write or a crash ends it: a part of what it was writing may *)
(* remain                                                                    *)
StopRecording ==
  /\ Recording
  /\ recorder' = "stopped"
  /\ \/ UNCHANGED <<csv, bin>>
     \/ /\ csv.there /\ csv.lines = <<>>
        /\ \E kind \in {"badHeader", "other"} :
             csv' = [csv EXCEPT !.lines = <<[Header EXCEPT !.kind = kind]>>]
        /\ UNCHANGED bin
     \/ /\ csv.lines # <<>> /\ Len(bin.ones) = RowsWritten
        /\ bin' = [bin EXCEPT !.tail = "torn"]
        /\ UNCHANGED csv
     \/ /\ csv.lines # <<>> /\ Len(bin.ones) = RowsWritten + 1
        /\ csv' = [csv EXCEPT !.lines = Append(csv.lines, Torn)]
        /\ UNCHANGED bin

-----------------------------------------------------------------------------
ReaderStep ==
  \/ CallStandalone \/ CallLegacy \/ CallFlat
  \/ CsvSibling \/ Detect \/ ReadCurrent \/ StatCsv \/ StatBin \/ ReadLegacy
  \/ CheckPair \/ ReadBin \/ ReadFlat \/ Again

RecorderStep ==
  CreateBin \/ CreateCsv \/ WriteHeader \/ WriteSample \/ WriteRow \/ StopRecording

Next == ReaderStep \/ RecorderStep

Spec == Init /\ [][Next]_vars

-----------------------------------------------------------------------------
(* Properties *)

CsvOK == csv \in CsvFile
BinOK == bin \in BinFile

(* The type of the files and of the call.                                    *)
TypeOK ==
  /\ CsvOK /\ BinOK
  /\ recorder \in {"none", "recording", "stopped"}
  /\ pc \in {"idle", "csvSibling", "detect", "current", "statCsv", "statBin",
             "legacy", "pair", "bin", "flat", "done"}
  /\ call \in [op : Ops, name : Name]
  /\ seen \in [csv : BOOLEAN, bin : BOOLEAN]
  /\ rows \in Seq(Record)
  /\ answer \in [result : {"none", "ok", "name", "source", "io", "header",
                           "malformed", "corrupt", "empty", "decreasing", "panic"},
                 records : Seq(Record),
                 provenance : {"none", "recorded", "estimated"},
                 paired : BOOLEAN]
  /\ base \in CsvFile
  /\ grew \in BOOLEAN

(* the rows of a CSV, without its header *)
Body(lines) == IF Format(lines) = "current" THEN Tail(lines) ELSE lines

SoundBody(lines) ==
  LET body == Body(lines)
      IsRow(k) == IF Format(lines) = "current"
                  THEN body[k].kind = "current" /\ body[k].index = k
                         /\ body[k].offset = k - 1
                  ELSE body[k].kind = "legacy"
  IN  \A k \in DOMAIN body : IsRow(k) /\ body[k].ones <= MaxOnes

(* What should open, said of the two files at once: a flat concatenation if  *)
(* its rows are sound and in order; a session if its CSV is sound and equal  *)
(* to the BIN, where there is one, whichever of the two the path names; or a *)
(* BIN of whole samples that is alone.                                       *)
ShouldOpenFlat ==
  /\ IsFlat(call.name) /\ call.op # "legacy"
  /\ call.name.source = "historic"
  /\ csv.there /\ Format(csv.lines) = "legacy" /\ SoundBody(csv.lines)
  /\ csv.lines # <<>>
  /\ \A i, j \in DOMAIN csv.lines : i < j => csv.lines[i].time <= csv.lines[j].time

ShouldOpenSession ==
  LET name == call.name
      old  == call.op = "legacy" \/ (csv.there /\ Format(csv.lines) = "legacy")
  IN  /\ call.op # "flat" /\ name.stem = "session"
      /\ name.ext \in {"csv", "bin"} \/ (call.op = "legacy" /\ name.ext = "none")
      /\ name.source = "historic" \/ (name.source = "rdseed" /\ ~old)
      /\ \/ /\ csv.there /\ SoundBody(csv.lines)
            /\ Format(csv.lines) = IF old THEN "legacy" ELSE "current"
            /\ bin.there => /\ bin.tail = "clean"
                            /\ bin.ones = [k \in DOMAIN Body(csv.lines) |->
                                             Body(csv.lines)[k].ones]
         \/ /\ ~csv.there /\ bin.there /\ bin.tail = "clean"
            /\ call.op = "standalone" => name.ext = "bin"
            /\ Start + (Len(bin.ones) - 1) * Interval <= LastTime

RightRecords ==
  IF csv.there
  THEN [k \in DOMAIN Body(csv.lines) |-> [ones |-> Body(csv.lines)[k].ones,
                                          time |-> Body(csv.lines)[k].time]]
  ELSE [k \in DOMAIN bin.ones |-> [ones |-> bin.ones[k],
                                   time |-> Start + (k - 1) * Interval]]

(* Files that do not change during a call open exactly if they should, and   *)
(* the records are those of the CSV, or of a BIN that is alone.              *)
VerdictIsRight ==
  pc = "done" /\ ~grew =>
    /\ answer.result = "ok" <=> ShouldOpenFlat \/ ShouldOpenSession
    /\ answer.result = "ok" =>
         /\ answer.records = RightRecords
         /\ answer.provenance = IF csv.there THEN "recorded" ELSE "estimated"

(* Recorded records are the first rows of the CSV; if the call compared them *)
(* with a BIN, the BIN holds a sample with that count for each: also when    *)
(* both files grew while the call read first one, then the other.            *)
RecordsAreBacked ==
  answer.provenance = "recorded" =>
    /\ Len(answer.records) <= Len(Body(csv.lines))
    /\ \A k \in 1 .. Len(answer.records) :
         /\ answer.records[k].ones = Body(csv.lines)[k].ones
         /\ answer.records[k].time = Body(csv.lines)[k].time
         /\ answer.paired => /\ k <= Len(bin.ones)
                             /\ bin.ones[k] = answer.records[k].ones

(* A call that opens shows every row the CSV had when the call began.        *)
NoRowMissed ==
  answer.result = "ok" => Len(answer.records) >= Len(Body(base.lines))

(* Samples get estimated times, and may be ones no row was written for, only *)
(* if there was no CSV when the call began, not when it is about to appear   *)
(* or is looked for at the wrong moment.                                     *)
EstimatedWithoutCsv == answer.provenance = "estimated" => ~base.there

(* bin.rs: an index that leads out of the range of timestamps is an error,   *)
(* "sample index exceeds timestamp range".                                   *)
TimestampRangeIsReported == answer.result # "panic"

=============================================================================
