---------------------------- MODULE SessionWriter ----------------------------
(***************************************************************************)
(* The native session recorder: rngkit_recording::SessionWriter and the    *)
(* three files it owns, under a client that calls its public operations in *)
(* any order the API allows (commit again after an error, finalize twice,  *)
(* drop at any time), with I/O errors at every call, process kills and     *)
(* power loss.                                                             *)
(*                                                                         *)
(* Data abstraction.  The k-th call of commit_sample carries the bytes of  *)
(* capture k, and a capture is only its number: BIN is the sequence of the *)
(* captures appended whole, plus a flag for a partly appended one; offsets *)
(* count samples (the code's byte_offset divided by the sample size).  A   *)
(* CSV row keeps index, offset and the capture it describes.               *)
(*                                                                         *)
(* Durability.  What was written and not synced survives a process kill    *)
(* and may be lost, or torn, by a power loss.  Names of files follow the   *)
(* order of a journal: a successful sync of any file makes every earlier   *)
(* create and rename durable.                                              *)
(***************************************************************************)
EXTENDS Naturals, Sequences

CONSTANTS
  MaxCalls,      (* bound on calls of commit_sample              *)
  MaxManifests,  (* bound on versions of manifest.json           *)
  MaxOverruns    (* the width of the counter add_overrun saturates at *)

ASSUME BoundsAssumption ==
  /\ MaxCalls \in Nat
  /\ MaxManifests \in Nat \ {0}
  /\ MaxOverruns \in Nat

VARIABLES
  (* the session directory *)
  dir,             (* who created it: nobody, this writer, somebody else   *)
  bin,             (* captures whole in the .bin file                      *)
  binTail,         (* what follows them: nothing, or a part of a capture   *)
  binSynced,       (* how many of them are durable                         *)
  csv,             (* complete rows of the .csv file                       *)
  csvTail,         (* what follows them: nothing, or an incomplete row     *)
  csvSynced,       (* how many of the rows are durable                     *)
  manifests,       (* versions of manifest.json; the last one is visible   *)
  manifestsSynced, (* how many of the versions are durable                 *)
  (* the SessionWriter value *)
  wpc,             (* the point the running operation has reached          *)
  ret,             (* what the last commit or finalization returned        *)
  sample,          (* capture the running commit_sample was given          *)
  buffer,          (* rows held in csv::Writer's user-space buffer         *)
  next,            (* next_index and next_offset                           *)
  committed,
  overruns,
  (* history *)
  calls,           (* calls of commit_sample so far                        *)
  acked            (* captures commit_sample returned Ok for, in order     *)

disk    == <<dir, bin, binTail, binSynced, csv, csvTail, csvSynced,
             manifests, manifestsSynced>>
counts  == <<next, committed, overruns, acked>>
writer  == <<wpc, ret, sample, buffer, calls>>
wvars   == <<disk, counts, writer>>

Creating   == {"check", "mkdir", "artifacts", "manifest"}
Committing == {"validate", "append", "syncBin", "appendCsv", "flushCsv", "syncCsv"}
Ended      == {"closed", "dead"}   (* dropped by its owner; process gone *)

Capture == 1 .. MaxCalls

Row == [index : Nat \ {0}, offset : Nat, sample : Nat]

Tails == {"clean", "torn"}

Status == {"recording", "completed", "failed"}

Manifest == [status : Status, committed : Nat, overruns : Nat]

(* mutated: counts the sample being committed *)
VersionAhead(status) ==
  [status |-> status, committed |-> next.index, overruns |-> overruns]

Version(status) ==
  [status |-> status, committed |-> committed, overruns |-> overruns]

WInit ==
  /\ dir = "none"
  /\ bin = <<>> /\ binTail = "clean" /\ binSynced = 0
  /\ csv = <<>> /\ csvTail = "clean" /\ csvSynced = 0
  /\ manifests = <<>> /\ manifestsSynced = 0
  /\ wpc = "check" /\ ret = "none" /\ sample = 0 /\ buffer = <<>> /\ calls = 0
  /\ next = [index |-> 1, offset |-> 0]
  /\ committed = 0 /\ overruns = 0 /\ acked = <<>>

-----------------------------------------------------------------------------
(* SessionWriter::create.  A failure returns Err: there is no writer, and   *)
(* what was created stays on disk.                                          *)

CreateFails ==
  /\ wpc' = "closed"
  /\ ret' = "err"

(* dir.exists() *)
CheckAbsent ==
  /\ wpc = "check"
  /\ \/ dir = "none" /\ wpc' = "mkdir" /\ UNCHANGED ret
     \/ CreateFails
  /\ UNCHANGED <<disk, counts, sample, buffer, calls>>

(* mutated: create_dir_all, satisfied with somebody else's directory *)
MakeDirAll ==
  /\ wpc = "mkdir"
  /\ wpc' = "artifacts"
  /\ dir' = IF dir = "none" THEN "self" ELSE dir
  /\ UNCHANGED <<bin, binTail, binSynced, csv, csvTail, csvSynced, manifests,
                 manifestsSynced, counts, ret, sample, buffer, calls>>

(* fs::create_dir, which fails when the name appeared since the check *)
MakeDir ==
  /\ wpc = "mkdir"
  /\ \/ dir = "none" /\ dir' = "self" /\ wpc' = "artifacts" /\ UNCHANGED ret
     \/ CreateFails /\ UNCHANGED dir
  /\ UNCHANGED <<bin, binTail, binSynced, csv, csvTail, csvSynced, manifests,
                 manifestsSynced, counts, sample, buffer, calls>>

(* both files created new, the header row written and synced *)
CreateArtifacts ==
  /\ wpc = "artifacts"
  /\ \/ wpc' = "manifest" /\ UNCHANGED ret
     \/ CreateFails
  /\ UNCHANGED <<disk, counts, sample, buffer, calls>>

(* Manifest::write_to: temporary file, sync, rename.  The sync makes the     *)
(* previous version durable, the rename itself is durable only later.        *)
Publish(status) ==
  /\ manifests' = Append(manifests, Version(status))
  /\ manifestsSynced' = Len(manifests)

CreateManifest ==
  /\ wpc = "manifest"
  /\ \/ Publish("recording") /\ wpc' = "idle" /\ UNCHANGED ret
     \/ CreateFails /\ UNCHANGED <<manifests, manifestsSynced>>
  /\ UNCHANGED <<dir, bin, binTail, binSynced, csv, csvTail, csvSynced,
                 counts, sample, buffer, calls>>

Create == CheckAbsent \/ MakeDir \/ CreateArtifacts \/ CreateManifest

-----------------------------------------------------------------------------
(* SessionWriter::commit_sample.  Every step may return Err instead of going *)
(* on; nothing is undone.                                                    *)

ReturnErr ==
  /\ wpc' = "idle"
  /\ ret' = "err"

GoOn(step) ==
  /\ wpc' = step
  /\ UNCHANGED ret

BeginCommit ==
  /\ wpc = "idle"
  /\ calls < MaxCalls
  /\ calls' = calls + 1
  /\ sample' = calls + 1
  /\ wpc' = "validate"
  /\ ret' = "none"
  /\ UNCHANGED <<disk, counts, buffer>>

(* A complete sample, appended where the last reported one ended.  Err: a    *)
(* buffer of another length, an error of seek, bytes already at the offset.  *)
AtExpectedOffset == Len(bin) = next.offset /\ binTail = "clean"

(* mutated: appends at the end, wherever that is *)
ValidateAnywhere ==
  /\ wpc = "validate"
  /\ GoOn("append") \/ ReturnErr
  /\ UNCHANGED <<disk, counts, sample, buffer, calls>>

Validate ==
  /\ wpc = "validate"
  /\ \/ AtExpectedOffset /\ GoOn("append")
     \/ ReturnErr
  /\ UNCHANGED <<disk, counts, sample, buffer, calls>>

(* write_all may fail after a part of the bytes *)
AppendBin ==
  /\ wpc = "append"
  /\ \/ /\ bin' = Append(bin, sample)
        /\ UNCHANGED binTail
        /\ GoOn("syncBin") \/ ReturnErr
     \/ /\ binTail' \in Tails
        /\ UNCHANGED bin
        /\ ReturnErr
  /\ UNCHANGED <<dir, binSynced, csv, csvTail, csvSynced, manifests,
                 manifestsSynced, counts, sample, buffer, calls>>

(* mutated: flushed, not synced *)
SyncBinFlushOnly ==
  /\ wpc = "syncBin"
  /\ GoOn("appendCsv") \/ ReturnErr
  /\ UNCHANGED <<disk, counts, sample, buffer, calls>>

SyncBin ==
  /\ wpc = "syncBin"
  /\ \/ /\ binSynced' = Len(bin)
        /\ manifestsSynced' = Len(manifests)
        /\ GoOn("appendCsv") \/ ReturnErr
     \/ ReturnErr /\ UNCHANGED <<binSynced, manifestsSynced>>
  /\ UNCHANGED <<dir, bin, binTail, csv, csvTail, csvSynced, manifests,
                 counts, sample, buffer, calls>>

(* csv.serialize only fills the user-space buffer *)
NextRow == [index |-> next.index, offset |-> next.offset, sample |-> sample]

AppendCsv ==
  /\ wpc = "appendCsv"
  /\ \/ /\ buffer' = Append(buffer, NextRow)
        /\ GoOn("flushCsv") \/ ReturnErr
     \/ ReturnErr /\ UNCHANGED buffer
  /\ UNCHANGED <<disk, counts, sample, calls>>

(* mutated: what was written stays in the buffer *)
FlushCsvKeeps ==
  /\ wpc = "flushCsv"
  /\ csv' = csv \o buffer
  /\ GoOn("syncCsv")
  /\ UNCHANGED <<dir, bin, binTail, binSynced, csvTail, csvSynced, manifests,
                 manifestsSynced, counts, sample, buffer, calls>>

(* a failed flush may leave a part of the row in the file and keeps the      *)
(* whole row in the buffer                                                   *)
FlushCsv ==
  /\ wpc = "flushCsv"
  /\ \/ /\ csv' = csv \o buffer
        /\ buffer' = <<>>
        /\ UNCHANGED csvTail
        /\ GoOn("syncCsv")
     \/ /\ csvTail' \in {csvTail, "torn"}
        /\ UNCHANGED <<csv, buffer>>
        /\ ReturnErr
  /\ UNCHANGED <<dir, bin, binTail, binSynced, csvSynced, manifests,
                 manifestsSynced, counts, sample, calls>>

(* mutated: reported before it is synced *)
SyncCsvFlushOnly ==
  /\ wpc = "syncCsv"
  /\ next' = [index |-> next.index + 1, offset |-> next.offset + 1]
  /\ committed' = committed + 1
  /\ acked' = Append(acked, sample)
  /\ wpc' = "idle"
  /\ ret' = "ok"
  /\ UNCHANGED <<disk, overruns, sample, buffer, calls>>

SyncCsv ==
  /\ wpc = "syncCsv"
  /\ \/ /\ csvSynced' = Len(csv)
        /\ manifestsSynced' = Len(manifests)
        /\ next' = [index |-> next.index + 1, offset |-> next.offset + 1]
        /\ committed' = committed + 1
        /\ acked' = Append(acked, sample)
        /\ wpc' = "idle"
        /\ ret' = "ok"
     \/ ReturnErr /\ UNCHANGED <<csvSynced, manifestsSynced, next, committed, acked>>
  /\ UNCHANGED <<dir, bin, binTail, binSynced, csv, csvTail, manifests,
                 overruns, sample, buffer, calls>>

CommitStep ==
  Validate \/ AppendBin \/ SyncBin \/ AppendCsv \/ FlushCsv \/ SyncCsv

-----------------------------------------------------------------------------
(* add_overrun, finalize_completed, finalize_failed, drop *)

(* mutated: no saturation *)
AddOverrunUnbounded ==
  /\ wpc = "idle"
  /\ overruns' = overruns + 1
  /\ UNCHANGED <<disk, writer, next, committed, acked>>

AddOverrun ==
  /\ wpc = "idle"
  /\ overruns' = IF overruns < MaxOverruns THEN overruns + 1 ELSE overruns
  /\ UNCHANGED <<disk, writer, next, committed, acked>>

Finalize(status) ==
  /\ wpc = "idle"
  /\ Len(manifests) < MaxManifests
  /\ \/ Publish(status) /\ ret' = "ok"
     \/ ret' = "err" /\ UNCHANGED <<manifests, manifestsSynced>>
  /\ UNCHANGED <<dir, bin, binTail, binSynced, csv, csvTail, csvSynced,
                 counts, wpc, sample, buffer, calls>>

FinalizeCompleted == Finalize("completed")
FinalizeFailed    == Finalize("failed")

(* csv::Writer's Drop flushes what its buffer still holds and ignores the    *)
(* outcome; after a torn flush it writes the row again behind the fragment.  *)
DropWriter ==
  /\ wpc = "idle"
  /\ wpc' = "closed"
  /\ buffer' = <<>>
  /\ \/ csvTail = "clean" /\ csv' = csv \o buffer /\ UNCHANGED csvTail
     \/ buffer # <<>> /\ csvTail' \in {csvTail, "torn"} /\ UNCHANGED csv
     \/ csvTail = "torn" /\ UNCHANGED <<csv, csvTail>>
  /\ UNCHANGED <<dir, bin, binTail, binSynced, csvSynced, manifests,
                 manifestsSynced, counts, ret, sample, calls>>

-----------------------------------------------------------------------------
(* The environment *)

(* another process creates the directory of the same stem *)
ForeignDir ==
  /\ dir = "none"
  /\ dir' = "foreign"
  /\ UNCHANGED <<bin, binTail, binSynced, csv, csvTail, csvSynced, manifests,
                 manifestsSynced, counts, writer>>

(* the process disappears: its memory is gone, the page cache is not *)
Kill ==
  /\ wpc \notin Ended
  /\ wpc' = "dead"
  /\ buffer' = <<>>
  /\ UNCHANGED <<disk, counts, ret, sample, calls>>

(* what may be found at the end of a file that lost a part, or that was torn *)
Remains(tail, lost) == IF lost THEN Tails ELSE {"clean", tail}

(* unsynced data is lost from some point on; what remains is on disk *)
PowerLoss ==
  /\ wpc' = "dead"
  /\ buffer' = <<>>
  /\ \E b \in binSynced .. Len(bin) :
       /\ bin' = SubSeq(bin, 1, b)
       /\ binSynced' = b
       /\ binTail' \in Remains(binTail, b < Len(bin))
  /\ \E c \in csvSynced .. Len(csv) :
       /\ csv' = SubSeq(csv, 1, c)
       /\ csvSynced' = c
       /\ csvTail' \in Remains(csvTail, c < Len(csv))
  /\ \E m \in manifestsSynced .. Len(manifests) :
       /\ manifests' = SubSeq(manifests, 1, m)
       /\ manifestsSynced' = m
  /\ UNCHANGED <<dir, counts, ret, sample, calls>>

-----------------------------------------------------------------------------
WNext ==
  \/ Create
  \/ BeginCommit \/ CommitStep
  \/ AddOverrun \/ FinalizeCompleted \/ FinalizeFailed \/ DropWriter
  \/ ForeignDir \/ Kill \/ PowerLoss

WSpec == WInit /\ [][WNext]_wvars

-----------------------------------------------------------------------------
(* Properties *)

Phases == Creating \cup {"idle"} \cup Committing \cup Ended

DirOK == dir \in {"none", "self", "foreign"}

BinOK ==
  /\ bin \in Seq(Capture)
  /\ binTail \in Tails
  /\ binSynced \in 0 .. Len(bin)

CsvOK ==
  /\ csv \in Seq(Row)
  /\ csvTail \in Tails
  /\ csvSynced \in 0 .. Len(csv)

ManifestsOK ==
  /\ manifests \in Seq(Manifest)
  /\ manifestsSynced \in 0 .. Len(manifests)

WriterOK ==
  /\ wpc \in Phases
  /\ ret \in {"none", "ok", "err"}
  /\ calls \in 0 .. MaxCalls
  /\ sample \in 0 .. calls
  /\ wpc \in Committing => sample # 0
  /\ buffer \in Seq(Row)

CountsOK ==
  /\ next \in [index : Nat \ {0}, offset : Nat]
  /\ committed \in Nat
  /\ overruns \in 0 .. MaxOverruns
  /\ acked \in Seq(Capture)

(* The type of the recorder's state. *)
TypeOK == DirOK /\ BinOK /\ CsvOK /\ ManifestsOK /\ WriterOK /\ CountsOK

(* The CSV row is the commit marker of its raw range: whatever happened -    *)
(* errors, kills, power loss, commits tried again - the rows in the file are *)
(* contiguous, and the BIN durably holds the bytes each row describes.       *)
CsvIsBacked ==
  \A k \in 1 .. Len(csv) :
    /\ k <= binSynced
    /\ csv[k] = [index |-> k, offset |-> k - 1, sample |-> bin[k]]

(* A sample commit_sample returned Ok for stays on disk, in its place, in    *)
(* the durable part of the CSV.                                              *)
AckedIsDurable ==
  /\ Len(acked) <= csvSynced
  /\ \A k \in 1 .. Len(acked) : csv[k].sample = acked[k]

(* A commit that returned Err (or never returned) leaves at most one row     *)
(* nobody was told of, whole or torn, never both and never a second one.     *)
OneUnreportedRow ==
  Len(csv) + Len(buffer) + (IF csvTail = "torn" /\ buffer = <<>> THEN 1 ELSE 0)
    <= Len(acked) + 1

(* A directory somebody else created under the same stem is left alone.      *)
ForeignDirUntouched ==
  dir = "foreign" => bin = <<>> /\ binTail = "clean" /\ csv = <<>> /\ manifests = <<>>

(* Every manifest version counts only samples that are durable, and later    *)
(* versions never count fewer samples or overruns.                           *)
ManifestsCountDurable ==
  /\ \A i \in 1 .. Len(manifests) : manifests[i].committed <= csvSynced
  /\ \A i, j \in 1 .. Len(manifests) :
       i < j => /\ manifests[i].committed <= manifests[j].committed
                /\ manifests[i].overruns <= manifests[j].overruns

(* Once a failed commit left bytes behind the last reported sample, the      *)
(* writer never appends to the BIN and never reports a sample again.         *)
Poisoned == wpc \in {"idle", "validate"} /\ ~AtExpectedOffset

PoisonIsFinal ==
  [][Poisoned => /\ acked' = acked
                 /\ wpc' \in {"idle", "validate"} => Poisoned'
                 /\ wpc' \in {"idle", "validate"} \cup Ended]_wvars

(* The recorder implements the log, read through the rows of its CSV.        *)
Stored == [k \in 1 .. Len(csv) |-> csv[k].sample]

Log == INSTANCE CommitLog
         WITH Value <- Capture, stored <- Stored, reported <- acked

ImplementsCommitLog == Log!LSpec

=============================================================================
