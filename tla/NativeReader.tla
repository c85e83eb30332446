----------------------------- MODULE NativeReader -----------------------------
(***************************************************************************)
(* rngkit_recording::NativeSession opening a session directory read-only   *)
(* in another process: after the session ended, after a crash, or while a  *)
(* SessionWriter is still at work in it.                                   *)
(*                                                                         *)
(* open reads the manifest, takes the length of the BIN once, then streams *)
(* the CSV rows; raw_samples later reads one BIN range per row and         *)
(* compares its popcount.  Different captures may have the same popcount.  *)
(***************************************************************************)
EXTENDS SessionWriter

VARIABLES
  rpc,       (* the step of the reader about to run                     *)
  status,    (* Manifest::reader_status                                 *)
  binLen,    (* samples in the BIN, and is there a part of one after it *)
  records,   (* rows accepted so far                                    *)
  result,    (* what open, then raw_samples, returned                   *)
  warned,    (* the report carries UncommittedBinaryTail                *)
  raws,      (* captures raw_samples yielded                            *)
  atOpen     (* history: the writer and its reported samples at open    *)

reader == <<rpc, status, binLen, records, result, warned, raws, atOpen>>
rvars  == <<wvars, reader>>

Ones(capture) == capture % 2

(* mutated: the stored status as it is *)
StoredStatus(s) == s

ReaderStatus(s) ==
  CASE s = "recording" -> "interrupted"
    [] OTHER           -> s

Unopened ==
  [rpc |-> "manifest", status |-> "none", binLen |-> [whole |-> 0, tail |-> "clean"],
   records |-> <<>>, result |-> "none", warned |-> FALSE, raws |-> <<>>,
   atOpen |-> [live |-> FALSE, acked |-> 0]]

RInit ==
  /\ WInit
  /\ rpc = Unopened.rpc /\ status = Unopened.status /\ binLen = Unopened.binLen
  /\ records = Unopened.records /\ result = Unopened.result
  /\ warned = Unopened.warned /\ raws = Unopened.raws /\ atOpen = Unopened.atOpen

Forget ==
  /\ rpc' = Unopened.rpc /\ status' = Unopened.status /\ binLen' = Unopened.binLen
  /\ records' = Unopened.records /\ result' = Unopened.result
  /\ warned' = Unopened.warned /\ raws' = Unopened.raws /\ atOpen' = Unopened.atOpen

Return(r) ==
  /\ rpc' = "done"
  /\ result' = r

(* Manifest::read_from, then both files are opened: they exist by then *)
ReadManifest ==
  /\ rpc = "manifest"
  /\ atOpen' = [live |-> wpc \notin Ended, acked |-> Len(acked)]
  /\ \/ /\ manifests # <<>>
        /\ status' = ReaderStatus(manifests[Len(manifests)].status)
        /\ rpc' = "stat"
        /\ UNCHANGED result
     \/ manifests = <<>> /\ Return("missing") /\ UNCHANGED status
  /\ UNCHANGED <<wvars, binLen, records, warned, raws>>

(* bin.metadata().len() *)
StatBin ==
  /\ rpc = "stat"
  /\ binLen' = [whole |-> Len(bin), tail |-> binTail]
  /\ rpc' = "rows"
  /\ UNCHANGED <<wvars, status, records, result, warned, raws, atOpen>>

(* the next row against the expected index and offset and the BIN length *)
Contiguous(row) ==
  /\ row.index = Len(records) + 1
  /\ row.offset = Len(records)

(* mutated: the last row is taken for one still being written *)
MoreButLast == Len(records) + 1 < Len(csv)

MoreRows == Len(records) < Len(csv)

ReadRow ==
  /\ rpc = "rows"
  /\ MoreRows
  /\ LET row == csv[Len(records) + 1]
     IN  \/ /\ Contiguous(row)
            /\ row.offset + 1 <= binLen.whole
            /\ records' = Append(records, row)
            /\ UNCHANGED <<rpc, result>>
         \/ /\ ~Contiguous(row) \/ row.offset + 1 > binLen.whole
            /\ Return("corrupt")
            /\ UNCHANGED records
  /\ UNCHANGED <<wvars, status, binLen, warned, raws, atOpen>>

(* mutated: whole samples only, as an integer division would count them *)
ReadEndWholeOnly ==
  /\ rpc = "rows"
  /\ ~MoreRows
  /\ \/ csvTail = "torn" /\ Return("unreadable") /\ UNCHANGED warned
     \/ /\ csvTail = "clean"
        /\ warned' = (binLen.whole > Len(records))
        /\ rpc' = "raw"
        /\ result' = "ok"
  /\ UNCHANGED <<wvars, status, binLen, records, raws, atOpen>>

(* end of the file: a fragment is no row, and fails the whole open *)
ReadEnd ==
  /\ rpc = "rows"
  /\ ~MoreRows
  /\ \/ csvTail = "torn" /\ Return("unreadable") /\ UNCHANGED warned
     \/ /\ csvTail = "clean"
        /\ warned' = (binLen.whole > Len(records) \/ binLen.tail = "torn")
        /\ rpc' = "raw"
        /\ result' = "ok"
  /\ UNCHANGED <<wvars, status, binLen, records, raws, atOpen>>

(* mutated: seeks to the end of the row's range *)
ReadRawBehind ==
  /\ rpc = "raw"
  /\ LET k == Len(raws) + 1
     IN  \/ k > Len(records) /\ rpc' = "done" /\ UNCHANGED <<result, raws>>
         \/ k \in 1 .. Len(records) /\ k >= Len(bin) /\ Return("eof") /\ UNCHANGED raws
         \/ /\ k \in 1 .. Len(records) /\ k < Len(bin)
            /\ raws' = Append(raws, bin[k + 1])
            /\ UNCHANGED <<rpc, result>>
  /\ UNCHANGED <<wvars, status, binLen, records, warned, atOpen>>

(* RawSampleIter::next *)
ReadRaw ==
  /\ rpc = "raw"
  /\ LET k == Len(raws) + 1
     IN  \/ k > Len(records) /\ rpc' = "done" /\ UNCHANGED <<result, raws>>
         \/ k \in 1 .. Len(records) /\ k > Len(bin) /\ Return("eof") /\ UNCHANGED raws
         \/ /\ k \in 1 .. Len(records) /\ k <= Len(bin)
            /\ \/ Ones(bin[k]) = Ones(records[k].sample)
                  /\ raws' = Append(raws, bin[k])
                  /\ UNCHANGED <<rpc, result>>
               \/ Ones(bin[k]) # Ones(records[k].sample)
                  /\ Return("corrupt")
                  /\ UNCHANGED raws
  /\ UNCHANGED <<wvars, status, binLen, records, warned, atOpen>>

(* open it again *)
Reopen ==
  /\ rpc = "done"
  /\ Forget
  /\ UNCHANGED wvars

ReaderStep == ReadManifest \/ StatBin \/ ReadRow \/ ReadEnd \/ ReadRaw \/ Reopen

(* the machine loses power: the reader is gone too *)
WriterStep ==
  \/ Create \/ BeginCommit \/ CommitStep
  \/ AddOverrun \/ FinalizeCompleted \/ FinalizeFailed \/ DropWriter
  \/ ForeignDir \/ Kill

RNext ==
  \/ ReaderStep
  \/ WriterStep /\ UNCHANGED reader
  \/ PowerLoss /\ Forget

RSpec == RInit /\ [][RNext]_rvars

-----------------------------------------------------------------------------
(* Properties *)

(* The type of the reader's state. *)
ReaderTypeOK ==
  /\ rpc \in {"manifest", "stat", "rows", "raw", "done"}
  /\ status \in {"none", "interrupted", "completed", "failed"}
  /\ binLen \in [whole : Nat, tail : Tails]
  /\ records \in Seq(Row)
  /\ result \in {"none", "missing", "corrupt", "unreadable", "eof", "ok"}
  /\ warned \in BOOLEAN
  /\ raws \in Seq(Capture)
  /\ atOpen \in [live : BOOLEAN, acked : Nat]

(* A session that opens shows every sample that was reported committed when  *)
(* the reader started, and nothing but committed rows.                       *)
OpenedIsCommitted ==
  result = "ok" =>
    /\ Len(records) >= atOpen.acked
    /\ \A k \in 1 .. Len(records) : records[k] = csv[k]

(* raw_samples yields the very bytes the rows describe, in order; once a     *)
(* session opened, reading its samples never fails.                          *)
RawsAreTheRows ==
  /\ \A k \in 1 .. Len(raws) : raws[k] = records[k].sample
  /\ rpc = "done" /\ raws # <<>> => result = "ok" /\ Len(raws) = Len(records)
  /\ result # "eof"

(* When nobody writes, a crash alone never makes a session unreadable: only  *)
(* an incomplete last row does, and the tail warning is given exactly when   *)
(* the BIN holds more than the rows.                                         *)
QuietSessionOpens ==
  result # "none" /\ ~atOpen.live =>
    /\ result # "corrupt"
    /\ result = "unreadable" <=> csvTail = "torn" /\ manifests # <<>>
    /\ result = "ok" => (warned <=> Len(bin) > Len(csv) \/ binTail = "torn")

(* reader.rs: "Returns Corrupt when CSV points past BIN EOF or indexes,      *)
(* offsets, lengths are not contiguous."                                     *)
CorruptIsReal == result = "corrupt" => ~CsvIsBacked

=============================================================================
