-------------------------- MODULE NativeReaderProofs --------------------------
(***************************************************************************)
(* A reader beside a recorder, for every length of the session: what it    *)
(* read is a prefix of files that only grow while it runs (power loss ends *)
(* the reader too), and files nobody writes to do not change under it.     *)
(***************************************************************************)
EXTENDS NativeReader, SessionWriterProofs

(* Every step of the system is a step of the recorder or leaves it alone.    *)
LEMMA ReaderStepsWriter == [RNext]_rvars => [WNext]_wvars
<1> SUFFICES ASSUME [RNext]_rvars PROVE [WNext]_wvars
  OBVIOUS
<1>1. CASE ReaderStep
  BY <1>1 DEF ReaderStep, ReadManifest, StatBin, ReadRow, ReadEnd, ReadRaw, Reopen
<1>2. CASE WriterStep \/ PowerLoss
  BY <1>2 DEF WriterStep, WNext
<1>3. CASE UNCHANGED rvars
  BY <1>3 DEF rvars
<1> QED BY <1>1, <1>2, <1>3 DEF RNext

-----------------------------------------------------------------------------
(* The files under a reader *)

Files == <<bin, binTail, csv, csvTail, manifests, acked, wpc>>

Longer(s, t) == Len(s) <= Len(t) /\ \A k \in 1 .. Len(s) : t[k] = s[k]

Grown == Longer(bin, bin') /\ Longer(csv, csv') /\ Len(acked) <= Len(acked')

LEMMA FilesGrow ==
  ASSUME WriterInv, WriterStep \/ UNCHANGED wvars
  PROVE  Grown
<1>1. /\ bin \in Seq(Capture) /\ csv \in Seq(Row) /\ buffer \in Seq(Row)
      /\ acked \in Seq(Capture)
      /\ Len(bin) \in Nat /\ Len(csv) \in Nat /\ Len(acked) \in Nat
  BY Lengths DEF WriterInv, TypeOK, BinOK, CsvOK, WriterOK, CountsOK
<1>2. wpc \in Committing => sample \in Capture
  BY DEF WriterInv, Core, Progress
<1>3. Longer(bin, bin')
  <2>1. CASE bin' = Append(bin, sample) /\ wpc \in Committing
    <3>1. /\ Len(bin') = Len(bin) + 1
          /\ \A k \in 1 .. Len(bin) : bin'[k] = bin[k]
      BY <1>1, <1>2, <2>1, AppendProperties
    <3> QED BY <1>1, <3>1 DEF Longer
  <2>2. CASE UNCHANGED bin
    BY <1>1, <2>2 DEF Longer
  <2>3. UNCHANGED bin \/ (bin' = Append(bin, sample) /\ wpc \in Committing)
    BY DEF WriterStep, wvars, disk, Create, CheckAbsent, MakeDir, CreateArtifacts,
           CreateManifest, BeginCommit, CommitStep, Validate, AppendBin, SyncBin, AppendCsv,
           FlushCsv, SyncCsv, AddOverrun, FinalizeCompleted, FinalizeFailed, Finalize,
           DropWriter, ForeignDir, Kill, Committing
  <2> QED BY <2>1, <2>2, <2>3
<1>4. Longer(csv, csv')
  <2>1. CASE csv' = csv \o buffer
    <3>1. CASE buffer = <<>>
      BY <1>1, <2>1, <3>1, ConcatEmptySeq DEF Longer
    <3>2. CASE Len(buffer) = 1
      BY <1>1, <2>1, <3>2, ConcatOne DEF Longer
    <3> QED BY <3>1, <3>2 DEF WriterInv, Core, Buffered
  <2>2. CASE UNCHANGED csv
    BY <1>1, <2>2 DEF Longer
  <2>3. UNCHANGED csv \/ csv' = csv \o buffer
    BY DEF WriterStep, wvars, disk, Create, CheckAbsent, MakeDir, CreateArtifacts,
           CreateManifest, BeginCommit, CommitStep, Validate, AppendBin, SyncBin, AppendCsv,
           FlushCsv, SyncCsv, AddOverrun, FinalizeCompleted, FinalizeFailed, Finalize,
           DropWriter, ForeignDir, Kill
  <2> QED BY <2>1, <2>2, <2>3
<1>5. Len(acked) <= Len(acked')
  <2>1. CASE acked' = Append(acked, sample) /\ wpc \in Committing
    BY <1>1, <1>2, <2>1, AppendProperties
  <2>2. CASE UNCHANGED acked
    BY <1>1, <2>2
  <2>3. UNCHANGED acked \/ (acked' = Append(acked, sample) /\ wpc \in Committing)
    BY DEF WriterStep, wvars, counts, Create, CheckAbsent, MakeDir, CreateArtifacts,
           CreateManifest, BeginCommit, CommitStep, Validate, AppendBin, SyncBin, AppendCsv,
           FlushCsv, SyncCsv, AddOverrun, FinalizeCompleted, FinalizeFailed, Finalize,
           DropWriter, ForeignDir, Kill, Committing
  <2> QED BY <2>1, <2>2, <2>3
<1> QED BY <1>3, <1>4, <1>5 DEF Grown

(* once the recorder is gone nothing changes but by power loss *)
LEMMA FilesRest ==
  ASSUME wpc \in Ended, WriterStep \/ UNCHANGED wvars
  PROVE  UNCHANGED Files
BY DEF Files, Ended, WriterStep, wvars, disk, counts, writer, Create, CheckAbsent, MakeDir,
       CreateArtifacts, CreateManifest, BeginCommit, CommitStep, Validate, AppendBin, SyncBin,
       AppendCsv, FlushCsv, SyncCsv, AddOverrun, FinalizeCompleted, FinalizeFailed, Finalize,
       DropWriter, ForeignDir, Kill

-----------------------------------------------------------------------------
(* The inductive invariant *)

(* What was read so far *)
Prefixes ==
  /\ Longer(records, csv)
  /\ Len(records) <= binLen.whole /\ binLen.whole <= Len(bin)
  /\ Len(raws) <= Len(records)
  /\ \A k \in 1 .. Len(raws) : raws[k] = records[k].sample
  /\ atOpen.acked <= Len(acked)

(* What the reader may say where it is *)
Said ==
  /\ rpc \in {"manifest", "stat", "rows"} => result = "none" /\ raws = <<>>
  /\ rpc \in {"manifest", "stat"} => records = <<>>
  /\ rpc = "raw" => result = "ok"
  /\ rpc = "done" => result # "none"
  /\ rpc = "done" /\ raws # <<>> => result = "ok" /\ Len(raws) = Len(records)
  /\ result = "ok" => Len(records) >= atOpen.acked
  /\ result # "eof"

(* A reader that came when the recorder was gone *)
Quiet == rpc # "manifest" /\ ~atOpen.live

Frozen ==
  Quiet =>
    /\ wpc \in Ended
    /\ rpc \in {"rows", "raw"} \/ (rpc = "done" /\ result # "missing") =>
         binLen.whole = Len(bin) /\ binLen.tail = binTail
    /\ rpc \in {"stat", "rows", "raw"} => manifests # <<>>
    /\ rpc = "done" => (result = "missing" <=> manifests = <<>>)
    /\ result # "corrupt"
    /\ result = "unreadable" => csvTail = "torn"
    /\ result = "ok" => /\ csvTail = "clean" /\ Len(records) = Len(csv)
                        /\ warned <=> Len(bin) > Len(csv) \/ binTail = "torn"

ReaderInv == WriterInv /\ ReaderTypeOK /\ Prefixes /\ Said /\ Frozen

Fresh ==
  /\ rpc = "manifest" /\ status = "none"
  /\ binLen = [whole |-> 0, tail |-> "clean"]
  /\ records = <<>> /\ result = "none" /\ warned = FALSE /\ raws = <<>>
  /\ atOpen = [live |-> FALSE, acked |-> 0]

LEMMA FreshReader == WriterInv /\ Fresh => ReaderInv
<1> SUFFICES ASSUME WriterInv, Fresh PROVE ReaderInv
  OBVIOUS
<1> USE DEF Fresh
<1>1. Len(records) = 0 /\ Len(raws) = 0 /\ records \in Seq(Row) /\ raws \in Seq(Capture)
  BY EmptySeq
<1>2. Len(bin) \in Nat /\ Len(csv) \in Nat /\ Len(acked) \in Nat
  BY Lengths DEF WriterInv
<1>3. binLen \in [whole : Nat, tail : Tails] /\ atOpen \in [live : BOOLEAN, acked : Nat]
  BY DEF Tails
<1>4. ReaderTypeOK
  BY <1>1, <1>3 DEF ReaderTypeOK
<1>5. Prefixes
  BY <1>1, <1>2 DEF Prefixes, Longer
<1>6. Said
  BY <1>1 DEF Said
<1>7. Frozen
  BY DEF Frozen, Quiet
<1> QED BY <1>4, <1>5, <1>6, <1>7 DEF ReaderInv

LEMMA ReaderInvInit == RInit => ReaderInv
<1> SUFFICES ASSUME RInit PROVE ReaderInv
  OBVIOUS
<1> QED BY InvInit, FreshReader DEF RInit, Unopened, Fresh

LEMMA ReaderSequences ==
  ASSUME ReaderInv
  PROVE  /\ records \in Seq(Row) /\ raws \in Seq(Capture)
         /\ Len(records) \in Nat /\ Len(raws) \in Nat /\ binLen.whole \in Nat
         /\ Len(bin) \in Nat /\ Len(csv) \in Nat /\ Len(acked) \in Nat
         /\ csv \in Seq(Row) /\ bin \in Seq(Capture)
         /\ Len(acked) <= Len(csv)
         /\ \A k \in 1 .. Len(csv) : /\ k \in 1 .. Len(bin)
                                     /\ csv[k].index = k /\ csv[k].offset = k - 1
                                     /\ csv[k].sample = bin[k]
<1>1. records \in Seq(Row) /\ raws \in Seq(Capture) /\ binLen.whole \in Nat
  BY DEF ReaderInv, ReaderTypeOK
<1>2. /\ csv \in Seq(Row) /\ bin \in Seq(Capture)
      /\ Len(bin) \in Nat /\ Len(csv) \in Nat /\ Len(acked) \in Nat /\ Len(acked) <= Len(csv)
  BY Lengths DEF ReaderInv, WriterInv, TypeOK, BinOK, CsvOK, Core, AckedIsDurable
<1>3. ASSUME NEW k \in 1 .. Len(csv)
      PROVE  /\ k \in 1 .. Len(bin)
             /\ csv[k].index = k /\ csv[k].offset = k - 1 /\ csv[k].sample = bin[k]
  <2>1. /\ k \in 1 .. Len(bin)
        /\ csv[k] = [index |-> k, offset |-> k - 1, sample |-> bin[k]]
    BY RowBacked DEF ReaderInv, WriterInv, Core
  <2> QED BY <2>1
<1> QED BY <1>1, <1>2, <1>3, LenProperties

(* The recorder goes on under the reader, or power fails.                    *)
LEMMA WriterMovesReader ==
  ASSUME ReaderInv, WriterInv', WriterStep \/ UNCHANGED wvars, UNCHANGED reader
  PROVE  ReaderInv'
<1>1. Grown
  BY FilesGrow DEF ReaderInv
<1>2. /\ Len(records) \in Nat /\ Len(bin) \in Nat /\ Len(csv) \in Nat /\ Len(acked) \in Nat
      /\ Len(bin') \in Nat /\ Len(csv') \in Nat /\ Len(acked') \in Nat
      /\ binLen.whole \in Nat
  BY ReaderSequences, Lengths DEF WriterInv
<1>3. UNCHANGED <<rpc, status, binLen, records, result, warned, raws, atOpen>>
  BY DEF reader
<1>4. ReaderTypeOK'
  BY <1>3 DEF ReaderInv, ReaderTypeOK
<1>5. atOpen.acked \in Nat
  BY DEF ReaderInv, ReaderTypeOK
<1>6. Prefixes'
  <2>1. Longer(records, csv')
    BY <1>1, <1>2 DEF Grown, Longer, ReaderInv, Prefixes
  <2>2. binLen.whole <= Len(bin') /\ atOpen.acked <= Len(acked')
    BY <1>1, <1>2, <1>5 DEF Grown, Longer, ReaderInv, Prefixes
  <2> QED BY <1>3, <2>1, <2>2 DEF ReaderInv, Prefixes, Longer
<1>7. Said'
  BY <1>3 DEF ReaderInv, Said
<1>8. Frozen'
  <2>1. CASE ~Quiet
    BY <1>3, <2>1 DEF Frozen, Quiet
  <2>2. CASE Quiet
    <3>1. UNCHANGED Files
      BY <2>2, FilesRest DEF ReaderInv, Frozen
    <3> QED BY <1>3, <2>2, <3>1 DEF Files, ReaderInv, Frozen, Quiet
  <2> QED BY <2>1, <2>2
<1> QED BY <1>4, <1>6, <1>7, <1>8 DEF ReaderInv

-----------------------------------------------------------------------------
(* The reader's own steps *)

LEMMA ReadManifestStep ==
  ASSUME ReaderInv, WriterInv', ReadManifest
  PROVE  ReaderInv'
<1>0. /\ rpc = "manifest" /\ result = "none" /\ raws = <<>> /\ records = <<>>
      /\ UNCHANGED wvars /\ UNCHANGED <<binLen, records, warned, raws>>
      /\ atOpen' = [live |-> wpc \notin Ended, acked |-> Len(acked)]
  BY DEF ReadManifest, ReaderInv, Said
<1>1. UNCHANGED <<bin, csv, acked, manifests, wpc>>
  BY <1>0 DEF wvars, disk, counts, writer
<1>2. Len(records) = 0 /\ Len(acked) \in Nat
  BY <1>0, ReaderSequences, EmptySeq
<1>3. atOpen' \in [live : BOOLEAN, acked : Nat]
  BY <1>0, <1>2
<1>4. Prefixes'
  BY <1>0, <1>1, <1>2 DEF ReaderInv, Prefixes, Longer
<1>5. CASE /\ manifests # <<>> /\ rpc' = "stat" /\ UNCHANGED result
           /\ status' = ReaderStatus(manifests[Len(manifests)].status)
  <2>1. manifests[Len(manifests)].status \in Status
    <3>1. manifests \in Seq(Manifest)
      BY DEF ReaderInv, WriterInv, TypeOK, ManifestsOK
    <3>2. Len(manifests) \in 1 .. Len(manifests)
      BY <1>5, <3>1, LenProperties, EmptySeq
    <3>3. manifests[Len(manifests)] \in Manifest
      BY <3>1, <3>2, ElementOfSeq
    <3> QED BY <3>3 DEF Manifest
  <2>2. status' \in {"none", "interrupted", "completed", "failed"}
    BY <1>5, <2>1 DEF ReaderStatus, Status
  <2>3. ReaderTypeOK'
    BY <1>0, <1>3, <1>5, <2>2 DEF ReaderInv, ReaderTypeOK
  <2>4. Said'
    BY <1>0, <1>5 DEF Said
  <2>5. Frozen'
    BY <1>0, <1>1, <1>5 DEF Frozen, Quiet
  <2> QED BY <1>4, <2>3, <2>4, <2>5 DEF ReaderInv
<1>6. CASE manifests = <<>> /\ rpc' = "done" /\ result' = "missing" /\ UNCHANGED status
  <2>1. ReaderTypeOK'
    BY <1>0, <1>3, <1>6 DEF ReaderInv, ReaderTypeOK
  <2>2. Said'
    BY <1>0, <1>6 DEF Said
  <2>3. Frozen'
    BY <1>0, <1>1, <1>6 DEF Frozen, Quiet
  <2> QED BY <1>4, <2>1, <2>2, <2>3 DEF ReaderInv
<1> QED BY <1>5, <1>6 DEF ReadManifest, Return

LEMMA StatBinStep ==
  ASSUME ReaderInv, WriterInv', StatBin
  PROVE  ReaderInv'
<1>0. /\ rpc = "stat" /\ rpc' = "rows" /\ records = <<>> /\ result = "none" /\ raws = <<>>
      /\ UNCHANGED wvars /\ UNCHANGED <<status, records, result, warned, raws, atOpen>>
      /\ binLen' = [whole |-> Len(bin), tail |-> binTail]
  BY DEF StatBin, ReaderInv, Said
<1>1. UNCHANGED <<bin, binTail, csv, csvTail, acked, manifests, wpc>>
  BY <1>0 DEF wvars, disk, counts, writer
<1>2. Len(records) = 0 /\ Len(bin) \in Nat /\ binTail \in Tails
  BY <1>0, ReaderSequences, EmptySeq DEF ReaderInv, WriterInv, TypeOK, BinOK
<1>3. binLen' \in [whole : Nat, tail : Tails]
  BY <1>0, <1>2
<1>4. ReaderTypeOK'
  BY <1>0, <1>3 DEF ReaderInv, ReaderTypeOK
<1>5. Prefixes'
  BY <1>0, <1>1, <1>2 DEF ReaderInv, Prefixes, Longer
<1>6. Said'
  BY <1>0 DEF ReaderInv, Said
<1>7. Frozen'
  BY <1>0, <1>1 DEF ReaderInv, Frozen, Quiet
<1> QED BY <1>4, <1>5, <1>6, <1>7 DEF ReaderInv

LEMMA ReadRowStep ==
  ASSUME ReaderInv, WriterInv', ReadRow
  PROVE  ReaderInv'
<1> DEFINE n == Len(records) + 1
           row == csv[n]
<1>0. /\ rpc = "rows" /\ result = "none" /\ raws = <<>> /\ Len(records) < Len(csv)
      /\ UNCHANGED wvars /\ UNCHANGED <<status, binLen, warned, raws, atOpen>>
  BY DEF ReadRow, MoreRows, ReaderInv, Said
<1>1. UNCHANGED <<bin, binTail, csv, csvTail, acked, manifests, wpc>>
  BY <1>0 DEF wvars, disk, counts, writer
<1>2. /\ records \in Seq(Row) /\ csv \in Seq(Row)
      /\ Len(records) \in Nat /\ Len(csv) \in Nat /\ Len(bin) \in Nat
      /\ binLen.whole \in Nat /\ n \in 1 .. Len(csv)
  BY <1>0, ReaderSequences
<1>3. row \in Row /\ row.index = n /\ row.offset = n - 1 /\ n \in 1 .. Len(bin)
  BY <1>2, ReaderSequences, ElementOfSeq
<1>4. Contiguous(row)
  BY <1>2, <1>3 DEF Contiguous
<1>5. CASE /\ row.offset + 1 <= binLen.whole
           /\ records' = Append(records, row) /\ UNCHANGED <<rpc, result>>
  <2>1. /\ records' \in Seq(Row) /\ Len(records') = n
        /\ \A k \in 1 .. Len(records) : records'[k] = records[k]
        /\ records'[n] = row
    BY <1>2, <1>3, <1>5, AppendProperties
  <2>2. n <= binLen.whole
    BY <1>2, <1>3, <1>5
  <2>3. ReaderTypeOK'
    BY <1>0, <1>5, <2>1 DEF ReaderInv, ReaderTypeOK
  <2>4. \A k \in 1 .. Len(records') : csv[k] = records'[k]
    <3>1. \A k \in 1 .. Len(records) : csv[k] = records[k]
      BY DEF ReaderInv, Prefixes, Longer
    <3>2. \A k \in 1 .. n : k \in 1 .. Len(records) \/ k = n
      BY <1>2
    <3> QED BY <2>1, <3>1, <3>2
  <2>5. Prefixes'
    <3>1. Len(raws) = 0
      BY <1>0, EmptySeq
    <3>2. Longer(records', csv)
      BY <1>2, <2>1, <2>4 DEF Longer
    <3> QED BY <1>0, <1>1, <1>2, <2>1, <2>2, <3>1, <3>2 DEF ReaderInv, Prefixes, Longer
  <2>6. Said'
    BY <1>0, <1>5 DEF ReaderInv, Said
  <2>7. Frozen'
    BY <1>0, <1>1, <1>5 DEF ReaderInv, Frozen, Quiet
  <2> QED BY <2>3, <2>5, <2>6, <2>7 DEF ReaderInv
<1>6. CASE /\ row.offset + 1 > binLen.whole /\ rpc' = "done" /\ result' = "corrupt"
           /\ UNCHANGED records
  <2>1. ReaderTypeOK'
    BY <1>0, <1>6 DEF ReaderInv, ReaderTypeOK
  <2>2. Prefixes'
    BY <1>0, <1>1, <1>6 DEF ReaderInv, Prefixes, Longer
  <2>3. Said'
    BY <1>0, <1>6 DEF ReaderInv, Said
  <2>4. binLen.whole # Len(bin)
    BY <1>2, <1>3, <1>6
  <2>5. ~Quiet /\ ~Quiet'
    BY <1>0, <1>6, <2>4 DEF ReaderInv, Frozen, Quiet
  <2> QED BY <2>1, <2>2, <2>3, <2>5 DEF ReaderInv, Frozen
<1> QED BY <1>4, <1>5, <1>6 DEF ReadRow, Return

LEMMA ReadEndStep ==
  ASSUME ReaderInv, WriterInv', ReadEnd
  PROVE  ReaderInv'
<1>0. /\ rpc = "rows" /\ result = "none" /\ raws = <<>> /\ ~(Len(records) < Len(csv))
      /\ UNCHANGED wvars /\ UNCHANGED <<status, binLen, records, raws, atOpen>>
  BY DEF ReadEnd, MoreRows, ReaderInv, Said
<1>1. UNCHANGED <<bin, binTail, csv, csvTail, acked, manifests, wpc>>
  BY <1>0 DEF wvars, disk, counts, writer
<1>2. /\ Len(records) \in Nat /\ Len(csv) \in Nat /\ Len(acked) \in Nat
      /\ Len(acked) <= Len(csv) /\ atOpen.acked \in Nat
  BY ReaderSequences DEF ReaderInv, ReaderTypeOK
<1>3. Len(records) = Len(csv) /\ Len(records) >= atOpen.acked
  BY <1>0, <1>2 DEF ReaderInv, Prefixes, Longer
<1>4. Prefixes'
  BY <1>0, <1>1 DEF ReaderInv, Prefixes, Longer
<1>5. CASE csvTail = "torn" /\ rpc' = "done" /\ result' = "unreadable" /\ UNCHANGED warned
  <2>1. ReaderTypeOK'
    BY <1>0, <1>5 DEF ReaderInv, ReaderTypeOK
  <2>2. Said'
    BY <1>0, <1>5 DEF ReaderInv, Said
  <2>3. Frozen'
    BY <1>0, <1>1, <1>5 DEF ReaderInv, Frozen, Quiet
  <2> QED BY <1>4, <2>1, <2>2, <2>3 DEF ReaderInv
<1>6. CASE /\ csvTail = "clean" /\ rpc' = "raw" /\ result' = "ok"
           /\ warned' = (binLen.whole > Len(records) \/ binLen.tail = "torn")
  <2>0. warned' \in BOOLEAN
    BY <1>6
  <2>1. ReaderTypeOK'
    BY <1>0, <1>6, <2>0 DEF ReaderInv, ReaderTypeOK
  <2>2. Said'
    BY <1>0, <1>3, <1>6 DEF ReaderInv, Said
  <2>3. Frozen'
    <3>1. SUFFICES ASSUME Quiet'
                   PROVE  /\ wpc' \in Ended
                          /\ binLen'.whole = Len(bin') /\ binLen'.tail = binTail'
                          /\ manifests' # <<>>
                          /\ csvTail' = "clean" /\ Len(records') = Len(csv')
                          /\ warned' <=> Len(bin') > Len(csv') \/ binTail' = "torn"
      BY <1>6, <3>1 DEF Frozen
    <3>2. Quiet
      BY <1>0, <3>1 DEF Quiet
    <3>3. /\ wpc \in Ended /\ binLen.whole = Len(bin) /\ binLen.tail = binTail
          /\ manifests # <<>>
      BY <1>0, <3>2 DEF ReaderInv, Frozen
    <3>4. warned' <=> Len(bin) > Len(csv) \/ binTail = "torn"
      BY <1>3, <1>6, <3>3
    <3> QED BY <1>0, <1>1, <1>3, <1>6, <3>3, <3>4
  <2> QED BY <1>4, <2>1, <2>2, <2>3 DEF ReaderInv
<1> QED BY <1>5, <1>6 DEF ReadEnd, Return

LEMMA ReadRawStep ==
  ASSUME ReaderInv, WriterInv', ReadRaw
  PROVE  ReaderInv'
<1> DEFINE k == Len(raws) + 1
<1>0. /\ rpc = "raw" /\ result = "ok"
      /\ UNCHANGED wvars /\ UNCHANGED <<status, binLen, records, warned, atOpen>>
  BY DEF ReadRaw, ReaderInv, Said
<1>1. UNCHANGED <<bin, binTail, csv, csvTail, acked, manifests, wpc>>
  BY <1>0 DEF wvars, disk, counts, writer
<1>2. /\ raws \in Seq(Capture) /\ bin \in Seq(Capture)
      /\ Len(raws) \in Nat /\ Len(records) \in Nat /\ Len(csv) \in Nat /\ Len(bin) \in Nat
  BY ReaderSequences
<1>3. Len(raws) <= Len(records) /\ Len(records) <= Len(csv)
  BY DEF ReaderInv, Prefixes, Longer
<1>4. ASSUME k \in 1 .. Len(records)
      PROVE  k \in 1 .. Len(bin) /\ records[k].sample = bin[k]
  <2>1. k \in 1 .. Len(csv) /\ csv[k] = records[k]
    BY <1>2, <1>3, <1>4 DEF ReaderInv, Prefixes, Longer
  <2> QED BY <2>1, ReaderSequences
<1>5. CASE k > Len(records) /\ rpc' = "done" /\ UNCHANGED <<result, raws>>
  <2>1. ReaderTypeOK'
    BY <1>0, <1>5 DEF ReaderInv, ReaderTypeOK
  <2>2. Prefixes'
    BY <1>0, <1>1, <1>5 DEF ReaderInv, Prefixes, Longer
  <2>3. Len(raws) = Len(records)
    BY <1>2, <1>3, <1>5
  <2>4. Said'
    BY <1>0, <1>5, <2>3 DEF ReaderInv, Said
  <2>5. Frozen'
    BY <1>0, <1>1, <1>5 DEF ReaderInv, Frozen, Quiet
  <2> QED BY <2>1, <2>2, <2>4, <2>5 DEF ReaderInv
<1>6. CASE /\ k \in 1 .. Len(records) /\ raws' = Append(raws, bin[k])
           /\ UNCHANGED <<rpc, result>>
  <2>1. bin[k] \in Capture
    BY <1>2, <1>4, <1>6, ElementOfSeq
  <2>2. /\ raws' \in Seq(Capture) /\ Len(raws') = k
        /\ \A j \in 1 .. Len(raws) : raws'[j] = raws[j]
        /\ raws'[k] = bin[k]
    BY <1>2, <1>6, <2>1, AppendProperties
  <2>3. ReaderTypeOK'
    BY <1>0, <1>6, <2>2 DEF ReaderInv, ReaderTypeOK
  <2>4. \A j \in 1 .. Len(raws') : raws'[j] = records[j].sample
    <3>1. \A j \in 1 .. k : j \in 1 .. Len(raws) \/ j = k
      BY <1>2
    <3>2. \A j \in 1 .. Len(raws) : raws[j] = records[j].sample
      BY DEF ReaderInv, Prefixes
    <3> QED BY <1>4, <1>6, <2>2, <3>1, <3>2
  <2>5. Prefixes'
    <3>1. Len(raws') <= Len(records) /\ UNCHANGED <<records, csv, binLen, bin, atOpen, acked>>
      BY <1>0, <1>1, <1>2, <1>6, <2>2
    <3>2. Longer(records, csv)' /\ (Len(records) <= binLen.whole /\ binLen.whole <= Len(bin))'
          /\ (atOpen.acked <= Len(acked))'
      BY <3>1 DEF ReaderInv, Prefixes, Longer
    <3> QED BY <2>4, <3>1, <3>2 DEF Prefixes
  <2>6. Said'
    BY <1>0, <1>6 DEF ReaderInv, Said
  <2>7. Frozen'
    BY <1>0, <1>1, <1>6 DEF ReaderInv, Frozen, Quiet
  <2> QED BY <2>3, <2>5, <2>6, <2>7 DEF ReaderInv
<1>7. k \in 1 .. Len(records) => k <= Len(bin) /\ Ones(bin[k]) = Ones(records[k].sample)
  BY <1>2, <1>4
<1> QED BY <1>5, <1>6, <1>7 DEF ReadRaw

LEMMA ReaderInvStep == ReaderInv /\ [RNext]_rvars => ReaderInv'
<1> SUFFICES ASSUME ReaderInv, [RNext]_rvars PROVE ReaderInv'
  OBVIOUS
<1>1. WriterInv'
  BY ReaderStepsWriter, InvStep DEF ReaderInv
<1>2. CASE ReadManifest \/ StatBin \/ ReadRow \/ ReadEnd \/ ReadRaw
  BY <1>1, <1>2, ReadManifestStep, StatBinStep, ReadRowStep, ReadEndStep, ReadRawStep
<1>3. CASE Reopen \/ (PowerLoss /\ Forget)
  <2>1. Fresh'
    BY <1>3 DEF Reopen, Forget, Unopened, Fresh
  <2> QED BY <1>1, <2>1, FreshReader, PTL
<1>4. CASE (WriterStep /\ UNCHANGED reader) \/ UNCHANGED rvars
  BY <1>1, <1>4, WriterMovesReader DEF rvars
<1> QED BY <1>2, <1>3, <1>4 DEF RNext, ReaderStep

LEMMA ReaderInvariant == RSpec => []ReaderInv
BY ReaderInvInit, ReaderInvStep, PTL DEF RSpec

(* The state of the reader is well typed, whatever the recorder does.        *)
THEOREM ReaderTypesAreRight == RSpec => []ReaderTypeOK
<1>1. ReaderInv => ReaderTypeOK
  BY DEF ReaderInv
<1> QED BY <1>1, ReaderInvariant, PTL

(* A session that opens, even while it is recorded, shows committed rows and *)
(* every sample that was reported when the reader came.                      *)
THEOREM OpenedSessionsAreCommitted == RSpec => []OpenedIsCommitted
<1>1. ReaderInv => OpenedIsCommitted
  BY DEF ReaderInv, Said, Prefixes, Longer, OpenedIsCommitted
<1> QED BY <1>1, ReaderInvariant, PTL

(* raw_samples yields what the rows describe and does not fail.              *)
THEOREM RawSamplesAreRight == RSpec => []RawsAreTheRows
<1>1. ReaderInv => RawsAreTheRows
  BY DEF ReaderInv, Said, Prefixes, RawsAreTheRows
<1> QED BY <1>1, ReaderInvariant, PTL

(* A session nobody writes to opens, unless its last row is incomplete.      *)
THEOREM QuietSessionsOpen == RSpec => []QuietSessionOpens
<1>1. ReaderInv => QuietSessionOpens
  <2> SUFFICES ASSUME ReaderInv, result # "none", ~atOpen.live
               PROVE  /\ result # "corrupt"
                      /\ result = "unreadable" <=> csvTail = "torn" /\ manifests # <<>>
                      /\ result = "ok" => (warned <=> Len(bin) > Len(csv) \/ binTail = "torn")
    BY DEF QuietSessionOpens
  <2>1. Quiet /\ rpc \in {"raw", "done"}
    BY DEF ReaderInv, ReaderTypeOK, Said, Quiet
  <2>2. /\ result # "corrupt"
        /\ result = "unreadable" => csvTail = "torn"
        /\ result = "ok" => /\ csvTail = "clean"
                            /\ warned <=> Len(bin) > Len(csv) \/ binTail = "torn"
        /\ result = "missing" => rpc = "done"
        /\ rpc = "raw" => manifests # <<>> /\ result = "ok"
        /\ rpc = "done" => (result = "missing" <=> manifests = <<>>)
    BY <2>1 DEF ReaderInv, Frozen, Said
  <2>3. result \in {"missing", "unreadable", "ok"}
    BY <2>2 DEF ReaderInv, ReaderTypeOK, Said
  <2> QED BY <2>1, <2>2, <2>3
<1> QED BY <1>1, ReaderInvariant, PTL

=============================================================================
