-------------------------- MODULE SessionWriterProofs --------------------------
(***************************************************************************)
(* Proofs about the recorder for every number of commits, of manifest      *)
(* versions and of overruns, and every client.  The inductive invariant    *)
(* says how far each file may be ahead of the reported samples at every    *)
(* point of commit_sample.                                                 *)
(***************************************************************************)
EXTENDS SessionWriter, SequenceTheorems, TLAPS

(* what is on disk when nothing but the reported samples is *)
Nothing ==
  /\ bin = <<>> /\ binTail = "clean"
  /\ csv = <<>> /\ csvTail = "clean"
  /\ manifests = <<>>

Even == Len(csv) = Len(acked) /\ csvTail = "clean" /\ buffer = <<>>

(* the capture being committed is whole in the BIN *)
Ahead == Len(bin) = Len(acked) + 1 /\ binTail = "clean"

AheadRow == [index |-> Len(acked) + 1, offset |-> Len(acked),
             sample |-> bin[Len(acked) + 1]]

Memory ==
  /\ next = [index |-> Len(acked) + 1, offset |-> Len(acked)]
  /\ committed = Len(acked)

Buffered ==
  \/ buffer = <<>>
  \/ /\ Len(buffer) = 1 /\ buffer[1] = AheadRow
     /\ Len(csv) = Len(acked)
     /\ Ahead /\ binSynced = Len(bin)

Progress ==
  /\ wpc \in Creating => Nothing /\ acked = <<>> /\ buffer = <<>>
  /\ wpc \in {"artifacts", "manifest", "idle"} \cup Committing => dir = "self"
  /\ dir # "self" => Nothing /\ acked = <<>> /\ buffer = <<>>
  /\ wpc \in Committing => sample \in Capture
  /\ wpc \notin Ended /\ csvTail = "torn" => Ahead
  /\ wpc = "append" => AtExpectedOffset /\ Even
  /\ wpc = "syncBin" => Ahead /\ Even /\ bin[Len(bin)] = sample
  /\ wpc = "appendCsv" =>
       Ahead /\ Even /\ bin[Len(bin)] = sample /\ binSynced = Len(bin)
  /\ wpc = "flushCsv" =>
       /\ Ahead /\ bin[Len(bin)] = sample /\ binSynced = Len(bin)
       /\ Len(buffer) = 1 /\ csvTail = "clean"
  /\ wpc = "syncCsv" =>
       /\ Len(csv) = Len(acked) + 1 /\ buffer = <<>> /\ csvTail = "clean"
       /\ csv[Len(csv)].sample = sample
  /\ wpc \in Ended => buffer = <<>>

Rows ==
  /\ Len(csv) <= Len(acked) + 1
  /\ csvTail = "torn" => Len(csv) = Len(acked)

Core ==
  /\ Memory
  /\ CsvIsBacked
  /\ AckedIsDurable
  /\ Rows
  /\ Buffered
  /\ Progress

Counted ==
  \A i \in 1 .. Len(manifests) : /\ manifests[i].committed <= committed
                                 /\ manifests[i].overruns <= overruns

Monotone ==
  \A i, j \in 1 .. Len(manifests) :
    i < j => /\ manifests[i].committed <= manifests[j].committed
             /\ manifests[i].overruns <= manifests[j].overruns

WriterInv == TypeOK /\ Core /\ Counted /\ Monotone

-----------------------------------------------------------------------------
(* A prefix of a sequence, the form every loss of data takes.                *)
LEMMA PrefixFacts ==
  ASSUME NEW S, NEW s \in Seq(S), NEW n \in 0 .. Len(s)
  PROVE  /\ SubSeq(s, 1, n) \in Seq(S)
         /\ Len(SubSeq(s, 1, n)) = n
         /\ \A i \in 1 .. n : SubSeq(s, 1, n)[i] = s[i]
<1>1. Len(s) \in Nat /\ \A i \in 1 .. n : s[i] \in S
  BY LenProperties, ElementOfSeq
<1> QED
  BY <1>1, SubSeqProperties

(* One element more, the form every flush takes. *)
LEMMA ConcatOne ==
  ASSUME NEW S, NEW s \in Seq(S), NEW t \in Seq(S), Len(t) = 1
  PROVE  /\ Len(s \o t) = Len(s) + 1
         /\ \A k \in 1 .. Len(s) : (s \o t)[k] = s[k]
         /\ (s \o t)[Len(s) + 1] = t[1]
<1>1. Len(s) \in Nat
  BY LenProperties
<1>2. /\ Len(s \o t) = Len(s) + 1
      /\ \A k \in 1 .. Len(s) + 1 :
           (s \o t)[k] = IF k <= Len(s) THEN s[k] ELSE t[k - Len(s)]
  <2>1. /\ Len(s \o t) = Len(s) + Len(t)
        /\ \A k \in 1 .. Len(s) + Len(t) :
             (s \o t)[k] = IF k <= Len(s) THEN s[k] ELSE t[k - Len(s)]
    BY ConcatProperties
  <2> QED
    BY <2>1
<1>3. (s \o t)[Len(s) + 1] = t[(Len(s) + 1) - Len(s)]
  BY <1>1, <1>2
<1>4. (Len(s) + 1) - Len(s) = 1
  BY <1>1
<1>5. \A k \in 1 .. Len(s) : (s \o t)[k] = s[k]
  BY <1>1, <1>2
<1> QED
  BY <1>2, <1>3, <1>4, <1>5

(* What leaves its variables alone keeps a part of the state well typed.     *)
LEMMA TypeFrame ==
  ASSUME TypeOK
  PROVE  /\ UNCHANGED dir => DirOK'
         /\ UNCHANGED <<bin, binTail, binSynced>> => BinOK'
         /\ UNCHANGED <<csv, csvTail, csvSynced>> => CsvOK'
         /\ UNCHANGED <<manifests, manifestsSynced>> => ManifestsOK'
         /\ UNCHANGED counts => CountsOK'
BY DEF TypeOK, DirOK, BinOK, CsvOK, ManifestsOK, CountsOK, counts

LEMMA TypeInit == WInit => TypeOK
<1> SUFFICES ASSUME WInit PROVE TypeOK
  OBVIOUS
<1>1. DirOK /\ BinOK /\ CsvOK /\ ManifestsOK
  BY EmptySeq DEF WInit, DirOK, BinOK, CsvOK, ManifestsOK, Tails
<1>2. WriterOK
  BY BoundsAssumption, EmptySeq
     DEF WInit, WriterOK, Phases, Creating, Committing, Ended
<1>3. CountsOK
  BY BoundsAssumption, EmptySeq DEF WInit, CountsOK
<1> QED
  BY <1>1, <1>2, <1>3 DEF TypeOK

(* Publishing one more version of the manifest. *)
LEMMA PublishType ==
  ASSUME TypeOK, NEW st \in Status, Publish(st)
  PROVE  ManifestsOK'
<1>1. Version(st) \in Manifest
  BY DEF TypeOK, CountsOK, Version, Manifest
<1>2. /\ Append(manifests, Version(st)) \in Seq(Manifest)
      /\ Len(Append(manifests, Version(st))) = Len(manifests) + 1
      /\ Len(manifests) \in Nat
  BY <1>1, AppendProperties, LenProperties DEF TypeOK, ManifestsOK
<1> QED
  BY <1>2 DEF Publish, ManifestsOK

(* The point of commit_sample moves, or the call returns. *)
LEMMA PhaseType ==
  ASSUME TypeOK, wpc \in Committing, UNCHANGED <<sample, calls>>,
         buffer' \in Seq(Row),
         \/ ReturnErr
         \/ \E step \in Committing : GoOn(step)
  PROVE  WriterOK'
BY DEF TypeOK, WriterOK, ReturnErr, GoOn, Phases

LEMMA TypeStep == TypeOK /\ [WNext]_wvars => TypeOK'
<1> SUFFICES ASSUME TypeOK, [WNext]_wvars PROVE TypeOK'
  OBVIOUS
<1> USE TypeFrame DEF TypeOK
<1>1. CASE Create
  <2>1. DirOK'
    BY <1>1 DEF Create, CheckAbsent, MakeDir, CreateArtifacts, CreateManifest, DirOK, disk
  <2>2. WriterOK'
    BY <1>1 DEF Create, CheckAbsent, MakeDir, CreateArtifacts, CreateManifest,
                CreateFails, WriterOK, Phases, Creating, Committing, Ended
  <2>3. ManifestsOK'
    BY <1>1, PublishType
       DEF Create, CheckAbsent, MakeDir, CreateArtifacts, CreateManifest, Status, disk
  <2> QED
    BY <1>1, <2>1, <2>2, <2>3
       DEF Create, CheckAbsent, MakeDir, CreateArtifacts, CreateManifest, disk
<1>2. CASE BeginCommit
  <2>1. WriterOK'
    BY <1>2, BoundsAssumption
       DEF BeginCommit, WriterOK, Phases, Creating, Committing, Ended
  <2> QED
    BY <1>2, <2>1 DEF BeginCommit, disk
<1>3. CASE Validate
  <2>1. WriterOK'
    BY <1>3, PhaseType DEF Validate, Committing, WriterOK
  <2> QED
    BY <1>3, <2>1 DEF Validate, disk
<1>4. CASE AppendBin
  <2>1. WriterOK'
    BY <1>4, PhaseType DEF AppendBin, Committing, WriterOK
  <2>2. sample \in Capture
    BY <1>4, BoundsAssumption DEF AppendBin, Committing, WriterOK, Capture
  <2>3. /\ Append(bin, sample) \in Seq(Capture)
        /\ Len(Append(bin, sample)) = Len(bin) + 1
        /\ Len(bin) \in Nat
    BY <2>2, AppendProperties, LenProperties DEF BinOK
  <2>4. BinOK'
    <3>1. CASE bin' = Append(bin, sample) /\ UNCHANGED binTail
      BY <1>4, <2>3, <3>1 DEF AppendBin, BinOK
    <3>2. CASE UNCHANGED bin /\ binTail' \in Tails
      BY <1>4, <3>2 DEF AppendBin, BinOK
    <3> QED
      BY <1>4, <3>1, <3>2 DEF AppendBin
  <2> QED
    BY <1>4, <2>1, <2>4 DEF AppendBin
<1>5. CASE SyncBin
  <2>1. WriterOK'
    BY <1>5, PhaseType DEF SyncBin, Committing, WriterOK
  <2>2. BinOK' /\ ManifestsOK'
    BY <1>5, LenProperties DEF SyncBin, BinOK, ManifestsOK
  <2> QED
    BY <1>5, <2>1, <2>2 DEF SyncBin
<1>6. CASE AppendCsv
  <2>1. NextRow \in Row
    BY BoundsAssumption DEF NextRow, CountsOK, WriterOK, Row
  <2>2. buffer' \in Seq(Row)
    BY <1>6, <2>1, AppendProperties DEF AppendCsv, WriterOK
  <2>3. WriterOK'
    BY <1>6, <2>2, PhaseType DEF AppendCsv, Committing
  <2> QED
    BY <1>6, <2>3 DEF AppendCsv, disk
<1>7. /\ csv \o buffer \in Seq(Row)
      /\ Len(csv \o buffer) = Len(csv) + Len(buffer)
      /\ Len(buffer) \in Nat /\ Len(csv) \in Nat
  BY ConcatProperties, LenProperties DEF CsvOK, WriterOK
<1>8. CASE FlushCsv
  <2>1. buffer' \in Seq(Row)
    BY <1>8, EmptySeq DEF FlushCsv, WriterOK
  <2>2. WriterOK'
    BY <1>8, <2>1, PhaseType DEF FlushCsv, Committing
  <2>3. CsvOK'
    <3>1. CASE csv' = csv \o buffer /\ UNCHANGED csvTail
      BY <1>7, <1>8, <3>1 DEF FlushCsv, CsvOK
    <3>2. CASE UNCHANGED csv /\ csvTail' \in {csvTail, "torn"}
      BY <1>8, <3>2 DEF FlushCsv, CsvOK, Tails
    <3> QED
      BY <1>8, <3>1, <3>2 DEF FlushCsv
  <2> QED
    BY <1>8, <2>2, <2>3 DEF FlushCsv
<1>9. CASE SyncCsv
  <2>1. sample \in Capture
    BY <1>9, BoundsAssumption DEF SyncCsv, Committing, WriterOK, Capture
  <2>2. Append(acked, sample) \in Seq(Capture)
    BY <2>1, AppendProperties DEF CountsOK
  <2>3. acked' \in Seq(Capture)
    BY <1>9, <2>2 DEF SyncCsv, CountsOK
  <2>4. CountsOK'
    BY <1>9, <2>3 DEF SyncCsv, CountsOK
  <2>5. CsvOK' /\ ManifestsOK'
    BY <1>7, <1>9, LenProperties DEF SyncCsv, CsvOK, ManifestsOK
  <2>6. WriterOK'
    BY <1>9 DEF SyncCsv, ReturnErr, WriterOK, Phases, Committing
  <2> QED
    BY <1>9, <2>4, <2>5, <2>6 DEF SyncCsv
<1>10. CASE AddOverrun
  <2>1. CountsOK'
    BY <1>10, BoundsAssumption DEF AddOverrun, CountsOK
  <2>2. WriterOK'
    BY <1>10 DEF AddOverrun, WriterOK, writer
  <2> QED
    BY <1>10, <2>1, <2>2 DEF AddOverrun, disk
<1>11. ASSUME NEW st \in Status, Finalize(st)
       PROVE  TypeOK'
  <2>1. ManifestsOK'
    BY <1>11, PublishType DEF Finalize
  <2>2. WriterOK'
    BY <1>11 DEF Finalize, WriterOK
  <2> QED
    BY <1>11, <2>1, <2>2 DEF Finalize
<1>12. CASE FinalizeCompleted \/ FinalizeFailed
  BY <1>11, <1>12 DEF FinalizeCompleted, FinalizeFailed, Status
<1>13. CASE DropWriter
  <2>1. CsvOK'
    <3>1. CASE csv' = csv \o buffer /\ UNCHANGED csvTail
      BY <1>7, <1>13, <3>1 DEF DropWriter, CsvOK
    <3>2. CASE UNCHANGED csv /\ csvTail' \in {csvTail, "torn"}
      BY <1>13, <3>2 DEF DropWriter, CsvOK, Tails
    <3> QED
      BY <1>13, <3>1, <3>2 DEF DropWriter
  <2>2. WriterOK'
    BY <1>13, EmptySeq DEF DropWriter, WriterOK, Phases, Committing, Ended
  <2> QED
    BY <1>13, <2>1, <2>2 DEF DropWriter
<1>14. CASE ForeignDir
  <2>1. DirOK' /\ WriterOK'
    BY <1>14 DEF ForeignDir, DirOK, WriterOK, writer
  <2> QED
    BY <1>14, <2>1 DEF ForeignDir
<1>15. CASE Kill
  <2>1. WriterOK'
    BY <1>15, EmptySeq DEF Kill, WriterOK, Phases, Committing, Ended
  <2> QED
    BY <1>15, <2>1 DEF Kill, disk
<1>16. CASE PowerLoss
  <2>1. BinOK'
    <3>1. PICK b \in binSynced .. Len(bin) :
            /\ bin' = SubSeq(bin, 1, b) /\ binSynced' = b
            /\ binTail' \in Remains(binTail, b < Len(bin))
      BY <1>16 DEF PowerLoss
    <3>2. b \in 0 .. Len(bin)
      BY <3>1, LenProperties DEF BinOK
    <3>3. /\ SubSeq(bin, 1, b) \in Seq(Capture)
          /\ Len(SubSeq(bin, 1, b)) = b
      BY <3>2, PrefixFacts DEF BinOK
    <3> QED
      BY <3>1, <3>2, <3>3 DEF BinOK, Remains, Tails
  <2>2. CsvOK'
    <3>1. PICK c \in csvSynced .. Len(csv) :
            /\ csv' = SubSeq(csv, 1, c) /\ csvSynced' = c
            /\ csvTail' \in Remains(csvTail, c < Len(csv))
      BY <1>16 DEF PowerLoss
    <3>2. c \in 0 .. Len(csv)
      BY <3>1, LenProperties DEF CsvOK
    <3> QED
      BY <3>1, <3>2, PrefixFacts DEF CsvOK, Remains, Tails
  <2>3. ManifestsOK'
    <3>1. PICK m \in manifestsSynced .. Len(manifests) :
            manifests' = SubSeq(manifests, 1, m) /\ manifestsSynced' = m
      BY <1>16 DEF PowerLoss
    <3>2. m \in 0 .. Len(manifests)
      BY <3>1, LenProperties DEF ManifestsOK
    <3> QED
      BY <3>1, <3>2, PrefixFacts DEF ManifestsOK
  <2>4. WriterOK'
    BY <1>16, EmptySeq DEF PowerLoss, WriterOK, Phases, Committing, Ended
  <2> QED
    BY <1>16, <2>1, <2>2, <2>3, <2>4 DEF PowerLoss
<1>17. CASE UNCHANGED wvars
  <2>1. WriterOK'
    BY <1>17 DEF wvars, WriterOK, writer
  <2> QED
    BY <1>17, <2>1 DEF wvars, disk
<1> QED
  BY <1>1, <1>2, <1>3, <1>4, <1>5, <1>6, <1>8, <1>9, <1>10, <1>12, <1>13, <1>14,
     <1>15, <1>16, <1>17 DEF WNext, CommitStep

(* Every reachable state of the recorder is well typed, whatever the bounds. *)
THEOREM WriterTypeCorrect == WSpec => []TypeOK
BY TypeInit, TypeStep, PTL DEF WSpec

-----------------------------------------------------------------------------
(* The inductive invariant *)

LEMMA Lengths ==
  ASSUME TypeOK
  PROVE  /\ Len(bin) \in Nat /\ Len(csv) \in Nat /\ Len(buffer) \in Nat
         /\ Len(acked) \in Nat /\ Len(manifests) \in Nat
         /\ binSynced \in 0 .. Len(bin) /\ csvSynced \in 0 .. Len(csv)
BY LenProperties DEF TypeOK, BinOK, CsvOK, WriterOK, CountsOK, ManifestsOK

LEMMA RowsSynced ==
  ASSUME TypeOK, CsvIsBacked
  PROVE  Len(csv) <= binSynced
<1>1. CASE Len(csv) = 0
  BY <1>1, Lengths
<1>2. CASE Len(csv) \in 1 .. Len(csv)
  BY <1>2 DEF CsvIsBacked
<1> QED
  BY <1>1, <1>2, Lengths

LEMMA RowBacked ==
  ASSUME TypeOK, CsvIsBacked, NEW k \in 1 .. Len(csv)
  PROVE  /\ k <= binSynced /\ k \in 1 .. Len(bin)
         /\ csv[k] = [index |-> k, offset |-> k - 1, sample |-> bin[k]]
<1>1. /\ k <= binSynced
      /\ csv[k] = [index |-> k, offset |-> k - 1, sample |-> bin[k]]
  BY DEF CsvIsBacked
<1> QED
  BY <1>1, Lengths

LEMMA CoreInit == WInit => Core
<1> SUFFICES ASSUME WInit PROVE Core
  OBVIOUS
<1>1. Len(<<>>) = 0
  BY EmptySeq
<1>2. Memory /\ CsvIsBacked /\ AckedIsDurable /\ Rows /\ Buffered
  BY <1>1 DEF WInit, Memory, CsvIsBacked, AckedIsDurable, Rows, Buffered
<1>3. Progress
  BY <1>1 DEF WInit, Progress, Nothing, Creating, Committing, Ended
<1> QED
  BY <1>2, <1>3 DEF Core

(* What moves neither samples nor rows disturbs only the point reached.      *)
LEMMA CoreFrame ==
  ASSUME Core,
         UNCHANGED <<bin, binTail, binSynced, csv, csvTail, csvSynced, buffer>>,
         UNCHANGED <<next, committed, acked>>
  PROVE  Memory' /\ CsvIsBacked' /\ AckedIsDurable' /\ Rows' /\ Buffered'
BY DEF Core, Memory, CsvIsBacked, AckedIsDurable, Rows, Buffered, Ahead, AheadRow

LEMMA CoreStep == TypeOK /\ TypeOK' /\ Core /\ [WNext]_wvars => Core'
<1> SUFFICES ASSUME TypeOK, TypeOK', Core, [WNext]_wvars PROVE Core'
  OBVIOUS
<1> USE Lengths DEF Core
<1>1. CASE Create
  <2>1. Progress'
    BY <1>1, EmptySeq
       DEF Create, CheckAbsent, MakeDir, CreateArtifacts, CreateManifest, CreateFails,
           Progress, Nothing, Creating, Committing, Ended, Ahead, Even,
           AtExpectedOffset, disk, counts
  <2> QED
    BY <1>1, <2>1, CoreFrame
       DEF Create, CheckAbsent, MakeDir, CreateArtifacts, CreateManifest, disk, counts
<1>2. CASE BeginCommit
  <2>1. Progress'
    BY <1>2 DEF BeginCommit, Progress, Nothing, Creating, Committing, Ended, Ahead,
                Even, TypeOK, WriterOK, Capture, disk, counts
  <2> QED
    BY <1>2, <2>1, CoreFrame DEF BeginCommit, disk, counts
<1>3. CASE Validate
  <2>1. AtExpectedOffset => Even
    <3>1. SUFFICES ASSUME AtExpectedOffset PROVE Even
      OBVIOUS
    <3>2. Len(bin) = Len(acked) /\ ~ Ahead
      BY <3>1 DEF AtExpectedOffset, Memory, Ahead
    <3>3. Len(csv) <= binSynced
      BY RowsSynced
    <3>4. csvTail = "clean"
      BY <1>3, <3>2 DEF Validate, Progress, Ended, TypeOK, CsvOK, Tails
    <3>5. buffer = <<>>
      BY <3>2 DEF Buffered
    <3> QED
      BY <3>2, <3>3, <3>4, <3>5 DEF AckedIsDurable, Even
  <2>2. Progress'
    BY <1>3, <2>1
       DEF Validate, GoOn, ReturnErr, Progress, Nothing, Creating, Committing,
           Ended, Ahead, Even, AtExpectedOffset, disk, counts
  <2> QED
    BY <1>3, <2>2, CoreFrame DEF Validate, disk, counts
<1>4. CASE AppendBin
  <2>1. /\ AtExpectedOffset /\ Even /\ sample \in Capture
        /\ Len(bin) = Len(acked) /\ dir = "self"
    BY <1>4 DEF AppendBin, Progress, Committing, AtExpectedOffset, Memory
  <2>2. CASE bin' = Append(bin, sample) /\ UNCHANGED binTail
    <3>1. /\ Len(bin') = Len(bin) + 1 /\ bin'[Len(bin')] = sample
          /\ \A k \in 1 .. Len(bin) : bin'[k] = bin[k]
      BY <2>1, <2>2, AppendProperties DEF TypeOK, BinOK
    <3>2. CsvIsBacked'
      <4>1. UNCHANGED <<binSynced, csv>>
        BY <1>4 DEF AppendBin
      <4>2. ASSUME NEW k \in 1 .. Len(csv)
            PROVE  /\ k <= binSynced
                   /\ csv[k] = [index |-> k, offset |-> k - 1, sample |-> bin'[k]]
        BY <3>1, <4>2, RowBacked
      <4> QED
        BY <4>1, <4>2 DEF CsvIsBacked
    <3>3. Memory' /\ AckedIsDurable' /\ Rows' /\ Buffered'
      BY <1>4, <2>1 DEF AppendBin, counts, Memory, AckedIsDurable, Rows, Even, Buffered
    <3>4. Progress'
      BY <1>4, <2>1, <2>2, <3>1
         DEF AppendBin, GoOn, ReturnErr, counts, Progress, Creating, Committing,
             Ended, Even, Ahead, AtExpectedOffset
    <3> QED
      BY <3>2, <3>3, <3>4
  <2>3. CASE UNCHANGED bin /\ ReturnErr
    <3>1. CsvIsBacked'
      BY <1>4, <2>3 DEF AppendBin, CsvIsBacked
    <3>2. Memory' /\ AckedIsDurable' /\ Rows' /\ Buffered'
      BY <1>4, <2>1 DEF AppendBin, counts, Memory, AckedIsDurable, Rows, Even, Buffered
    <3>3. Progress'
      BY <1>4, <2>1, <2>3
         DEF AppendBin, ReturnErr, counts, Progress, Creating, Committing, Ended, Even
    <3> QED
      BY <3>1, <3>2, <3>3
  <2> QED
    BY <1>4, <2>2, <2>3 DEF AppendBin
<1>5. CASE SyncBin
  <2>1. Ahead /\ Even /\ bin[Len(bin)] = sample /\ dir = "self" /\ sample \in Capture
    BY <1>5 DEF SyncBin, Progress, Committing
  <2>2. binSynced' \in {binSynced, Len(bin)} /\ binSynced <= binSynced'
    BY <1>5 DEF SyncBin
  <2>3. CsvIsBacked'
    BY <1>5, <2>2 DEF SyncBin, CsvIsBacked, TypeOK, BinOK
  <2>4. Memory' /\ AckedIsDurable' /\ Rows' /\ Buffered'
    BY <1>5, <2>1 DEF SyncBin, counts, Memory, AckedIsDurable, Rows, Even, Buffered
  <2>5. Progress'
    BY <1>5, <2>1
       DEF SyncBin, GoOn, ReturnErr, counts, Progress, Creating, Committing,
           Ended, Even, Ahead
  <2> QED
    BY <2>3, <2>4, <2>5
<1>6. CASE AppendCsv
  <2>1. /\ Ahead /\ Even /\ bin[Len(bin)] = sample /\ binSynced = Len(bin)
        /\ dir = "self" /\ sample \in Capture
    BY <1>6 DEF AppendCsv, Progress, Committing
  <2>2. NextRow = AheadRow
    BY <2>1 DEF NextRow, AheadRow, Memory, Ahead
  <2>3. NextRow \in Row
    BY BoundsAssumption DEF NextRow, TypeOK, CountsOK, WriterOK, Row
  <2>4. Len(Append(buffer, NextRow)) = 1 /\ Append(buffer, NextRow)[1] = NextRow
    BY <2>1, <2>3, AppendProperties, EmptySeq DEF Even
  <2>5. Buffered'
    BY <1>6, <2>1, <2>2, <2>4 DEF AppendCsv, disk, counts, Buffered, Even, Ahead, AheadRow
  <2>6. Memory' /\ CsvIsBacked' /\ AckedIsDurable' /\ Rows'
    BY <1>6 DEF AppendCsv, disk, counts, Memory, CsvIsBacked, AckedIsDurable, Rows
  <2>7. Progress'
    BY <1>6, <2>1, <2>4
       DEF AppendCsv, GoOn, ReturnErr, disk, counts, Progress, Creating, Committing,
           Ended, Even, Ahead
  <2> QED
    BY <2>5, <2>6, <2>7
<1>7. ASSUME Len(buffer) = 1, csv' = csv \o buffer,
             UNCHANGED <<bin, binSynced, counts, csvSynced>>
      PROVE  /\ Len(csv') = Len(acked) + 1
             /\ csv'[Len(csv')] = AheadRow
             /\ CsvIsBacked' /\ AckedIsDurable' /\ Memory'
  <2>1. /\ buffer[1] = AheadRow /\ Len(csv) = Len(acked)
        /\ Ahead /\ binSynced = Len(bin)
    <3>1. buffer \in Seq(Row) /\ Len(buffer) # 0
      BY <1>7 DEF TypeOK, WriterOK
    <3>2. buffer # <<>>
      BY <3>1, EmptySeq, Zenon
    <3> QED
      BY <3>2 DEF Buffered
  <2>2. /\ Len(csv') = Len(csv) + 1
        /\ \A k \in 1 .. Len(csv) : csv'[k] = csv[k]
        /\ csv'[Len(csv) + 1] = buffer[1]
    <3>1. csv \in Seq(Row) /\ buffer \in Seq(Row)
      BY DEF TypeOK, CsvOK, WriterOK
    <3> QED
      BY <1>7, <3>1, ConcatOne
  <2>3. CsvIsBacked'
    BY <1>7, <2>1, <2>2 DEF CsvIsBacked, AheadRow, Ahead
  <2>4. AckedIsDurable' /\ Memory'
    BY <1>7, <2>1, <2>2 DEF AckedIsDurable, Memory, counts
  <2> QED
    BY <2>1, <2>2, <2>3, <2>4
<1>8. CASE FlushCsv
  <2>1. /\ Ahead /\ bin[Len(bin)] = sample /\ binSynced = Len(bin)
        /\ Len(buffer) = 1 /\ csvTail = "clean" /\ dir = "self" /\ sample \in Capture
    BY <1>8 DEF FlushCsv, Progress, Committing
  <2>2. CASE csv' = csv \o buffer /\ buffer' = <<>> /\ UNCHANGED csvTail /\ GoOn("syncCsv")
    <3>1. UNCHANGED <<bin, binTail, binSynced, counts, csvSynced, dir, sample>>
      BY <1>8 DEF FlushCsv
    <3>2. /\ Len(csv') = Len(acked) + 1 /\ csv'[Len(csv')] = AheadRow
          /\ CsvIsBacked' /\ AckedIsDurable' /\ Memory'
      BY <1>7, <2>1, <2>2, <3>1
    <3>3. csv'[Len(csv')].sample = sample
      BY <2>1, <3>2 DEF AheadRow, Ahead
    <3>4. Rows' /\ Buffered'
      BY <2>1, <2>2, <3>1, <3>2 DEF Rows, Buffered, counts
    <3>5. Progress'
      BY <2>1, <2>2, <3>1, <3>2, <3>3
         DEF GoOn, counts, Progress, Creating, Committing, Ended
    <3> QED
      BY <3>2, <3>4, <3>5
  <2>3. CASE csvTail' \in {csvTail, "torn"} /\ UNCHANGED <<csv, buffer>> /\ ReturnErr
    <3>1. UNCHANGED <<bin, binTail, binSynced, counts, csvSynced, dir, sample>>
      BY <1>8 DEF FlushCsv
    <3>2. Len(csv) = Len(acked)
      BY <2>1, EmptySeq DEF Buffered
    <3>3. Memory' /\ CsvIsBacked' /\ AckedIsDurable' /\ Rows' /\ Buffered'
      BY <2>3, <3>1, <3>2
         DEF counts, Memory, CsvIsBacked, AckedIsDurable, Rows, Buffered, Ahead, AheadRow
    <3>4. Progress'
      BY <2>1, <2>3, <3>1
         DEF ReturnErr, counts, Progress, Creating, Committing, Ended, Ahead
    <3> QED
      BY <3>3, <3>4
  <2> QED
    BY <1>8, <2>2, <2>3 DEF FlushCsv
<1>9. CASE SyncCsv
  <2>1. /\ Len(csv) = Len(acked) + 1 /\ buffer = <<>> /\ csvTail = "clean"
        /\ csv[Len(csv)].sample = sample /\ dir = "self" /\ sample \in Capture
    BY <1>9 DEF SyncCsv, Progress, Committing
  <2>2. UNCHANGED <<bin, binTail, binSynced, csv, csvTail, buffer, dir, sample>>
    BY <1>9 DEF SyncCsv
  <2>3. CASE /\ csvSynced' = Len(csv)
             /\ next' = [index |-> next.index + 1, offset |-> next.offset + 1]
             /\ committed' = committed + 1
             /\ acked' = Append(acked, sample)
             /\ wpc' = "idle"
    <3>1. /\ Len(acked') = Len(acked) + 1 /\ acked'[Len(acked')] = sample
          /\ \A k \in 1 .. Len(acked) : acked'[k] = acked[k]
      BY <2>1, <2>3, AppendProperties DEF TypeOK, CountsOK
    <3>2. Memory'
      BY <2>3, <3>1 DEF Memory
    <3>3. AckedIsDurable'
      BY <2>1, <2>2, <2>3, <3>1 DEF AckedIsDurable
    <3>4. CsvIsBacked' /\ Rows' /\ Buffered'
      BY <2>1, <2>2, <3>1 DEF CsvIsBacked, Rows, Buffered
    <3>5. Progress'
      BY <2>1, <2>2, <2>3 DEF Progress, Creating, Committing, Ended
    <3> QED
      BY <3>2, <3>3, <3>4, <3>5
  <2>4. CASE ReturnErr /\ UNCHANGED <<csvSynced, next, committed, acked>>
    <3>1. Progress'
      BY <2>1, <2>2, <2>4 DEF ReturnErr, Progress, Creating, Committing, Ended
    <3> QED
      BY <2>2, <2>4, <3>1, CoreFrame
  <2> QED
    BY <1>9, <2>3, <2>4 DEF SyncCsv
<1>10. CASE AddOverrun
  <2>1. Progress'
    BY <1>10 DEF AddOverrun, writer, disk, Progress, Nothing, Ahead, Even,
                 Creating, Committing, Ended
  <2> QED
    BY <1>10, <2>1, CoreFrame DEF AddOverrun, disk, writer
<1>11. CASE FinalizeCompleted \/ FinalizeFailed
  <2>1. wpc = "idle" /\ UNCHANGED <<dir, bin, binTail, binSynced, csv, csvTail, csvSynced,
                                    counts, wpc, sample, buffer>>
    BY <1>11 DEF FinalizeCompleted, FinalizeFailed, Finalize
  <2>2. Progress'
    BY <2>1 DEF Progress, Ahead, Creating, Committing, Ended, counts
  <2> QED
    BY <2>1, <2>2, CoreFrame DEF counts
<1>12. CASE DropWriter
  <2>1. UNCHANGED <<bin, binTail, binSynced, counts, csvSynced, dir, sample>>
    BY <1>12 DEF DropWriter
  <2>2. wpc = "idle" /\ wpc' = "closed" /\ buffer' = <<>> /\ dir = "self"
    BY <1>12 DEF DropWriter, Progress
  <2>3. Progress'
    BY <2>1, <2>2 DEF Progress, Creating, Committing, Ended
  <2>4. Buffered'
    BY <2>2 DEF Buffered
  <2>5. CASE csvTail = "clean" /\ csv' = csv \o buffer /\ UNCHANGED csvTail
    <3>1. CASE buffer = <<>>
      <4>1. UNCHANGED csv
        BY <2>5, <3>1, ConcatEmptySeq DEF TypeOK, CsvOK
      <4>2. Memory' /\ CsvIsBacked' /\ AckedIsDurable' /\ Rows'
        BY <2>1, <2>5, <4>1 DEF counts, Memory, CsvIsBacked, AckedIsDurable, Rows
      <4> QED
        BY <2>3, <2>4, <4>2
    <3>2. CASE Len(buffer) = 1
      <4>1. Len(csv') = Len(acked) + 1 /\ CsvIsBacked' /\ AckedIsDurable' /\ Memory'
        BY <1>7, <2>1, <2>5, <3>2
      <4>2. Rows'
        BY <2>1, <2>5, <4>1 DEF Rows, counts
      <4> QED
        BY <2>3, <2>4, <4>1, <4>2
    <3> QED
      BY <3>1, <3>2 DEF Buffered
  <2>6. CASE buffer # <<>> /\ csvTail' \in {csvTail, "torn"} /\ UNCHANGED csv
    <3>1. Len(csv) = Len(acked)
      BY <2>6 DEF Buffered
    <3>2. Memory' /\ CsvIsBacked' /\ AckedIsDurable' /\ Rows'
      BY <2>1, <2>6, <3>1 DEF counts, Memory, CsvIsBacked, AckedIsDurable, Rows
    <3> QED
      BY <2>3, <2>4, <3>2
  <2>7. CASE UNCHANGED <<csv, csvTail>>
    <3>1. Memory' /\ CsvIsBacked' /\ AckedIsDurable' /\ Rows'
      BY <2>1, <2>7 DEF counts, Memory, CsvIsBacked, AckedIsDurable, Rows
    <3> QED
      BY <2>3, <2>4, <3>1
  <2> QED
    BY <1>12, <2>5, <2>6, <2>7 DEF DropWriter
<1>13. CASE ForeignDir
  <2>1. Progress'
    BY <1>13 DEF ForeignDir, counts, writer, Progress, Nothing, Ahead, Even,
                 AtExpectedOffset, Creating, Committing, Ended
  <2> QED
    BY <1>13, <2>1, CoreFrame DEF ForeignDir, counts, writer
<1>14. CASE Kill
  <2>1. Buffered'
    BY <1>14 DEF Kill, Buffered
  <2>2. Memory' /\ CsvIsBacked' /\ AckedIsDurable' /\ Rows'
    BY <1>14 DEF Kill, disk, counts, Memory, CsvIsBacked, AckedIsDurable, Rows
  <2>3. Progress'
    BY <1>14 DEF Kill, disk, counts, Progress, Nothing, Creating, Committing, Ended
  <2> QED
    BY <2>1, <2>2, <2>3
<1>15. CASE PowerLoss
  <2>1. UNCHANGED <<dir, counts>> /\ wpc' = "dead" /\ buffer' = <<>>
    BY <1>15 DEF PowerLoss
  <2>2. PICK b \in binSynced .. Len(bin) :
          /\ bin' = SubSeq(bin, 1, b) /\ binSynced' = b
          /\ binTail' \in Remains(binTail, b < Len(bin))
    BY <1>15 DEF PowerLoss
  <2>3. PICK c \in csvSynced .. Len(csv) :
          /\ csv' = SubSeq(csv, 1, c) /\ csvSynced' = c
          /\ csvTail' \in Remains(csvTail, c < Len(csv))
    BY <1>15 DEF PowerLoss
  <2>4. Len(bin') = b /\ \A k \in 1 .. b : bin'[k] = bin[k]
    BY <2>2, PrefixFacts DEF TypeOK, BinOK
  <2>5. Len(csv') = c /\ \A k \in 1 .. c : csv'[k] = csv[k]
    BY <2>3, PrefixFacts DEF TypeOK, CsvOK
  <2>6. CsvIsBacked'
    <3>1. ASSUME NEW k \in 1 .. c
          PROVE  /\ k <= b
                 /\ csv'[k] = [index |-> k, offset |-> k - 1, sample |-> bin'[k]]
      <4>1. k \in 1 .. Len(csv)
        BY <2>3
      <4>2. k <= binSynced
        BY <4>1, RowBacked
      <4>3. k <= b /\ k \in 1 .. b
        BY <2>2, <4>1, <4>2
      <4> QED
        BY <2>4, <2>5, <3>1, <4>1, <4>3, RowBacked
    <3> QED
      BY <2>2, <2>5, <3>1 DEF CsvIsBacked
  <2>7. AckedIsDurable'
    BY <2>1, <2>3, <2>5 DEF AckedIsDurable, counts
  <2>8. Memory' /\ Buffered'
    BY <2>1 DEF Memory, Buffered, counts
  <2>9. Rows'
    BY <2>1, <2>3, <2>5 DEF Rows, AckedIsDurable, Remains, counts, Tails
  <2>10. Progress'
    <3>1. CASE dir = "self"
      BY <2>1, <3>1 DEF Progress, Creating, Committing, Ended
    <3>2. CASE dir # "self"
      <4>1. Nothing /\ acked = <<>>
        BY <3>2 DEF Progress
      <4>2. bin' = <<>> /\ csv' = <<>> /\ binTail' = "clean" /\ csvTail' = "clean"
        BY <2>2, <2>3, <2>4, <2>5, <4>1, EmptySeq, PrefixFacts
           DEF Nothing, Remains, TypeOK, BinOK, CsvOK
      <4>3. manifests' = <<>>
        <5>1. PICK m \in manifestsSynced .. Len(manifests) :
                manifests' = SubSeq(manifests, 1, m)
          BY <1>15 DEF PowerLoss
        <5>2. m \in 0 .. Len(manifests) /\ Len(manifests) = 0
          BY <4>1, <5>1, EmptySeq DEF Nothing, TypeOK, ManifestsOK
        <5>3. Len(manifests') = 0 /\ manifests' \in Seq(Manifest)
          BY <5>1, <5>2, PrefixFacts DEF TypeOK, ManifestsOK
        <5> QED
          BY <5>3, EmptySeq
      <4> QED
        BY <2>1, <4>1, <4>2, <4>3
           DEF Progress, Nothing, counts, Creating, Committing, Ended
    <3> QED
      BY <3>1, <3>2
  <2> QED
    BY <2>6, <2>7, <2>8, <2>9, <2>10
<1>17. CASE UNCHANGED wvars
  <2>1. Progress'
    BY <1>17 DEF wvars, disk, counts, writer, Progress, Nothing, Ahead, Even,
                 AtExpectedOffset
  <2> QED
    BY <1>17, <2>1, CoreFrame DEF wvars, disk, counts, writer
<1> QED
  BY <1>1, <1>2, <1>3, <1>4, <1>5, <1>6, <1>8, <1>9, <1>10, <1>11, <1>12, <1>13,
     <1>14, <1>15, <1>17 DEF WNext, CommitStep

(* The versions of the manifest: a new one counts what the writer counts,    *)
(* the counters never go back, and a loss leaves a prefix.                   *)
CountersGrow ==
  /\ committed' \in Nat /\ committed <= committed'
  /\ overruns' \in Nat /\ overruns <= overruns'

LEMMA CountersStep == TypeOK /\ [WNext]_wvars => CountersGrow
<1> SUFFICES ASSUME TypeOK, [WNext]_wvars PROVE CountersGrow
  OBVIOUS
<1>1. committed \in Nat /\ overruns \in Nat
  BY BoundsAssumption DEF TypeOK, CountsOK
<1> QED
  BY <1>1, BoundsAssumption
     DEF TypeOK, CountsOK, CountersGrow, WNext, wvars, counts, disk, writer,
         Create, CheckAbsent, MakeDir, CreateArtifacts, CreateManifest,
         BeginCommit, CommitStep, Validate, AppendBin, SyncBin, AppendCsv, FlushCsv,
         SyncCsv, AddOverrun, FinalizeCompleted, FinalizeFailed, Finalize,
         DropWriter, ForeignDir, Kill, PowerLoss

(* Each step publishes a version, loses some, or leaves them alone.          *)
ManifestStep ==
  \/ UNCHANGED manifests
  \/ /\ \E st \in Status : manifests' = Append(manifests, Version(st))
     /\ UNCHANGED counts
  \/ /\ \E m \in 0 .. Len(manifests) : manifests' = SubSeq(manifests, 1, m)
     /\ UNCHANGED counts

LEMMA ManifestSteps == TypeOK /\ [WNext]_wvars => ManifestStep
<1> SUFFICES ASSUME TypeOK, [WNext]_wvars PROVE ManifestStep
  OBVIOUS
<1>1. CASE CreateManifest
  BY <1>1 DEF CreateManifest, Publish, ManifestStep, Status, disk
<1>2. CASE FinalizeCompleted \/ FinalizeFailed
  BY <1>2 DEF FinalizeCompleted, FinalizeFailed, Finalize, Publish, ManifestStep, Status
<1>3. CASE PowerLoss
  <2>1. PICK m \in manifestsSynced .. Len(manifests) :
          manifests' = SubSeq(manifests, 1, m)
    BY <1>3 DEF PowerLoss
  <2>2. m \in 0 .. Len(manifests)
    BY <2>1, Lengths DEF TypeOK, ManifestsOK
  <2> QED
    BY <1>3, <2>1, <2>2 DEF PowerLoss, ManifestStep
<1>4. CASE ~ (CreateManifest \/ FinalizeCompleted \/ FinalizeFailed \/ PowerLoss)
  BY <1>4
     DEF ManifestStep, WNext, wvars, disk, Create, CheckAbsent, MakeDir, CreateArtifacts,
         BeginCommit, CommitStep, Validate, AppendBin, SyncBin, AppendCsv, FlushCsv,
         SyncCsv, AddOverrun, DropWriter, ForeignDir, Kill
<1> QED
  BY <1>1, <1>2, <1>3, <1>4

LEMMA CountedStep ==
  TypeOK /\ Counted /\ Monotone /\ [WNext]_wvars => Counted' /\ Monotone'
<1> SUFFICES ASSUME TypeOK, Counted, Monotone, [WNext]_wvars
             PROVE  Counted' /\ Monotone'
  OBVIOUS
<1>1. CountersGrow /\ ManifestStep /\ Len(manifests) \in Nat
  BY CountersStep, ManifestSteps, Lengths
<1>2. /\ manifests \in Seq(Manifest) /\ committed \in Nat /\ overruns \in Nat
      /\ \A i \in 1 .. Len(manifests) :
           manifests[i].committed \in Nat /\ manifests[i].overruns \in Nat
  <2>1. \A i \in 1 .. Len(manifests) : manifests[i] \in Manifest
    BY ElementOfSeq DEF TypeOK, ManifestsOK
  <2> QED
    BY <2>1, BoundsAssumption DEF TypeOK, ManifestsOK, CountsOK, Manifest
<1>3. CASE UNCHANGED manifests
  BY <1>1, <1>2, <1>3 DEF CountersGrow, Counted, Monotone
<1>4. ASSUME NEW st \in Status, manifests' = Append(manifests, Version(st)),
             UNCHANGED counts
      PROVE  Counted' /\ Monotone'
  <2>1. Version(st) \in Manifest
    BY <1>2 DEF Version, Manifest
  <2>2. /\ Len(manifests') = Len(manifests) + 1
        /\ manifests'[Len(manifests) + 1] = Version(st)
        /\ \A i \in 1 .. Len(manifests) : manifests'[i] = manifests[i]
    BY <1>2, <1>4, <2>1, AppendProperties
  <2>3. Version(st).committed = committed /\ Version(st).overruns = overruns
    BY DEF Version
  <2>4. ASSUME NEW i \in 1 .. Len(manifests')
        PROVE  manifests'[i].committed <= committed /\ manifests'[i].overruns <= overruns
    <3>1. CASE i \in 1 .. Len(manifests)
      BY <2>2, <3>1 DEF Counted
    <3>2. CASE i = Len(manifests) + 1
      BY <1>2, <2>2, <2>3, <3>2
    <3> QED
      BY <1>1, <2>2, <3>1, <3>2
  <2>5. ASSUME NEW i \in 1 .. Len(manifests'), NEW j \in 1 .. Len(manifests'), i < j
        PROVE  /\ manifests'[i].committed <= manifests'[j].committed
               /\ manifests'[i].overruns <= manifests'[j].overruns
    <3>1. i \in 1 .. Len(manifests)
      BY <1>1, <2>2, <2>5
    <3>2. CASE j \in 1 .. Len(manifests)
      BY <2>2, <2>5, <3>1, <3>2 DEF Monotone
    <3>3. CASE j = Len(manifests) + 1
      BY <2>2, <2>3, <2>4, <3>1, <3>3
    <3> QED
      BY <1>1, <2>2, <3>2, <3>3
  <2> QED
    BY <1>4, <2>4, <2>5 DEF Counted, Monotone, counts
<1>5. ASSUME NEW m \in 0 .. Len(manifests), manifests' = SubSeq(manifests, 1, m),
             UNCHANGED counts
      PROVE  Counted' /\ Monotone'
  <2>1. Len(manifests') = m /\ \A i \in 1 .. m : manifests'[i] = manifests[i]
    BY <1>2, <1>5, PrefixFacts
  <2>2. \A i \in 1 .. m : i \in 1 .. Len(manifests)
    BY <1>1
  <2> QED
    BY <1>5, <2>1, <2>2 DEF Counted, Monotone, counts
<1> QED
  BY <1>1, <1>3, <1>4, <1>5 DEF ManifestStep

-----------------------------------------------------------------------------
LEMMA InvInit == WInit => WriterInv
<1>1. WInit => Counted /\ Monotone
  <2> SUFFICES ASSUME WInit PROVE Counted /\ Monotone
    OBVIOUS
  <2>1. Len(manifests) = 0
    BY EmptySeq DEF WInit
  <2> QED
    BY <2>1 DEF Counted, Monotone
<1> QED
  BY <1>1, TypeInit, CoreInit DEF WriterInv

LEMMA InvStep == WriterInv /\ [WNext]_wvars => WriterInv'
BY TypeStep, CoreStep, CountedStep DEF WriterInv

LEMMA WriterInvariant == WSpec => []WriterInv
BY InvInit, InvStep, PTL DEF WSpec

(* The CSV is the commit marker: however many commits, errors, kills and     *)
(* power losses there were, every row describes bytes the BIN durably holds. *)
THEOREM CommitMarker == WSpec => []CsvIsBacked
<1>1. WriterInv => CsvIsBacked
  BY DEF WriterInv, Core
<1> QED
  BY <1>1, WriterInvariant, PTL

(* A sample reported committed is durable, in its place, for good.           *)
THEOREM ReportedSamplesLast == WSpec => []AckedIsDurable
<1>1. WriterInv => AckedIsDurable
  BY DEF WriterInv, Core
<1> QED
  BY <1>1, WriterInvariant, PTL

(* However often a failed writer is used again, one row at most is unknown   *)
(* to its owner.                                                             *)
THEOREM UnreportedRowsBounded == WSpec => []OneUnreportedRow
<1>1. WriterInv => OneUnreportedRow
  <2> SUFFICES ASSUME WriterInv PROVE OneUnreportedRow
    OBVIOUS
  <2> USE Lengths DEF WriterInv, Core
  <2>1. CASE buffer = <<>>
    <3>1. Len(buffer) = 0
      BY <2>1, EmptySeq
    <3> QED
      BY <2>1, <3>1 DEF OneUnreportedRow, Rows
  <2>2. CASE buffer # <<>>
    <3>1. Len(buffer) = 1 /\ Len(csv) = Len(acked)
      BY <2>2 DEF Buffered
    <3> QED
      BY <2>2, <3>1 DEF OneUnreportedRow
  <2> QED
    BY <2>1, <2>2
<1> QED
  BY <1>1, WriterInvariant, PTL

(* A session directory somebody else made is never written to.               *)
THEOREM OtherDirectoriesSafe == WSpec => []ForeignDirUntouched
<1>1. WriterInv => ForeignDirUntouched
  BY DEF WriterInv, Core, Progress, Nothing, ForeignDirUntouched
<1> QED
  BY <1>1, WriterInvariant, PTL

(* No version of the manifest counts a sample that is not durable, and later *)
(* versions never count less.                                                *)
THEOREM ManifestsTruthful == WSpec => []ManifestsCountDurable
<1>1. WriterInv => ManifestsCountDurable
  <2> SUFFICES ASSUME WriterInv PROVE ManifestsCountDurable
    OBVIOUS
  <2>1. committed <= csvSynced
    BY DEF WriterInv, Core, Memory, AckedIsDurable
  <2>2. ASSUME NEW i \in 1 .. Len(manifests)
        PROVE  manifests[i].committed <= csvSynced
    <3>1. manifests[i] \in Manifest
      BY ElementOfSeq DEF WriterInv, TypeOK, ManifestsOK
    <3>2. manifests[i].committed \in Nat /\ manifests[i].committed <= committed
      BY <3>1 DEF WriterInv, Counted, Manifest
    <3> QED
      BY <2>1, <3>2, Lengths DEF WriterInv, TypeOK, CountsOK
  <2> QED
    BY <2>2 DEF WriterInv, Monotone, ManifestsCountDurable
<1> QED
  BY <1>1, WriterInvariant, PTL

(* Once a failed commit left bytes behind, nothing is appended to the BIN    *)
(* and nothing is reported committed any more.                               *)
THEOREM PoisonedForGood == WSpec => PoisonIsFinal
<1>1. [WNext]_wvars =>
        [Poisoned => /\ acked' = acked
                     /\ wpc' \in {"idle", "validate"} => Poisoned'
                     /\ wpc' \in {"idle", "validate"} \cup Ended]_wvars
  BY DEF WNext, wvars, disk, counts, writer, Poisoned, AtExpectedOffset, Ended,
         Create, CheckAbsent, MakeDir, CreateArtifacts, CreateManifest,
         BeginCommit, CommitStep, Validate, GoOn, ReturnErr, AppendBin, SyncBin,
         AppendCsv, FlushCsv, SyncCsv, AddOverrun, FinalizeCompleted,
         FinalizeFailed, Finalize, DropWriter, ForeignDir, Kill, PowerLoss
<1> QED
  BY <1>1, PTL DEF WSpec, PoisonIsFinal

-----------------------------------------------------------------------------
(* The recorder implements the log.                                          *)

StoredOK ==
  /\ Stored \in Seq(Capture)
  /\ Len(Stored) = Len(csv)
  /\ \A k \in 1 .. Len(csv) : Stored[k] = csv[k].sample

LEMMA StoredFacts == WriterInv => StoredOK
<1> SUFFICES ASSUME WriterInv PROVE StoredOK
  OBVIOUS
<1> USE Lengths DEF WriterInv, Core
<1>1. \A k \in 1 .. Len(csv) : csv[k].sample \in Capture
  <2> SUFFICES ASSUME NEW k \in 1 .. Len(csv) PROVE csv[k].sample \in Capture
    OBVIOUS
  <2>1. /\ k \in 1 .. Len(bin)
        /\ csv[k] = [index |-> k, offset |-> k - 1, sample |-> bin[k]]
    BY RowBacked
  <2> QED
    BY <2>1, ElementOfSeq DEF TypeOK, BinOK
<1>2. Stored \in [1 .. Len(csv) -> Capture]
  BY <1>1 DEF Stored
<1>3. Stored \in Seq(Capture)
  BY <1>2, SeqDef
<1>4. DOMAIN Stored = 1 .. Len(csv) /\ DOMAIN Stored = 1 .. Len(Stored)
  BY <1>2, <1>3, LenProperties
<1>5. Len(Stored) \in Nat
  BY <1>3, LenProperties
<1> QED
  BY <1>3, <1>4, <1>5 DEF Stored, StoredOK

(* A step of the recorder adds a row to a settled log, reports the last row, *)
(* loses a row that was not reported, or touches neither.                    *)
LEMMA LogSteps ==
  ASSUME WriterInv, WriterInv', [WNext]_wvars
  PROVE  \/ UNCHANGED <<csv, acked>>
         \/ /\ UNCHANGED acked
            /\ Len(csv) = Len(acked) /\ Len(csv') = Len(csv) + 1
            /\ \A k \in 1 .. Len(csv) : csv'[k] = csv[k]
         \/ UNCHANGED csv /\ Len(acked') = Len(acked) + 1
         \/ UNCHANGED acked /\ Len(csv) = Len(acked) + 1 /\ Len(csv') = Len(acked)
<1> USE Lengths DEF WriterInv, Core
<1>1. ASSUME csv' = csv \o buffer, UNCHANGED acked
      PROVE  \/ UNCHANGED csv
             \/ /\ Len(csv) = Len(acked) /\ Len(csv') = Len(csv) + 1
                /\ \A k \in 1 .. Len(csv) : csv'[k] = csv[k]
  <2>1. CASE buffer = <<>>
    BY <1>1, <2>1, ConcatEmptySeq DEF TypeOK, CsvOK
  <2>2. CASE Len(buffer) = 1 /\ Len(csv) = Len(acked)
    BY <1>1, <2>2, ConcatOne DEF TypeOK, CsvOK, WriterOK
  <2> QED
    BY <2>1, <2>2 DEF Buffered
<1>2. CASE FlushCsv \/ DropWriter
  BY <1>1, <1>2 DEF FlushCsv, DropWriter, counts
<1>3. CASE SyncCsv
  <2>1. sample \in Capture
    BY <1>3 DEF SyncCsv, Progress, Committing
  <2>2. Len(Append(acked, sample)) = Len(acked) + 1
    BY <2>1, AppendProperties DEF TypeOK, CountsOK
  <2> QED
    BY <1>3, <2>2 DEF SyncCsv
<1>4. CASE PowerLoss
  <2>1. UNCHANGED acked
    BY <1>4 DEF PowerLoss, counts
  <2>2. PICK c \in csvSynced .. Len(csv) : csv' = SubSeq(csv, 1, c)
    BY <1>4 DEF PowerLoss
  <2>3. c \in 0 .. Len(csv) /\ Len(csv') = c
    BY <2>2, PrefixFacts DEF TypeOK, CsvOK
  <2>4. CASE c = Len(csv)
    <3>1. csv' = csv
      BY <2>2, <2>4, SubSeqFull DEF TypeOK, CsvOK
    <3> QED
      BY <2>1, <3>1
  <2>5. CASE c # Len(csv)
    BY <2>1, <2>2, <2>3, <2>5 DEF AckedIsDurable, Rows
  <2> QED
    BY <2>4, <2>5
<1>5. CASE ~ (FlushCsv \/ DropWriter \/ SyncCsv \/ PowerLoss)
  BY <1>5
     DEF WNext, wvars, disk, counts, Create, CheckAbsent, MakeDir, CreateArtifacts,
         CreateManifest, BeginCommit, CommitStep, Validate, AppendBin, SyncBin,
         AppendCsv, AddOverrun, FinalizeCompleted, FinalizeFailed, Finalize,
         ForeignDir, Kill
<1> QED
  BY <1>2, <1>3, <1>4, <1>5

LEMMA LogInit == WInit => Log!LInit
<1> SUFFICES ASSUME WInit PROVE Log!LInit
  OBVIOUS
<1>1. Len(csv) = 0 /\ WriterInv
  BY InvInit, EmptySeq DEF WInit
<1>2. Stored \in Seq(Capture) /\ Len(Stored) = 0
  BY <1>1, StoredFacts DEF StoredOK
<1> QED
  BY <1>2, EmptySeq DEF Log!LInit, WInit

LEMMA LogStep ==
  WriterInv /\ WriterInv' /\ [WNext]_wvars => [Log!LNext]_(Log!lvars)
<1> SUFFICES ASSUME WriterInv, WriterInv', [WNext]_wvars
             PROVE  [Log!LNext]_(Log!lvars)
  OBVIOUS
<1>1. /\ Stored \in Seq(Capture) /\ Len(Stored) = Len(csv)
      /\ \A k \in 1 .. Len(csv) : Stored[k] = csv[k].sample
  BY StoredFacts DEF StoredOK
<1>2. /\ Stored' \in Seq(Capture) /\ Len(Stored') = Len(csv')
      /\ \A k \in 1 .. Len(csv') : Stored'[k] = csv'[k].sample
  <2>1. StoredOK'
    BY StoredFacts, PTL
  <2> QED
    BY <2>1 DEF StoredOK
<1>3. /\ acked \in Seq(Capture) /\ acked' \in Seq(Capture)
      /\ \A k \in 1 .. Len(acked) : acked[k] = csv[k].sample
      /\ \A k \in 1 .. Len(acked') : acked'[k] = csv'[k].sample
  BY DEF WriterInv, Core, TypeOK, CountsOK, AckedIsDurable
<1>4. Len(csv) \in Nat /\ Len(acked) \in Nat /\ Len(csv') \in Nat /\ Len(acked') \in Nat
  BY Lengths DEF WriterInv
<1>5. CASE UNCHANGED <<csv, acked>>
  BY <1>5 DEF Stored, Log!lvars
<1>6. CASE /\ UNCHANGED acked
           /\ Len(csv) = Len(acked) /\ Len(csv') = Len(csv) + 1
           /\ \A k \in 1 .. Len(csv) : csv'[k] = csv[k]
  <2>1. PICK v \in Capture : v = Stored'[Len(csv')]
    BY <1>2, <1>4, <1>6, ElementOfSeq
  <2>2. Stored = acked
    BY <1>1, <1>3, <1>6, SeqEqual
  <2>3. /\ Append(Stored, v) \in Seq(Capture)
        /\ Len(Append(Stored, v)) = Len(Stored) + 1
        /\ \A k \in 1 .. Len(Stored) : Append(Stored, v)[k] = Stored[k]
        /\ Append(Stored, v)[Len(Stored) + 1] = v
    BY <1>1, <2>1, AppendProperties
  <2>4. ASSUME NEW k \in 1 .. Len(csv')
        PROVE  Stored'[k] = Append(Stored, v)[k]
    <3>1. CASE k \in 1 .. Len(csv)
      BY <1>1, <1>2, <1>6, <2>3, <3>1
    <3>2. CASE k = Len(csv')
      BY <1>1, <1>6, <2>1, <2>3, <3>2
    <3>3. k \in 1 .. Len(csv) \/ k = Len(csv')
      BY <1>4, <1>6, <2>4
    <3> QED
      BY <3>1, <3>2, <3>3
  <2>5. Stored' = Append(Stored, v)
    BY <1>1, <1>2, <1>6, <2>3, <2>4, SeqEqual
  <2> QED
    BY <1>6, <2>1, <2>2, <2>5 DEF Log!LNext, Log!Store, Log!Settled
<1>7. CASE UNCHANGED csv /\ Len(acked') = Len(acked) + 1
  <2>1. Len(acked') = Len(csv)
    BY <1>4, <1>7 DEF WriterInv, Core, Rows, AckedIsDurable, TypeOK, CsvOK
  <2>2. Stored' = Stored
    BY <1>7 DEF Stored
  <2>3. acked' = Stored
    BY <1>1, <1>3, <1>7, <2>1, SeqEqual
  <2>4. Stored # acked
    BY <1>1, <1>4, <1>7, <2>1
  <2> QED
    BY <2>2, <2>3, <2>4 DEF Log!LNext, Log!Report, Log!Settled
<1>8. CASE UNCHANGED acked /\ Len(csv) = Len(acked) + 1 /\ Len(csv') = Len(acked)
  <2>1. Stored' = acked
    BY <1>2, <1>3, <1>8, SeqEqual
  <2>2. Stored # acked
    BY <1>1, <1>4, <1>8
  <2> QED
    BY <1>8, <2>1, <2>2 DEF Log!LNext, Log!Lose, Log!Settled
<1> QED
  BY <1>5, <1>6, <1>7, <1>8, LogSteps

(* The recorder implements the commit log: each step stores one sample,      *)
(* reports it, loses an unreported one, or changes nothing a reader of the   *)
(* CSV or the owner can see.                                                 *)
THEOREM RecorderImplementsLog == WSpec => ImplementsCommitLog
<1>1. WSpec => Log!LSpec
  BY LogInit, LogStep, WriterInvariant, PTL DEF WSpec, Log!LSpec
<1> QED
  BY <1>1 DEF ImplementsCommitLog

=============================================================================
