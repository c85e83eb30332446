-------------------------- MODULE ConcatenationProofs --------------------------
(***************************************************************************)
(* Proofs about the creators of concatenation bundles, for any number of   *)
(* them, any inputs and any rewriting of the inputs.  The invariant says   *)
(* of one creator how far its staged CSV has come: the rows of the inputs  *)
(* before the nth are those their entries stand for, the rows after them   *)
(* are those read so far.  A second one, for inputs that do not change,    *)
(* says how far the call has come towards the right verdict (Verdicts).    *)
(***************************************************************************)
EXTENDS Concatenation, SequenceTheorems, FiniteSetTheorems, WellFoundedInduction, TLAPS

(* consecutive output ranges from 1, each as long as its input *)
Ranges(entries) ==
  /\ \A k \in 1 .. Len(entries) :
       entries[k].end = entries[k].start + Len(entries[k].rows) - 1
  /\ Len(entries) > 0 => entries[1].start = 1
  /\ \A k \in 1 .. Len(entries) - 1 : entries[k + 1].start = entries[k].end + 1

Counted(j) ==
  /\ Ranges(j.entries)
  /\ j.pc = "scan" => Len(j.files) < Len(j.paths)
  /\ j.pc = "order" => Len(j.files) > 0
  /\ j.pc \in {"inspect", "scan", "order"} => j.entries = <<>>
  /\ j.pc = "number" => Len(j.entries) < Len(j.files)
  /\ j.pc \in {"number", "stage"} => j.rows = <<>>
  /\ j.pc \in {"stage"} \cup Copying => Len(j.entries) = Len(j.files) /\ Len(j.files) > 0

(* the last output index of the inputs before the nth *)
Base(j) == IF j.nth = 1 THEN 0 ELSE j.entries[j.nth - 1].end

LineOK(j, k, line) ==
  /\ line.index = k
  /\ line.input \in 1 .. Len(j.entries)
  /\ line.input <= j.nth
  /\ line.inputIndex = k - j.entries[line.input].start + 1
  /\ line.input < j.nth => /\ k <= j.entries[line.input].end
                           /\ line.row = j.entries[line.input].rows[line.inputIndex]
  /\ line.input = j.nth => line.row = j.rows[line.inputIndex]

Copied(j, csv) ==
  /\ Len(csv) = Base(j) + Len(j.rows)
  /\ \A k \in 1 .. Len(csv) : LineOK(j, k, csv[k])

Progress(j) ==
  /\ j.pc \in Inspecting => j.nth = 1
  /\ j.pc = "copy" => j.nth <= Len(j.files)
  /\ j.pc \in Copying \ {"copy"} => j.nth = Len(j.files) + 1 /\ j.rows = <<>>

Complete(b, stem) ==
  /\ b.csvSynced /\ b.manifestSynced
  /\ Opens(b)
  /\ Hashed(b)
  /\ b.manifest.stem = stem

Told(j) ==
  /\ j.pc \in Inspecting \cup Copying \cup {"dead"} => j.ret = "nothing"
  /\ j.pc = "cleanup" => j.ret \in Reasons

Local(c, j, b) ==
  /\ Counted(j) /\ Progress(j) /\ Told(j)
  /\ b.by \in {c, "nobody"}
  /\ j.pc \in Inspecting => b = Nothing
  /\ j.pc \in Copying => b.by = c /\ Copied(j, b.csv)
  /\ j.pc \in {"manifest", "promote", "rename"} => b.csvSynced
  /\ j.pc \in {"promote", "rename"} => Complete(b, OutputStem(j.files))

Locals == \A c \in Creators : Local(c, job[c], staging[c])

Published == \A stem \in Stems : out[stem].by \in Creators => Complete(out[stem], stem)

TurnedAway ==
  \A c \in Creators :
    job[c].pc = "cleanup" /\ job[c].ret = "exists" => \E stem \in Stems : Exists(out[stem])

ConcatInv == CTypeOK /\ Locals /\ Published /\ TurnedAway

-----------------------------------------------------------------------------
(* What the assumptions say of one path, and of the state.                   *)
LEMMA PathFacts ==
  ASSUME NEW path \in Paths
  PROVE  /\ About[path] \in [file : STRING, name : Nat, source : STRING, fold : STRING,
                             bits : Nat, interval : Nat, format : Formats]
         /\ About[path].file \in Canonical
         /\ Stem(About[path].source, About[path].fold, About[path].bits,
                 About[path].interval) \in Stems
         /\ Stem("mixed", "none", About[path].bits, About[path].interval) \in Stems
  BY InputsAssumption DEF Canonical, Stems

(* The name of a bundle is one of the stems.                                 *)
LEMMA OutputStemIsStem ==
  ASSUME NEW files \in Seq(Scanned), Len(files) > 0
  PROVE  OutputStem(files) \in Stems
<1>1. files[1].path \in Paths
  <2>1. files[1] \in Scanned
    BY ElementOfSeq, LenProperties
  <2> QED
    BY <2>1 DEF Scanned
<1> QED
  BY <1>1, PathFacts DEF OutputStem

(* A row that is read is a row.                                              *)
LEMMA RowFacts ==
  ASSUME CTypeOK, NEW c \in Creators, NEW path \in Paths, More(c, path)
  PROVE  NextRow(c, path) \in Row
<1>1. Content(path) \in Seq(Row)
  BY PathFacts DEF CTypeOK, Content
<1>2. job[c].rows \in Seq(Row)
  BY DEF CTypeOK, JobState
<1>3. Len(job[c].rows) + 1 \in 1 .. Len(Content(path))
  BY <1>1, <1>2 DEF More
<1> QED
  BY <1>1, <1>3 DEF NextRow

(* A call that ends keeps its request only.                                  *)
LEMMA EndedFacts ==
  ASSUME NEW j \in JobState, NEW pc \in {"done", "dead", "cleanup"},
         NEW ret \in Reasons \cup {"nothing", "ok"},
         pc = "dead" => ret = "nothing",
         pc = "cleanup" => ret \in Reasons,
         NEW c, NEW b, b.by \in {c, "nobody"}
  PROVE  /\ Call(j, pc, ret) \in JobState
         /\ Local(c, Call(j, pc, ret), b)
<1> DEFINE e == Call(j, pc, ret)
<1>1. /\ e.pc = pc /\ e.files = <<>> /\ e.rows = <<>> /\ e.entries = <<>>
      /\ e.nth = 1 /\ e.ret = ret
  BY DEF Call
<1>2. e \in JobState
  BY EmptySeq DEF Call, JobState, Over, Reasons
<1>3. e.pc \notin Inspecting \cup Copying
  BY <1>1 DEF Inspecting, Copying
<1>4. Ranges(e.entries)
  BY <1>1, EmptySeq DEF Ranges
<1>5. Counted(e) /\ Progress(e) /\ Told(e)
  BY <1>1, <1>3, <1>4 DEF Counted, Progress, Told, Inspecting, Copying
<1> QED
  BY <1>2, <1>3, <1>5 DEF Local, Copying

(* What an error changes.                                                    *)
LEMMA FailFacts ==
  ASSUME CTypeOK, NEW c \in Creators, staging[c].by \in {c, "nobody"},
         NEW reason \in Reasons, Fail(c, reason)
  PROVE  /\ job' \in [Creators -> JobState]
         /\ Local(c, job'[c], staging[c])
         /\ \A d \in Creators : d # c => job'[d] = job[d]
         /\ job'[c].ret = reason
         /\ job'[c].pc = IF Exists(staging[c]) THEN "cleanup" ELSE "done"
<1> DEFINE pc == IF Exists(staging[c]) THEN "cleanup" ELSE "done"
           e == Call(job[c], pc, reason)
<1>1. job[c] \in JobState /\ job \in [Creators -> JobState]
  BY DEF CTypeOK
<1>2. pc \in {"done", "dead", "cleanup"} /\ pc # "dead"
  OBVIOUS
<1>3. e \in JobState /\ Local(c, e, staging[c])
  BY <1>1, <1>2, EndedFacts
<1>4. job' = [job EXCEPT ![c] = e]
  BY DEF Fail, Leave
<1>5. e.ret = reason /\ e.pc = pc
  BY DEF Call
<1> QED
  BY <1>1, <1>3, <1>4, <1>5

-----------------------------------------------------------------------------
(* What a step of creator c leaves behind, for itself and the others.        *)
Stepped(c) ==
  /\ job' \in [Creators -> JobState]
  /\ staging' \in [Creators -> Bundle]
  /\ Local(c, job'[c], staging'[c])
  /\ \A d \in Creators : d # c => job'[d] = job[d] /\ staging'[d] = staging[d]

(* Who is told that the name is taken is told the truth.                     *)
Answered(c) ==
  /\ job'[c].pc = "done" => job'[c].ret \in Reasons
  /\ job'[c].pc \in {"cleanup", "done"} /\ job'[c].ret = "exists" =>
       \E stem \in Stems : Exists(out[stem])

LEMMA FailSteps ==
  ASSUME CTypeOK, Locals, NEW c \in Creators, NEW reason \in Reasons,
         reason = "exists" => \E stem \in Stems : Exists(out[stem]),
         Fail(c, reason), UNCHANGED staging
  PROVE  Stepped(c) /\ Answered(c)
<1>1. staging[c].by \in {c, "nobody"}
  BY DEF Locals, Local
<1> QED
  BY <1>1, FailFacts DEF Stepped, Answered, CTypeOK

(* Before there is a staging directory only the call's own data matters.     *)
LEMMA InspectingIsLocal ==
  ASSUME NEW c, NEW j \in JobState, j.pc \in Inspecting,
         Counted(j), j.nth = 1, j.ret = "nothing", NEW b, b = Nothing
  PROVE  Local(c, j, b)
<1>1. j.pc \notin Copying \cup {"cleanup"} /\ j.pc # "copy"
  BY DEF Inspecting, Copying
<1>2. Progress(j) /\ Told(j)
  BY <1>1 DEF Progress, Told
<1> QED
  BY <1>1, <1>2 DEF Local, Copying, Nothing

LEMMA InspectingFacts ==
  ASSUME CTypeOK, Locals, NEW c \in Creators, job[c].pc \in Inspecting
  PROVE  /\ job[c] \in JobState /\ job \in [Creators -> JobState]
         /\ Counted(job[c]) /\ job[c].nth = 1 /\ job[c].ret = "nothing"
         /\ staging[c] = Nothing /\ staging \in [Creators -> Bundle]
  BY DEF CTypeOK, Locals, Local, Progress, Told

LEMMA InspectPathSteps ==
  ASSUME CTypeOK, Locals, NEW c \in Creators, InspectPath(c)
  PROVE  Stepped(c) /\ Answered(c)
<1> DEFINE n == Len(job[c].files) + 1
<1>1. UNCHANGED staging /\ job[c].pc = "inspect" /\ job[c].pc \in Inspecting
  BY DEF InspectPath, At, Inspecting
<1>2. /\ job[c] \in JobState /\ job \in [Creators -> JobState]
      /\ Counted(job[c]) /\ job[c].nth = 1 /\ job[c].ret = "nothing"
      /\ staging[c] = Nothing /\ staging \in [Creators -> Bundle]
  BY <1>1, InspectingFacts
<1>3. /\ job[c].files \in Seq(Scanned) /\ job[c].paths \in Seq(Paths)
      /\ job[c].entries = <<>> /\ Ranges(job[c].entries)
  BY <1>1, <1>2 DEF JobState, Counted
<1>4. CASE n <= Len(job[c].paths) /\ job' = [job EXCEPT ![c].pc = "scan", ![c].rows = <<>>]
  <2> DEFINE j == job'[c]
  <2>1. /\ j \in JobState /\ job' \in [Creators -> JobState]
        /\ j.pc = "scan" /\ j.files = job[c].files /\ j.paths = job[c].paths
        /\ j.entries = job[c].entries /\ j.nth = 1 /\ j.ret = "nothing"
        /\ \A d \in Creators : d # c => job'[d] = job[d]
    BY <1>2, <1>4, EmptySeq DEF JobState, Inspecting
  <2>2. Counted(j)
    BY <1>3, <1>4, <2>1, LenProperties DEF Counted, Copying
  <2>3. Local(c, j, staging'[c])
    BY <1>1, <1>2, <2>1, <2>2, InspectingIsLocal DEF Inspecting
  <2> QED
    BY <1>1, <1>2, <2>1, <2>3 DEF Stepped, Answered
<1>5. CASE /\ n > Len(job[c].paths) /\ job[c].paths # <<>>
           /\ job' = [job EXCEPT ![c].pc = "order"]
  <2> DEFINE j == job'[c]
  <2>1. /\ j \in JobState /\ job' \in [Creators -> JobState]
        /\ j.pc = "order" /\ j.files = job[c].files /\ j.paths = job[c].paths
        /\ j.entries = job[c].entries /\ j.nth = 1 /\ j.ret = "nothing"
        /\ \A d \in Creators : d # c => job'[d] = job[d]
    BY <1>2, <1>5 DEF JobState, Inspecting
  <2>2. Len(job[c].files) > 0
    BY <1>3, <1>5, EmptySeq, LenProperties
  <2>3. Counted(j)
    BY <1>3, <2>1, <2>2 DEF Counted, Copying
  <2>4. Local(c, j, staging'[c])
    BY <1>1, <1>2, <2>1, <2>3, InspectingIsLocal DEF Inspecting
  <2> QED
    BY <1>1, <1>2, <2>1, <2>4 DEF Stepped, Answered
<1>6. CASE Fail(c, "rejected")
  BY <1>1, <1>6, FailSteps DEF Reasons
<1> QED
  BY <1>4, <1>5, <1>6 DEF InspectPath

LEMMA ScanRowSteps ==
  ASSUME CTypeOK, Locals, NEW c \in Creators, ScanRow(c)
  PROVE  Stepped(c) /\ Answered(c)
<1> DEFINE path == job[c].paths[Len(job[c].files) + 1]
           j == job'[c]
<1>1. /\ UNCHANGED staging /\ job[c].pc = "scan" /\ job[c].pc \in Inspecting
      /\ More(c, path) /\ job' = [job EXCEPT ![c].rows = Append(@, NextRow(c, path))]
  BY DEF ScanRow, At, Inspecting
<1>2. /\ job[c] \in JobState /\ job \in [Creators -> JobState]
      /\ Counted(job[c]) /\ job[c].nth = 1 /\ job[c].ret = "nothing"
      /\ staging[c] = Nothing /\ staging \in [Creators -> Bundle]
  BY <1>1, InspectingFacts
<1>3. path \in Paths
  <2>1. job[c].files \in Seq(Scanned) /\ job[c].paths \in Seq(Paths)
    BY <1>2 DEF JobState
  <2>2. Len(job[c].files) < Len(job[c].paths)
    BY <1>1, <1>2 DEF Counted
  <2> QED
    BY <2>1, <2>2, ElementOfSeq, LenProperties
<1>4. NextRow(c, path) \in Row
  BY <1>1, <1>3, RowFacts
<1>5. Append(job[c].rows, NextRow(c, path)) \in Seq(Row)
  BY <1>2, <1>4, AppendProperties DEF JobState
<1>6. /\ j \in JobState /\ job' \in [Creators -> JobState]
      /\ j.pc = "scan" /\ j.files = job[c].files /\ j.paths = job[c].paths
      /\ j.entries = job[c].entries /\ j.nth = 1 /\ j.ret = "nothing"
      /\ \A d \in Creators : d # c => job'[d] = job[d]
  BY <1>1, <1>2, <1>5 DEF JobState
<1>7. Counted(j)
  BY <1>1, <1>2, <1>6 DEF Counted, Copying
<1>8. Local(c, j, staging'[c])
  BY <1>1, <1>2, <1>6, <1>7, InspectingIsLocal
<1> QED
  BY <1>1, <1>2, <1>6, <1>8 DEF Stepped, Answered

LEMMA ScanEndSteps ==
  ASSUME CTypeOK, Locals, NEW c \in Creators, ScanEnd(c)
  PROVE  Stepped(c) /\ Answered(c)
<1> DEFINE path == job[c].paths[Len(job[c].files) + 1]
           scanned == [path |-> path, rows |-> job[c].rows]
           j == job'[c]
<1>1. /\ UNCHANGED staging /\ job[c].pc = "scan" /\ job[c].pc \in Inspecting
      /\ job[c].rows # <<>>
  BY DEF ScanEnd, At, Inspecting
<1>2. /\ job[c] \in JobState /\ job \in [Creators -> JobState]
      /\ Counted(job[c]) /\ job[c].nth = 1 /\ job[c].ret = "nothing"
      /\ staging[c] = Nothing /\ staging \in [Creators -> Bundle]
  BY <1>1, InspectingFacts
<1>3. CASE Fail(c, "rejected")
  BY <1>1, <1>3, FailSteps DEF Reasons
<1>4. CASE job' = [job EXCEPT ![c].pc = "inspect", ![c].files = Append(@, scanned)]
  <2>1. job[c].files \in Seq(Scanned) /\ job[c].paths \in Seq(Paths)
    BY <1>2 DEF JobState
  <2>2. path \in Paths
    BY <1>1, <1>2, <2>1, ElementOfSeq, LenProperties DEF Counted
  <2>3. scanned \in Scanned
    BY <1>1, <1>2, <2>2 DEF Scanned, JobState
  <2>4. Append(job[c].files, scanned) \in Seq(Scanned)
    BY <2>1, <2>3, AppendProperties
  <2>5. /\ j \in JobState /\ job' \in [Creators -> JobState]
        /\ j.pc = "inspect" /\ j.entries = job[c].entries
        /\ j.nth = 1 /\ j.ret = "nothing"
        /\ \A d \in Creators : d # c => job'[d] = job[d]
    BY <1>2, <1>4, <2>4 DEF JobState, Inspecting
  <2>6. Counted(j)
    BY <1>1, <1>2, <2>5 DEF Counted, Copying
  <2>7. Local(c, j, staging'[c])
    BY <1>1, <1>2, <2>5, <2>6, InspectingIsLocal DEF Inspecting
  <2> QED
    BY <1>1, <1>2, <2>5, <2>7 DEF Stepped, Answered
<1> QED
  BY <1>3, <1>4 DEF ScanEnd

LEMMA ScanFailsSteps ==
  ASSUME CTypeOK, Locals, NEW c \in Creators, ScanFails(c) \/ CopyFails(c)
  PROVE  Stepped(c) /\ Answered(c)
  BY FailSteps DEF ScanFails, CopyFails, Reasons

LEMMA IoFailsSteps ==
  ASSUME CTypeOK, Locals, NEW c \in Creators, IoFails(c)
  PROVE  Stepped(c) /\ Answered(c)
  BY FailSteps DEF IoFails, Reasons

(* A sequence taken in another order.                                        *)
LEMMA Rearranged ==
  ASSUME NEW S, NEW s \in Seq(S), NEW p \in [DOMAIN s -> DOMAIN s]
  PROVE  /\ [k \in DOMAIN p |-> s[p[k]]] \in Seq(S)
         /\ Len([k \in DOMAIN p |-> s[p[k]]]) = Len(s)
<1>1. Len(s) \in Nat /\ DOMAIN s = 1 .. Len(s) /\ DOMAIN p = 1 .. Len(s)
  BY LenProperties
<1>2. [k \in DOMAIN p |-> s[p[k]]] \in [1 .. Len(s) -> S]
  BY <1>1, ElementOfSeq
<1> QED
  BY <1>1, <1>2

LEMMA OrderSteps ==
  ASSUME CTypeOK, Locals, NEW c \in Creators, Order(c)
  PROVE  Stepped(c) /\ Answered(c)
<1> DEFINE files == job[c].files
           j == job'[c]
<1>1. UNCHANGED staging /\ job[c].pc = "order" /\ job[c].pc \in Inspecting
  BY DEF Order, At, Inspecting
<1>2. /\ job[c] \in JobState /\ job \in [Creators -> JobState]
      /\ Counted(job[c]) /\ job[c].nth = 1 /\ job[c].ret = "nothing"
      /\ staging[c] = Nothing /\ staging \in [Creators -> Bundle]
  BY <1>1, InspectingFacts
<1>3. files \in Seq(Scanned) /\ Len(files) > 0 /\ job[c].entries = <<>>
  BY <1>1, <1>2 DEF JobState, Counted
<1>4. CASE Fail(c, "rejected")
  BY <1>1, <1>4, FailSteps DEF Reasons
<1>5. ASSUME NEW p \in Sortings(files), NEW sorted,
             sorted = [k \in DOMAIN p |-> files[p[k]]],
             job' = [job EXCEPT ![c].pc = "number", ![c].files = sorted, ![c].rows = <<>>]
      PROVE  Stepped(c) /\ Answered(c)
  <2>1. p \in [DOMAIN files -> DOMAIN files]
    BY DEF Sortings
  <2>2. sorted \in Seq(Scanned) /\ Len(sorted) = Len(files)
    BY <1>3, <1>5, <2>1, Rearranged
  <2>3. /\ j \in JobState /\ job' \in [Creators -> JobState]
        /\ j.pc = "number" /\ j.files = sorted /\ j.rows = <<>>
        /\ j.entries = job[c].entries /\ j.nth = 1 /\ j.ret = "nothing"
        /\ \A d \in Creators : d # c => job'[d] = job[d]
    BY <1>2, <1>5, <2>2, EmptySeq DEF JobState, Inspecting
  <2>4. Len(j.entries) < Len(j.files) /\ Ranges(j.entries)
    BY <1>2, <1>3, <2>2, <2>3, EmptySeq DEF Counted
  <2>5. Counted(j)
    BY <2>3, <2>4 DEF Counted, Copying
  <2>6. Local(c, j, staging'[c])
    BY <1>1, <1>2, <2>3, <2>5, InspectingIsLocal DEF Inspecting
  <2> QED
    BY <1>1, <1>2, <2>3, <2>6 DEF Stepped, Answered
<1> QED
  BY <1>4, <1>5 DEF Order

(* An entry that continues the ranges.                                       *)
LEMMA RangesGrow ==
  ASSUME NEW entries \in Seq(Entry), Ranges(entries), NEW entry \in Entry,
         entry.end = entry.start + Len(entry.rows) - 1,
         entry.start = IF entries = <<>> THEN 1 ELSE entries[Len(entries)].end + 1
  PROVE  Ranges(Append(entries, entry))
<1> DEFINE longer == Append(entries, entry)
           n == Len(entries)
<1>1. /\ n \in Nat /\ Len(longer) = n + 1 /\ longer[n + 1] = entry
      /\ \A k \in 1 .. n : longer[k] = entries[k]
  BY AppendProperties, LenProperties
<1>2. entries = <<>> <=> n = 0
  BY EmptySeq
<1>3. \A k \in 1 .. n + 1 : longer[k].end = longer[k].start + Len(longer[k].rows) - 1
  BY <1>1 DEF Ranges
<1>4. longer[1].start = 1
  BY <1>1, <1>2 DEF Ranges
<1>5. ASSUME NEW k \in 1 .. n PROVE longer[k + 1].start = longer[k].end + 1
  <2>1. CASE k = n
    BY <1>1, <1>2, <2>1
  <2>2. CASE k \in 1 .. n - 1
    BY <1>1, <2>2 DEF Ranges
  <2> QED
    BY <1>1, <2>1, <2>2
<1> HIDE DEF longer
<1>6. Ranges(longer)
  BY <1>1, <1>3, <1>4, <1>5 DEF Ranges
<1> QED
  BY <1>6 DEF longer

(* The last index of a range that is not empty.                              *)
LEMMA RangeEnd ==
  ASSUME NEW start \in Nat \ {0}, NEW size \in Nat \ {0}
  PROVE  start + size - 1 \in Nat \ {0}
  OBVIOUS

LEMMA NumberSteps ==
  ASSUME CTypeOK, Locals, NEW c \in Creators, Number(c)
  PROVE  Stepped(c) /\ Answered(c)
<1> DEFINE files == job[c].files
           entries == job[c].entries
           n == Len(entries) + 1
           entry == EntryOf(files[n], NextIndex(c), job[c].current)
           j == job'[c]
<1>1. /\ UNCHANGED staging /\ job[c].pc = "number" /\ job[c].pc \in Inspecting
      /\ job' = [job EXCEPT ![c].pc = IF n < Len(files) THEN "number" ELSE "stage",
                            ![c].entries = Append(entries, entry)]
  BY DEF Number, At, Inspecting
<1>2. /\ job[c] \in JobState /\ job \in [Creators -> JobState]
      /\ Counted(job[c]) /\ job[c].nth = 1 /\ job[c].ret = "nothing"
      /\ staging[c] = Nothing /\ staging \in [Creators -> Bundle]
  BY <1>1, InspectingFacts
<1>3. /\ files \in Seq(Scanned) /\ entries \in Seq(Entry) /\ job[c].current \in BOOLEAN
      /\ Len(entries) < Len(files) /\ Ranges(entries) /\ job[c].rows = <<>>
  BY <1>1, <1>2 DEF JobState, Counted
<1>4. files[n] \in Scanned
  BY <1>3, ElementOfSeq, LenProperties
<1>5. NextIndex(c) \in Nat \ {0}
  <2>1. CASE entries = <<>>
    BY <2>1 DEF NextIndex, FirstIndex
  <2>2. CASE entries # <<>>
    <3>1. entries[Len(entries)] \in Entry
      BY <1>3, <2>2, EmptySeq, ElementOfSeq, LenProperties
    <3> QED
      BY <2>2, <3>1 DEF NextIndex, Entry, Last
  <2> QED
    BY <2>1, <2>2
<1>6. /\ entry \in Entry /\ entry.start = NextIndex(c)
      /\ entry.end = entry.start + Len(entry.rows) - 1
  <2>1. /\ files[n].path \in Paths /\ files[n].rows \in Seq(Row) \ {<<>>}
        /\ Len(files[n].rows) \in Nat \ {0}
    BY <1>4, EmptySeq DEF Scanned
  <2>2. About[files[n].path] \in [file : STRING, name : Nat, source : STRING, fold : STRING,
                                  bits : Nat, interval : Nat, format : Formats]
    BY <2>1, PathFacts
  <2>3. NextIndex(c) + Len(files[n].rows) - 1 \in Nat \ {0}
    BY <1>5, <2>1, RangeEnd
  <2>4. /\ entry.path = files[n].path /\ entry.rows = files[n].rows
        /\ entry.start = NextIndex(c)
        /\ entry.end = NextIndex(c) + Len(files[n].rows) - 1
    BY DEF EntryOf
  <2>5. /\ entry.format \in Formats \cup {"none"}
        /\ entry.source \in Sources /\ entry.fold \in Folds
    <3> DEFINE about == About[files[n].path]
    <3>1. about.format \in Formats /\ about.source \in Sources /\ about.fold \in Folds
      BY <2>1, <2>2 DEF Sources, Folds
    <3>2. "none" \in Sources /\ "none" \in Folds
      BY DEF Sources, Folds
    <3>3. CASE job[c].current
      <4>1. entry.format = about.format /\ entry.source = about.source /\ entry.fold = about.fold
        BY <3>3 DEF EntryOf
      <4> QED
        BY <3>1, <4>1
    <3>4. CASE ~job[c].current
      <4>1. entry.format = "none" /\ entry.source = "none" /\ entry.fold = "none"
        BY <3>4 DEF EntryOf
      <4> QED
        BY <3>2, <4>1
    <3> QED
      BY <3>3, <3>4
  <2>6. entry = [path |-> entry.path, rows |-> entry.rows, start |-> entry.start,
                 end |-> entry.end, format |-> entry.format, source |-> entry.source,
                 fold |-> entry.fold]
    BY DEF EntryOf
  <2> HIDE DEF entry
  <2>7. entry \in Entry
    BY <1>5, <2>1, <2>3, <2>4, <2>5, <2>6 DEF Entry
  <2> QED
    BY <2>4, <2>7
<1>7. Ranges(Append(entries, entry))
  BY <1>3, <1>6, RangesGrow DEF NextIndex, FirstIndex, Last
<1>8. Append(entries, entry) \in Seq(Entry) /\ Len(Append(entries, entry)) = n
  BY <1>3, <1>6, AppendProperties
<1> HIDE DEF entry
<1>9. /\ j \in JobState /\ job' \in [Creators -> JobState]
      /\ j.pc = IF n < Len(files) THEN "number" ELSE "stage"
      /\ j.files = files /\ j.rows = <<>>
      /\ j.entries = Append(entries, entry) /\ j.nth = 1 /\ j.ret = "nothing"
      /\ \A d \in Creators : d # c => job'[d] = job[d]
  BY <1>1, <1>2, <1>3, <1>8 DEF JobState, Inspecting
<1>10. Counted(j)
  <2>1. n \in Nat /\ Len(files) \in Nat /\ n <= Len(files)
    BY <1>3, LenProperties
  <2> QED
    BY <1>7, <1>8, <1>9, <2>1 DEF Counted, Copying
<1>11. Local(c, j, staging'[c])
  BY <1>1, <1>2, <1>9, <1>10, InspectingIsLocal DEF Inspecting
<1> QED
  BY <1>1, <1>2, <1>9, <1>11 DEF Stepped, Answered

LEMMA StageSteps ==
  ASSUME CTypeOK, Locals, NEW c \in Creators, Stage(c)
  PROVE  Stepped(c) /\ Answered(c)
<1> DEFINE j == job'[c]
           b == staging'[c]
<1>1. job[c].pc = "stage" /\ job[c].pc \in Inspecting
  BY DEF Stage, At, Inspecting
<1>2. /\ job[c] \in JobState /\ job \in [Creators -> JobState]
      /\ Counted(job[c]) /\ job[c].nth = 1 /\ job[c].ret = "nothing"
      /\ staging[c] = Nothing /\ staging \in [Creators -> Bundle]
  BY <1>1, InspectingFacts
<1>3. CASE Exists(out[Dest(c)]) /\ Fail(c, "exists") /\ UNCHANGED staging
  <2>1. Dest(c) \in Stems
    BY <1>1, <1>2, OutputStemIsStem DEF Counted, JobState, Dest
  <2> QED
    BY <1>3, <2>1, FailSteps DEF Reasons
<1>4. CASE /\ staging' = [staging EXCEPT ![c] = [Nothing EXCEPT !.by = c]]
           /\ job' = [job EXCEPT ![c].pc = "copy"]
  <2>1. /\ b.by = c /\ b.csv = <<>> /\ b \in Bundle /\ staging' \in [Creators -> Bundle]
        /\ \A d \in Creators : d # c => staging'[d] = staging[d]
    BY <1>2, <1>4, EmptySeq DEF Nothing, Bundle
  <2>2. /\ j \in JobState /\ job' \in [Creators -> JobState]
        /\ j.pc = "copy" /\ j.files = job[c].files /\ j.rows = job[c].rows
        /\ j.entries = job[c].entries /\ j.nth = 1 /\ j.ret = "nothing"
        /\ \A d \in Creators : d # c => job'[d] = job[d]
    BY <1>2, <1>4 DEF JobState, Copying
  <2>3. /\ Len(j.files) > 0 /\ Len(j.entries) = Len(j.files) /\ j.rows = <<>>
        /\ Ranges(j.entries) /\ j.files \in Seq(Scanned)
    BY <1>1, <1>2, <2>2 DEF Counted, JobState
  <2>4. Counted(j) /\ Told(j)
    BY <2>2, <2>3 DEF Counted, Told
  <2>5. Progress(j)
    BY <2>2, <2>3, LenProperties DEF Progress, Inspecting
  <2>6. Copied(j, b.csv)
    BY <2>1, <2>2, <2>3, EmptySeq DEF Copied, Base
  <2>7. Local(c, j, b)
    BY <2>1, <2>2, <2>4, <2>5, <2>6 DEF Local, Inspecting
  <2> QED
    BY <2>1, <2>2, <2>7 DEF Stepped, Answered
<1> QED
  BY <1>3, <1>4 DEF Stage

-----------------------------------------------------------------------------
(* The steps on the staging directory.                                       *)
LEMMA CopyingFacts ==
  ASSUME CTypeOK, Locals, NEW c \in Creators, job[c].pc \in Copying
  PROVE  /\ job[c] \in JobState /\ job \in [Creators -> JobState]
         /\ staging[c] \in Bundle /\ staging \in [Creators -> Bundle]
         /\ job[c].entries \in Seq(Entry) /\ job[c].files \in Seq(Scanned)
         /\ Counted(job[c]) /\ Progress(job[c]) /\ job[c].ret = "nothing"
         /\ Ranges(job[c].entries)
         /\ Len(job[c].entries) = Len(job[c].files) /\ Len(job[c].files) \in Nat \ {0}
         /\ staging[c].by = c /\ Copied(job[c], staging[c].csv)
<1>1. /\ job[c] \in JobState /\ job \in [Creators -> JobState]
      /\ staging[c] \in Bundle /\ staging \in [Creators -> Bundle]
  BY DEF CTypeOK
<1>2. /\ Counted(job[c]) /\ Progress(job[c]) /\ job[c].ret = "nothing"
      /\ staging[c].by = c /\ Copied(job[c], staging[c].csv)
  BY DEF Locals, Local, Told
<1>3. job[c].entries \in Seq(Entry) /\ job[c].files \in Seq(Scanned)
  BY <1>1 DEF JobState
<1> QED
  BY <1>1, <1>2, <1>3, LenProperties DEF Counted

LEMMA CopyingIsLocal ==
  ASSUME NEW c, NEW j \in JobState, j.pc \in Copying, j.ret = "nothing",
         Counted(j), Progress(j), NEW b, b.by = c, Copied(j, b.csv),
         j.pc \in {"manifest", "promote", "rename"} => b.csvSynced,
         j.pc \in {"promote", "rename"} => Complete(b, OutputStem(j.files))
  PROVE  Local(c, j, b)
<1>1. j.pc \notin Inspecting /\ j.pc # "cleanup"
  BY DEF Inspecting, Copying
<1> QED
  BY <1>1 DEF Local, Told

(* The range of the nth input begins where the rows before it end.           *)
LEMMA BaseFacts ==
  ASSUME NEW j \in JobState, Ranges(j.entries), j.nth \in 1 .. Len(j.entries)
  PROVE  /\ Base(j) \in Nat
         /\ j.entries[j.nth].start = Base(j) + 1
         /\ j.entries[j.nth].end = Base(j) + Len(j.entries[j.nth].rows)
         /\ Len(j.entries[j.nth].rows) \in Nat
<1> DEFINE es == j.entries
           n == j.nth
<1>1. es \in Seq(Entry) /\ Len(es) \in Nat /\ n \in Nat \ {0} /\ n <= Len(es)
  BY LenProperties DEF JobState
<1>2. \A k \in 1 .. Len(es) : es[k] \in Entry
  BY <1>1, ElementOfSeq
<1>3. /\ es[n].start \in Nat \ {0} /\ Len(es[n].rows) \in Nat
      /\ es[n].end = es[n].start + Len(es[n].rows) - 1
  BY <1>1, <1>2, LenProperties DEF Entry, Ranges
<1>4. CASE n = 1
  BY <1>1, <1>3, <1>4 DEF Base, Ranges
<1>5. CASE n # 1
  <2>1. n - 1 \in 1 .. Len(es) - 1 /\ n - 1 \in 1 .. Len(es) /\ (n - 1) + 1 = n
    BY <1>1, <1>5
  <2>2. es[n].start = es[n - 1].end + 1
    BY <2>1 DEF Ranges
  <2>3. es[n - 1].end \in Nat
    BY <1>2, <2>1 DEF Entry
  <2>4. Base(j) = es[n - 1].end
    BY <1>5 DEF Base
  <2>5. es[n].start = Base(j) + 1 /\ Base(j) \in Nat
    BY <2>2, <2>3, <2>4
  <2>6. \A b, l \in Nat : (b + 1) + l - 1 = b + l
    OBVIOUS
  <2>7. es[n].end = Base(j) + Len(es[n].rows)
    BY <1>3, <2>5, <2>6
  <2> QED
    BY <1>3, <2>5, <2>7
<1> QED
  BY <1>4, <1>5

LEMMA CopyRowSteps ==
  ASSUME CTypeOK, Locals, NEW c \in Creators, CopyRow(c)
  PROVE  Stepped(c) /\ Answered(c)
<1> DEFINE o == job[c]
           csv == staging[c].csv
           path == o.files[o.nth].path
           line == [index |-> Len(csv) + 1, row |-> NextRow(c, path),
                    input |-> o.nth, inputIndex |-> Len(o.rows) + 1]
           rows == Append(o.rows, NextRow(c, path))
           j == job'[c]
           b == staging'[c]
<1>1. /\ o.pc = "copy" /\ o.pc \in Copying /\ More(c, path)
      /\ job' = [job EXCEPT ![c].rows = rows]
      /\ staging' = [staging EXCEPT ![c].csv = Append(csv, line)]
  BY DEF CopyRow, At, Copying
<1>2. /\ o \in JobState /\ job \in [Creators -> JobState]
      /\ staging[c] \in Bundle /\ staging \in [Creators -> Bundle]
      /\ o.entries \in Seq(Entry) /\ o.files \in Seq(Scanned)
      /\ Counted(o) /\ Progress(o) /\ o.ret = "nothing"
      /\ Ranges(o.entries)
      /\ Len(o.entries) = Len(o.files) /\ Len(o.files) \in Nat \ {0}
      /\ staging[c].by = c /\ Copied(o, csv)
  BY <1>1, CopyingFacts
<1>3. o.nth \in 1 .. Len(o.files) /\ o.nth \in 1 .. Len(o.entries) /\ o.nth \in Nat \ {0}
  BY <1>1, <1>2 DEF Progress, JobState
<1>4. NextRow(c, path) \in Row
  <2>1. o.files[o.nth] \in Scanned
    BY <1>2, <1>3, ElementOfSeq
  <2>2. path \in Paths
    BY <2>1 DEF Scanned
  <2> QED
    BY <1>1, <2>2, RowFacts
<1>5. /\ o.rows \in Seq(Row) /\ Len(o.rows) \in Nat
      /\ csv \in Seq(Line) /\ Len(csv) \in Nat
  BY <1>2, LenProperties DEF JobState, Bundle
<1>6. line \in Line
  BY <1>3, <1>4, <1>5 DEF Line
<1>7. /\ rows \in Seq(Row) /\ Len(rows) = Len(o.rows) + 1
      /\ rows[Len(o.rows) + 1] = NextRow(c, path)
      /\ \A k \in 1 .. Len(o.rows) : rows[k] = o.rows[k]
  BY <1>4, <1>5, AppendProperties
<1>8. /\ Append(csv, line) \in Seq(Line) /\ Len(Append(csv, line)) = Len(csv) + 1
      /\ Append(csv, line)[Len(csv) + 1] = line
      /\ \A k \in 1 .. Len(csv) : Append(csv, line)[k] = csv[k]
  BY <1>5, <1>6, AppendProperties
<1>9. /\ j \in JobState /\ job' \in [Creators -> JobState]
      /\ j.pc = "copy" /\ j.files = o.files /\ j.rows = rows /\ j.entries = o.entries
      /\ j.nth = o.nth /\ j.ret = "nothing" /\ j.paths = o.paths
      /\ \A d \in Creators : d # c => job'[d] = job[d]
  <2> HIDE DEF rows
  <2> QED
    BY <1>1, <1>2, <1>7 DEF JobState
<1>10. /\ b \in Bundle /\ staging' \in [Creators -> Bundle]
       /\ b.by = c /\ b.csv = Append(csv, line)
       /\ \A d \in Creators : d # c => staging'[d] = staging[d]
  <2> HIDE DEF line
  <2> QED
    BY <1>1, <1>2, <1>8 DEF Bundle
<1>11. Counted(j) /\ Progress(j)
  BY <1>1, <1>2, <1>9 DEF Counted, Progress, Inspecting
<1>12. /\ Base(o) \in Nat /\ o.entries[o.nth].start = Base(o) + 1
       /\ Base(j) = Base(o) /\ Len(csv) = Base(o) + Len(o.rows)
  BY <1>2, <1>3, <1>9, BaseFacts DEF Copied, Base
<1>13. Copied(j, b.csv)
  <2>1. Len(b.csv) = Base(j) + Len(j.rows)
    BY <1>5, <1>7, <1>8, <1>9, <1>10, <1>12
  <2>2. LineOK(j, Len(csv) + 1, line)
    <3>1. /\ line.index = Len(csv) + 1 /\ line.input = j.nth
          /\ line.inputIndex = Len(o.rows) + 1 /\ line.row = NextRow(c, path)
      BY <1>9
    <3>2. Len(o.rows) + 1 = (Len(csv) + 1) - o.entries[o.nth].start + 1
      BY <1>5, <1>12
    <3> HIDE DEF line
    <3> QED
      BY <1>3, <1>7, <1>9, <3>1, <3>2 DEF LineOK
  <2>3. ASSUME NEW k \in 1 .. Len(csv) PROVE LineOK(j, k, csv[k])
    <3>1. LineOK(o, k, csv[k]) /\ csv[k] \in Line
      BY <1>2, <1>5, ElementOfSeq DEF Copied
    <3>2. CASE csv[k].input = o.nth
      <4>0. /\ csv[k].inputIndex \in Nat \ {0}
            /\ csv[k].inputIndex = k - o.entries[o.nth].start + 1
        BY <3>1, <3>2 DEF LineOK, Line
      <4>1. csv[k].inputIndex \in 1 .. Len(o.rows)
        <5> DEFINE bse == Base(o)
                   idx == csv[k].inputIndex
        <5>1. idx = k - (bse + 1) + 1 /\ bse \in Nat /\ k \in Nat /\ k <= bse + Len(o.rows)
          BY <1>5, <1>12, <4>0
        <5>2. idx \in Nat \ {0}
          BY <4>0
        <5> HIDE DEF bse, idx
        <5>3. idx \in 1 .. Len(o.rows)
          BY <1>5, <5>1, <5>2
        <5> QED
          BY <5>3 DEF idx
      <4> QED
        BY <1>3, <1>7, <1>9, <3>1, <3>2, <4>1 DEF LineOK
    <3>3. CASE csv[k].input # o.nth
      BY <1>9, <3>1, <3>3 DEF LineOK
    <3> QED
      BY <3>2, <3>3
  <2>4. ASSUME NEW k \in 1 .. Len(b.csv) PROVE LineOK(j, k, b.csv[k])
    <3>1. k = Len(csv) + 1 \/ k \in 1 .. Len(csv)
      BY <1>5, <1>8, <1>10
    <3> QED
      BY <1>8, <1>10, <2>2, <2>3, <3>1
  <2> QED
    BY <2>1, <2>4 DEF Copied
<1>14. Local(c, j, b)
  BY <1>1, <1>9, <1>10, <1>11, <1>13, CopyingIsLocal
<1> QED
  BY <1>9, <1>10, <1>14 DEF Stepped, Answered

LEMMA CopyEndSteps ==
  ASSUME CTypeOK, Locals, NEW c \in Creators, CopyEnd(c)
  PROVE  Stepped(c) /\ Answered(c)
<1> DEFINE o == job[c]
           csv == staging[c].csv
           j == job'[c]
<1>1. o.pc = "copy" /\ o.pc \in Copying /\ UNCHANGED staging
  BY DEF CopyEnd, At, Copying
<1>2. /\ o \in JobState /\ job \in [Creators -> JobState]
      /\ staging[c] \in Bundle /\ staging \in [Creators -> Bundle]
      /\ o.entries \in Seq(Entry) /\ o.files \in Seq(Scanned)
      /\ Counted(o) /\ Progress(o) /\ o.ret = "nothing"
      /\ Ranges(o.entries)
      /\ Len(o.entries) = Len(o.files) /\ Len(o.files) \in Nat \ {0}
      /\ staging[c].by = c /\ Copied(o, csv)
  BY <1>1, CopyingFacts
<1>3. CASE Fail(c, "changed")
  BY <1>1, <1>3, FailSteps DEF Reasons
<1>4. CASE /\ Unchanged(o.rows, o.entries[o.nth])
           /\ job' = [job EXCEPT
                        ![c].pc = IF o.nth < Len(o.files) THEN "copy" ELSE "syncCsv",
                        ![c].nth = o.nth + 1,
                        ![c].rows = <<>>]
  <2>1. o.nth \in 1 .. Len(o.files) /\ o.nth \in 1 .. Len(o.entries) /\ o.nth \in Nat \ {0}
    BY <1>1, <1>2 DEF Progress, JobState
  <2>2. /\ csv \in Seq(Line) /\ Len(csv) \in Nat
    BY <1>2, LenProperties DEF Bundle
  <2>3. /\ j \in JobState /\ job' \in [Creators -> JobState]
        /\ j.pc = IF o.nth < Len(o.files) THEN "copy" ELSE "syncCsv"
        /\ j.files = o.files /\ j.rows = <<>> /\ j.entries = o.entries
        /\ j.nth = o.nth + 1 /\ j.ret = "nothing" /\ j.paths = o.paths
        /\ \A d \in Creators : d # c => job'[d] = job[d]
    <3>1. {"copy", "syncCsv"} \subseteq Inspecting \cup Copying \cup {"cleanup"} \cup Over
      BY DEF Copying
    <3>2. o.nth + 1 \in Nat \ {0}
      BY <2>1
    <3> QED
      BY <1>2, <1>4, <3>1, <3>2, EmptySeq DEF JobState
  <2>4. j.pc \in {"copy", "syncCsv"} /\ j.pc \in Copying
    BY <2>3 DEF Copying
  <2>5. Counted(j) /\ Progress(j)
    BY <1>2, <2>1, <2>3, <2>4 DEF Counted, Progress, Inspecting
  <2>6. /\ Base(o) \in Nat /\ o.entries[o.nth].start = Base(o) + 1
        /\ o.entries[o.nth].end = Base(o) + Len(o.entries[o.nth].rows)
        /\ Len(csv) = Base(o) + Len(o.rows) /\ o.rows = o.entries[o.nth].rows
    BY <1>2, <1>4, <2>1, BaseFacts DEF Copied, Unchanged
  <2>7. Base(j) = Len(csv)
    <3>1. j.nth # 1 /\ j.nth - 1 = o.nth
      BY <2>1, <2>3
    <3> QED
      BY <2>3, <2>6, <3>1 DEF Base
  <2>8. ASSUME NEW k \in 1 .. Len(csv) PROVE LineOK(j, k, csv[k])
    <3>1. LineOK(o, k, csv[k]) /\ csv[k] \in Line
      BY <1>2, <2>2, ElementOfSeq DEF Copied
    <3>2. csv[k].input \in Nat /\ csv[k].input <= o.nth
      BY <3>1 DEF LineOK, Line
    <3>3. /\ k <= o.entries[csv[k].input].end
          /\ csv[k].row = o.entries[csv[k].input].rows[csv[k].inputIndex]
      <4>1. CASE csv[k].input = o.nth
        <5>1. o.entries[csv[k].input].end = Len(csv)
          BY <2>6, <4>1
        <5>2. csv[k].row = o.rows[csv[k].inputIndex]
          BY <3>1, <4>1 DEF LineOK
        <5> QED
          BY <2>2, <2>6, <4>1, <5>1, <5>2
      <4>2. CASE csv[k].input # o.nth
        <5>1. csv[k].input < o.nth
          BY <2>1, <3>2, <4>2
        <5> QED
          BY <3>1, <5>1 DEF LineOK
      <4> QED
        BY <4>1, <4>2
    <3>5. csv[k].input < j.nth /\ csv[k].input # j.nth /\ csv[k].input <= j.nth
      BY <2>1, <2>3, <3>2
    <3> QED
      BY <2>3, <3>1, <3>3, <3>5 DEF LineOK
  <2>9. Copied(j, csv)
    BY <2>2, <2>3, <2>7, <2>8, EmptySeq DEF Copied
  <2>10. Local(c, j, staging'[c])
    BY <1>1, <1>2, <2>3, <2>4, <2>5, <2>9, CopyingIsLocal
  <2> QED
    BY <1>1, <1>2, <2>3, <2>4, <2>10 DEF Stepped, Answered
<1> QED
  BY <1>3, <1>4 DEF CopyEnd

(* Only the entries, the position and the rows read matter to the copy.      *)
LEMMA CopiedStays ==
  ASSUME NEW o, NEW j, j.entries = o.entries, j.nth = o.nth, j.rows = o.rows,
         NEW csv, Copied(o, csv)
  PROVE  Copied(j, csv)
<1>1. Base(j) = Base(o)
  BY DEF Base
<1>2. ASSUME NEW k \in 1 .. Len(csv) PROVE LineOK(j, k, csv[k])
  <2>1. LineOK(o, k, csv[k])
    BY DEF Copied
  <2> QED
    BY <2>1 DEF LineOK
<1> QED
  BY <1>1, <1>2 DEF Copied

LEMMA SyncCsvSteps ==
  ASSUME CTypeOK, Locals, NEW c \in Creators, SyncCsv(c)
  PROVE  Stepped(c) /\ Answered(c)
<1> DEFINE o == job[c]
           j == job'[c]
           b == staging'[c]
<1>1. /\ o.pc = "syncCsv" /\ o.pc \in Copying
      /\ job' = [job EXCEPT ![c].pc = "manifest"]
      /\ staging' = [staging EXCEPT ![c].csvSynced = TRUE]
  BY DEF SyncCsv, At, Copying
<1>2. /\ o \in JobState /\ job \in [Creators -> JobState]
      /\ staging[c] \in Bundle /\ staging \in [Creators -> Bundle]
      /\ Counted(o) /\ Progress(o) /\ o.ret = "nothing"
      /\ staging[c].by = c /\ Copied(o, staging[c].csv)
  BY <1>1, CopyingFacts
<1>3. /\ j \in JobState /\ job' \in [Creators -> JobState]
      /\ j.pc = "manifest" /\ j.files = o.files /\ j.rows = o.rows
      /\ j.entries = o.entries /\ j.nth = o.nth /\ j.ret = "nothing"
      /\ \A d \in Creators : d # c => job'[d] = job[d]
  BY <1>1, <1>2 DEF JobState, Copying
<1>4. /\ b \in Bundle /\ staging' \in [Creators -> Bundle]
      /\ b.by = c /\ b.csv = staging[c].csv /\ b.csvSynced
      /\ \A d \in Creators : d # c => staging'[d] = staging[d]
  BY <1>1, <1>2 DEF Bundle
<1>5. Counted(j) /\ Progress(j) /\ j.pc \in Copying
  BY <1>1, <1>2, <1>3 DEF Counted, Progress, Inspecting, Copying
<1>6. Copied(j, b.csv)
  BY <1>2, <1>3, <1>4, CopiedStays
<1>7. Local(c, j, b)
  BY <1>3, <1>4, <1>5, <1>6, CopyingIsLocal
<1> QED
  BY <1>3, <1>4, <1>7 DEF Stepped, Answered

(* The manifest keeps the ranges and the rows of the entries.                *)
LEMMA ManifestFacts ==
  ASSUME NEW files \in Seq(Scanned), Len(files) > 0,
         NEW entries \in Seq(Entry), Len(entries) = Len(files)
  PROVE  LET manifest == ManifestOf(files, entries)
         IN  /\ manifest \in Manifest
             /\ manifest.stem = OutputStem(files)
             /\ manifest.total = entries[Len(entries)].end
             /\ DOMAIN manifest.inputs = 1 .. Len(entries)
             /\ \A k \in 1 .. Len(entries) :
                  /\ manifest.inputs[k].rows = entries[k].rows
                  /\ manifest.inputs[k].start = entries[k].start
                  /\ manifest.inputs[k].end = entries[k].end
<1> DEFINE schema == IF OutputStem(files).source = "mixed" THEN 3
                     ELSE IF entries[1].format # "none" THEN 2 ELSE 1
           n == Len(entries)
           less == Unlabelled(entries)
           inputs == IF schema = 2 THEN less ELSE entries
           manifest == ManifestOf(files, entries)
<1>1. n \in Nat \ {0} /\ DOMAIN entries = 1 .. n
  BY LenProperties
<1>2. \A k \in 1 .. n : entries[k] \in Entry
  BY ElementOfSeq
<1>3. "none" \in Sources /\ "none" \in Folds
  BY DEF Sources, Folds
<1>4. ASSUME NEW k \in 1 .. n
      PROVE  /\ less[k] \in Entry /\ less[k].rows = entries[k].rows
             /\ less[k].start = entries[k].start /\ less[k].end = entries[k].end
  <2>1. less[k] = [entries[k] EXCEPT !.source = "none", !.fold = "none"]
    BY <1>1 DEF Unlabelled
  <2> QED
    BY <1>2, <1>3, <2>1 DEF Entry
<1>5. less \in [1 .. n -> Entry]
  BY <1>1, <1>4 DEF Unlabelled
<1>6. less \in Seq(Entry) /\ DOMAIN less = 1 .. n
  BY <1>1, <1>5
<1>7. /\ inputs \in Seq(Entry) /\ DOMAIN inputs = 1 .. n
      /\ \A k \in 1 .. n : /\ inputs[k].rows = entries[k].rows
                           /\ inputs[k].start = entries[k].start
                           /\ inputs[k].end = entries[k].end
  BY <1>1, <1>4, <1>6
<1>8. schema \in 1 .. 3 /\ OutputStem(files) \in Stems /\ entries[n].end \in Nat
  <2>1. entries[n].end \in Nat
    BY <1>1, <1>2 DEF Entry
  <2> QED
    BY <2>1, OutputStemIsStem
<1> HIDE DEF inputs, schema
<1>9. manifest = [schema |-> schema, stem |-> OutputStem(files),
                  total |-> entries[n].end, inputs |-> inputs]
  BY DEF ManifestOf, inputs, schema
<1>10. manifest \in Manifest
  BY <1>7, <1>8, <1>9 DEF Manifest
<1> QED
  BY <1>7, <1>9, <1>10

(* Once every input was copied the staged rows are those of the entries.     *)
LEMMA CopiedIsComplete ==
  ASSUME NEW j \in JobState, Ranges(j.entries), Len(j.entries) = Len(j.files),
         Len(j.files) > 0, j.nth = Len(j.files) + 1, j.rows = <<>>,
         NEW b \in Bundle, Copied(j, b.csv), b.csvSynced, b.manifestSynced,
         b.manifest = ManifestOf(j.files, j.entries), Valid(b.manifest)
  PROVE  Complete(b, OutputStem(j.files))
<1> DEFINE es == j.entries
           n == Len(es)
           csv == b.csv
           inputs == b.manifest.inputs
<1>1. /\ es \in Seq(Entry) /\ j.files \in Seq(Scanned) /\ n \in Nat \ {0}
      /\ csv \in Seq(Line) /\ Len(csv) \in Nat
  BY LenProperties DEF JobState, Bundle
<1>2. /\ b.manifest.stem = OutputStem(j.files) /\ b.manifest.total = es[n].end
      /\ DOMAIN inputs = 1 .. n
      /\ \A k \in 1 .. n : /\ inputs[k].rows = es[k].rows
                           /\ inputs[k].start = es[k].start
                           /\ inputs[k].end = es[k].end
  <2> DEFINE manifest == ManifestOf(j.files, es)
  <2>1. /\ manifest.stem = OutputStem(j.files) /\ manifest.total = es[n].end
        /\ DOMAIN manifest.inputs = 1 .. n
        /\ \A k \in 1 .. n : /\ manifest.inputs[k].rows = es[k].rows
                             /\ manifest.inputs[k].start = es[k].start
                             /\ manifest.inputs[k].end = es[k].end
    <3> HIDE DEF manifest
    <3>1. es \in Seq(Entry) /\ j.files \in Seq(Scanned)
      BY <1>1
    <3>2. Len(es) = Len(j.files) /\ Len(j.files) > 0
      OBVIOUS
    <3> QED
      BY <3>1, <3>2, ManifestFacts DEF manifest
  <2>2. b.manifest = manifest
    OBVIOUS
  <2> HIDE DEF manifest
  <2> QED
    BY <2>1, <2>2
<1>3. Len(csv) = b.manifest.total
  <2>1. j.nth # 1 /\ j.nth - 1 = n
    BY <1>1
  <2>2. es[n] \in Entry
    BY <1>1, ElementOfSeq
  <2>3. es[n].end \in Nat
    BY <2>2 DEF Entry
  <2>4. Base(j) = es[n].end
    BY <2>1 DEF Base
  <2> QED
    BY <1>2, <2>3, <2>4, EmptySeq DEF Copied
<1>4. ASSUME NEW k \in 1 .. Len(csv)
      PROVE  LET i == csv[k].input
             IN  /\ i \in 1 .. n /\ csv[k].index = k
                 /\ k \in es[i].start .. es[i].end
                 /\ csv[k].inputIndex = k - es[i].start + 1
                 /\ csv[k].row = es[i].rows[csv[k].inputIndex]
                 /\ k = es[i].start => csv[k].row = First(es[i].rows)
                 /\ k = es[i].end => csv[k].row = Last(es[i].rows)
  <2> DEFINE i == csv[k].input
             idx == csv[k].inputIndex
  <2>1. LineOK(j, k, csv[k]) /\ csv[k] \in Line
    BY <1>1, ElementOfSeq DEF Copied
  <2>2. i \in 1 .. n /\ csv[k].index = k /\ idx = k - es[i].start + 1 /\ idx \in Nat \ {0}
    BY <2>1 DEF LineOK, Line
  <2>3. i < j.nth
    BY <1>1, <2>2
  <2>4. k <= es[i].end /\ csv[k].row = es[i].rows[idx]
    BY <2>1, <2>3 DEF LineOK
  <2>5. es[i] \in Entry
    BY <1>1, <2>2, ElementOfSeq
  <2>6. /\ es[i].start \in Nat /\ es[i].end \in Nat /\ Len(es[i].rows) \in Nat
        /\ es[i].end = es[i].start + Len(es[i].rows) - 1
    BY <2>2, <2>5, LenProperties DEF Entry, Ranges
  <2>7. k \in es[i].start .. es[i].end
    <3> DEFINE first == es[i].start
               last == es[i].end
    <3>1. /\ idx = k - first + 1 /\ idx \in Nat \ {0} /\ k \in Nat /\ k <= last
          /\ first \in Nat /\ last \in Nat
      BY <1>1, <2>2, <2>4, <2>6
    <3> HIDE DEF idx, first, last
    <3>2. k \in first .. last
      BY <3>1
    <3> QED
      BY <3>2 DEF first, last
  <2>8. k = es[i].start => idx = 1
    BY <2>2, <2>6
  <2>9. k = es[i].end => idx = Len(es[i].rows)
    <3> DEFINE first == es[i].start
               size == Len(es[i].rows)
    <3>1. idx = k - first + 1 /\ es[i].end = first + size - 1 /\ first \in Nat /\ size \in Nat
      BY <2>2, <2>6
    <3> HIDE DEF idx, first, size
    <3>2. k = first + size - 1 => idx = size
      BY <3>1
    <3> QED
      BY <3>1, <3>2 DEF size
  <2> QED
    BY <2>2, <2>4, <2>7, <2>8, <2>9 DEF First, Last
<1>5. Opens(b)
  <2>1. ASSUME NEW k \in 1 .. Len(csv)
        PROVE  /\ csv[k].index = k
               /\ \E i \in DOMAIN inputs :
                    /\ k \in inputs[i].start .. inputs[i].end
                    /\ csv[k].input = i
                    /\ csv[k].inputIndex = k - inputs[i].start + 1
                    /\ k = inputs[i].start => csv[k].row.at = First(inputs[i].rows).at
                    /\ k = inputs[i].end   => csv[k].row.at = Last(inputs[i].rows).at
    <3>1. csv[k].input \in DOMAIN inputs
      BY <1>2, <1>4
    <3> DEFINE i == csv[k].input
    <3>2. /\ inputs[i].rows = es[i].rows /\ inputs[i].start = es[i].start
          /\ inputs[i].end = es[i].end
      BY <1>2, <1>4
    <3>3. /\ k \in es[i].start .. es[i].end
          /\ csv[k].inputIndex = k - es[i].start + 1
          /\ k = es[i].start => csv[k].row.at = First(es[i].rows).at
          /\ k = es[i].end   => csv[k].row.at = Last(es[i].rows).at
          /\ csv[k].index = k
      BY <1>4
    <3>4. /\ k \in inputs[i].start .. inputs[i].end
          /\ csv[k].inputIndex = k - inputs[i].start + 1
          /\ k = inputs[i].start => csv[k].row.at = First(inputs[i].rows).at
          /\ k = inputs[i].end   => csv[k].row.at = Last(inputs[i].rows).at
      BY <3>2, <3>3
    <3> QED
      BY <3>1, <3>3, <3>4
  <2> QED
    BY <1>3, <2>1 DEF Opens
<1>6. Hashed(b)
  <2>1. DOMAIN csv = 1 .. Len(csv)
    BY <1>1, LenProperties
  <2>2. ASSUME NEW k \in DOMAIN csv
        PROVE  csv[k].row = inputs[csv[k].input].rows[csv[k].inputIndex]
    BY <1>2, <1>4, <2>1
  <2> QED
    BY <2>2 DEF Hashed
<1> QED
  BY <1>2, <1>5, <1>6 DEF Complete

LEMMA WriteManifestSteps ==
  ASSUME CTypeOK, Locals, NEW c \in Creators, WriteManifest(c)
  PROVE  Stepped(c) /\ Answered(c)
<1> DEFINE o == job[c]
           j == job'[c]
           b == staging'[c]
           manifest == ManifestOf(o.files, o.entries)
<1>1. o.pc = "manifest" /\ o.pc \in Copying
  BY DEF WriteManifest, At, Copying
<1>2. /\ o \in JobState /\ job \in [Creators -> JobState]
      /\ staging[c] \in Bundle /\ staging \in [Creators -> Bundle]
      /\ o.entries \in Seq(Entry) /\ o.files \in Seq(Scanned)
      /\ Counted(o) /\ Progress(o) /\ o.ret = "nothing" /\ Ranges(o.entries)
      /\ Len(o.entries) = Len(o.files) /\ Len(o.files) \in Nat \ {0}
      /\ staging[c].by = c /\ Copied(o, staging[c].csv)
  BY <1>1, CopyingFacts
<1>3. o.nth = Len(o.files) + 1 /\ o.rows = <<>> /\ staging[c].csvSynced
  BY <1>1, <1>2 DEF Progress, Copying, Locals, Local
<1>4. manifest \in Manifest
  BY <1>2, ManifestFacts
<1>5. CASE Fail(c, "rejected") /\ UNCHANGED staging
  BY <1>5, FailSteps DEF Reasons
<1>6. CASE /\ Valid(manifest)
           /\ staging' = [staging EXCEPT ![c].manifest = manifest, ![c].manifestSynced = TRUE]
           /\ job' = [job EXCEPT ![c].pc = "promote"]
  <2> HIDE DEF manifest
  <2>1. /\ j \in JobState /\ job' \in [Creators -> JobState]
        /\ j.pc = "promote" /\ j.files = o.files /\ j.rows = o.rows
        /\ j.entries = o.entries /\ j.nth = o.nth /\ j.ret = "nothing"
        /\ \A d \in Creators : d # c => job'[d] = job[d]
    BY <1>2, <1>6 DEF JobState, Copying
  <2>2. /\ b \in Bundle /\ staging' \in [Creators -> Bundle]
        /\ b.by = c /\ b.csv = staging[c].csv /\ b.csvSynced /\ b.manifestSynced
        /\ b.manifest = manifest
        /\ \A d \in Creators : d # c => staging'[d] = staging[d]
    BY <1>2, <1>3, <1>4, <1>6 DEF Bundle
  <2>3. Counted(j) /\ Progress(j) /\ j.pc \in Copying
    BY <1>1, <1>2, <2>1 DEF Counted, Progress, Inspecting, Copying
  <2>4. Copied(j, b.csv)
    BY <1>2, <2>1, <2>2, CopiedStays
  <2>5. b.manifest = ManifestOf(j.files, j.entries) /\ Valid(b.manifest)
    BY <1>6, <2>1, <2>2 DEF manifest
  <2>6. Complete(b, OutputStem(j.files))
    BY <1>2, <1>3, <2>1, <2>2, <2>4, <2>5, CopiedIsComplete
  <2>7. Local(c, j, b)
    BY <2>1, <2>2, <2>3, <2>4, <2>6, CopyingIsLocal
  <2> QED
    BY <2>1, <2>2, <2>7 DEF Stepped, Answered
<1> QED
  BY <1>5, <1>6 DEF WriteManifest

(* The name a creator copies for is a stem.                                  *)
LEMMA DestFacts ==
  ASSUME CTypeOK, Locals, NEW c \in Creators, job[c].pc \in Copying
  PROVE  Dest(c) \in Stems
  BY CopyingFacts, OutputStemIsStem DEF Dest

LEMMA PromoteSteps ==
  ASSUME CTypeOK, Locals, NEW c \in Creators, Promote(c)
  PROVE  Stepped(c) /\ Answered(c)
<1> DEFINE o == job[c]
           j == job'[c]
           b == staging[c]
<1>1. o.pc = "promote" /\ o.pc \in Copying /\ UNCHANGED staging
  BY DEF Promote, At, Copying
<1>2. CASE Exists(out[Dest(c)]) /\ Fail(c, "exists")
  <2>1. Dest(c) \in Stems
    BY <1>1, DestFacts
  <2> QED
    BY <1>1, <1>2, <2>1, FailSteps DEF Reasons
<1>3. CASE job' = [job EXCEPT ![c].pc = "rename"]
  <2>1. /\ o \in JobState /\ job \in [Creators -> JobState]
        /\ b \in Bundle /\ staging \in [Creators -> Bundle]
        /\ Counted(o) /\ Progress(o) /\ o.ret = "nothing"
        /\ b.by = c /\ Copied(o, b.csv)
    BY <1>1, CopyingFacts
  <2>2. b.csvSynced /\ Complete(b, OutputStem(o.files))
    BY <1>1 DEF Locals, Local
  <2>3. /\ j \in JobState /\ job' \in [Creators -> JobState]
        /\ j.pc = "rename" /\ j.files = o.files /\ j.rows = o.rows
        /\ j.entries = o.entries /\ j.nth = o.nth /\ j.ret = "nothing"
        /\ \A d \in Creators : d # c => job'[d] = job[d]
    BY <1>3, <2>1 DEF JobState, Copying
  <2>4. Counted(j) /\ Progress(j) /\ j.pc \in Copying
    BY <1>1, <2>1, <2>3 DEF Counted, Progress, Inspecting, Copying
  <2>5. Copied(j, b.csv)
    BY <2>1, <2>3, CopiedStays
  <2>6. Local(c, j, b)
    BY <2>1, <2>2, <2>3, <2>4, <2>5, CopyingIsLocal
  <2> QED
    BY <1>1, <2>1, <2>3, <2>6 DEF Stepped, Answered
<1> QED
  BY <1>2, <1>3 DEF Promote

(* A rename that succeeds publishes what was staged.                         *)
Placed(c) ==
  /\ ~Exists(out[Dest(c)])
  /\ out' = [out EXCEPT ![Dest(c)] = staging[c]]
  /\ Dest(c) \in Stems
  /\ staging[c] \in Bundle /\ staging[c].by = c
  /\ Complete(staging[c], Dest(c))
  /\ job'[c].pc = "done" /\ job'[c].ret = "ok"

LEMMA RenameSteps ==
  ASSUME CTypeOK, Locals, NEW c \in Creators, Rename(c)
  PROVE  Stepped(c) /\ (Placed(c) \/ (Answered(c) /\ UNCHANGED out))
<1> DEFINE o == job[c]
<1>1. o.pc = "rename" /\ o.pc \in Copying
  BY DEF Rename, At, Copying
<1>2. /\ o \in JobState /\ job \in [Creators -> JobState]
      /\ staging[c] \in Bundle /\ staging \in [Creators -> Bundle]
      /\ staging[c].by = c
  BY <1>1, CopyingFacts
<1>3. Dest(c) \in Stems
  BY <1>1, DestFacts
<1>4. CASE /\ ~Exists(out[Dest(c)])
           /\ out' = [out EXCEPT ![Dest(c)] = staging[c]]
           /\ staging' = [staging EXCEPT ![c] = Nothing]
           /\ Leave(c, "done", "ok")
  <2>1. Complete(staging[c], Dest(c))
    BY <1>1 DEF Locals, Local, Dest
  <2>2. Nothing \in Bundle /\ Nothing.by = "nobody"
    BY EmptySeq DEF Nothing, Bundle
  <2>3. /\ Call(o, "done", "ok") \in JobState
        /\ Local(c, Call(o, "done", "ok"), Nothing)
    <3>1. ASSUME NEW b, b.by \in {c, "nobody"}
          PROVE  Call(o, "done", "ok") \in JobState /\ Local(c, Call(o, "done", "ok"), b)
      BY <1>2, <3>1, EndedFacts DEF Reasons
    <3> QED
      BY <2>2, <3>1
  <2>4. Call(o, "done", "ok").pc = "done" /\ Call(o, "done", "ok").ret = "ok"
    BY DEF Call
  <2>5. /\ job' = [job EXCEPT ![c] = Call(o, "done", "ok")]
        /\ staging' = [staging EXCEPT ![c] = Nothing]
    BY <1>4 DEF Leave
  <2>6. Stepped(c)
    BY <1>2, <2>2, <2>3, <2>5 DEF Stepped
  <2>7. Placed(c)
    BY <1>2, <1>3, <1>4, <2>1, <2>4, <2>5 DEF Placed
  <2> QED
    BY <2>6, <2>7
<1>5. CASE /\ Fail(c, IF Exists(out[Dest(c)]) THEN "exists" ELSE "io")
           /\ UNCHANGED <<staging, out>>
  <2>1. CASE Exists(out[Dest(c)])
    BY <1>3, <1>5, <2>1, FailSteps DEF Reasons
  <2>2. CASE ~Exists(out[Dest(c)])
    BY <1>5, <2>2, FailSteps DEF Reasons
  <2> QED
    BY <2>1, <2>2
<1> QED
  BY <1>4, <1>5 DEF Rename

LEMMA CleanupSteps ==
  ASSUME CTypeOK, Locals, TurnedAway, NEW c \in Creators, Cleanup(c)
  PROVE  Stepped(c) /\ Answered(c)
<1> DEFINE o == job[c]
           j == job'[c]
           b == staging'[c]
<1>1. o.pc = "cleanup" /\ job' = [job EXCEPT ![c].pc = "done"]
  BY DEF Cleanup, At
<1>2. PICK rest \in {Nothing, [Nothing EXCEPT !.by = c]} :
        staging' = [staging EXCEPT ![c] = rest]
  BY DEF Cleanup
<1>3. rest \in Bundle /\ rest.by \in {c, "nobody"}
  <2>1. Nothing \in Bundle /\ Nothing.by = "nobody"
    BY EmptySeq DEF Nothing, Bundle
  <2>2. [Nothing EXCEPT !.by = c] \in Bundle /\ [Nothing EXCEPT !.by = c].by = c
    BY EmptySeq DEF Nothing, Bundle
  <2> QED
    BY <1>2, <2>1, <2>2
<1>4. /\ o \in JobState /\ job \in [Creators -> JobState]
      /\ staging \in [Creators -> Bundle]
      /\ Ranges(o.entries) /\ o.ret \in Reasons
  BY <1>1 DEF CTypeOK, Locals, Local, Counted, Told
<1>5. /\ b = rest /\ staging' \in [Creators -> Bundle]
      /\ \A d \in Creators : d # c => staging'[d] = staging[d]
  BY <1>2, <1>3, <1>4
<1>6. /\ j \in JobState /\ job' \in [Creators -> JobState]
      /\ j.pc = "done" /\ j.ret = o.ret /\ j.entries = o.entries
      /\ \A d \in Creators : d # c => job'[d] = job[d]
  BY <1>1, <1>4 DEF JobState, Over
<1>7. Counted(j) /\ Progress(j) /\ Told(j)
  BY <1>4, <1>6 DEF Counted, Progress, Told, Inspecting, Copying
<1>8. Local(c, j, b)
  BY <1>3, <1>5, <1>6, <1>7 DEF Local, Inspecting, Copying
<1>9. Answered(c)
  BY <1>1, <1>4, <1>6 DEF Answered, TurnedAway
<1> QED
  BY <1>5, <1>6, <1>8, <1>9 DEF Stepped

LEMMA KillSteps ==
  ASSUME CTypeOK, Locals, NEW c \in Creators, Kill(c)
  PROVE  Stepped(c) /\ Answered(c)
<1> DEFINE e == Call(job[c], "dead", "nothing")
<1>1. job' = [job EXCEPT ![c] = e] /\ UNCHANGED staging
  BY DEF Kill, Leave
<1>2. /\ job[c] \in JobState /\ job \in [Creators -> JobState]
      /\ staging \in [Creators -> Bundle] /\ staging[c].by \in {c, "nobody"}
  BY DEF CTypeOK, Locals, Local
<1>3. e \in JobState /\ Local(c, e, staging[c])
  BY <1>2, EndedFacts
<1>4. e.pc = "dead"
  BY DEF Call
<1> QED
  BY <1>1, <1>2, <1>3, <1>4 DEF Stepped, Answered

-----------------------------------------------------------------------------
(* The invariant *)

(* A step of one creator that leaves the output root alone.                  *)
LEMMA StepKeeps ==
  ASSUME ConcatInv, NEW c \in Creators, Stepped(c), Answered(c),
         UNCHANGED <<file, rewrites, out>>
  PROVE  ConcatInv'
<1>1. CTypeOK'
  BY DEF ConcatInv, CTypeOK, Stepped
<1>2. Locals'
  BY DEF ConcatInv, Locals, Stepped
<1>3. Published'
  BY DEF ConcatInv, Published
<1>4. TurnedAway'
  <2>1. ASSUME NEW d \in Creators, job'[d].pc = "cleanup" /\ job'[d].ret = "exists"
        PROVE  \E stem \in Stems : Exists(out[stem])
    BY <2>1 DEF ConcatInv, TurnedAway, Stepped, Answered
  <2> QED
    BY <2>1 DEF TurnedAway
<1> QED
  BY <1>1, <1>2, <1>3, <1>4 DEF ConcatInv

(* Every step of a creator but a rename that succeeds is one of those.       *)
LEMMA CreateSteps ==
  ASSUME ConcatInv, NEW c \in Creators, Create(c) \/ Kill(c)
  PROVE  /\ Stepped(c) /\ UNCHANGED <<file, rewrites>>
         /\ job[c].pc \notin Over
         /\ Placed(c) \/ (Answered(c) /\ UNCHANGED out)
<1> USE DEF ConcatInv
<1>1. CASE IoFails(c)
  BY <1>1, IoFailsSteps DEF IoFails, Over
<1>2. CASE InspectPath(c)
  BY <1>2, InspectPathSteps DEF InspectPath, At, Over
<1>3. CASE ScanRow(c)
  BY <1>3, ScanRowSteps DEF ScanRow, At, Over
<1>4. CASE ScanEnd(c)
  BY <1>4, ScanEndSteps DEF ScanEnd, At, Over
<1>5. CASE ScanFails(c)
  BY <1>5, ScanFailsSteps DEF ScanFails, At, Over
<1>6. CASE Order(c)
  BY <1>6, OrderSteps DEF Order, At, Over
<1>7. CASE Number(c)
  BY <1>7, NumberSteps DEF Number, At, Over
<1>8. CASE Stage(c)
  BY <1>8, StageSteps DEF Stage, At, Over
<1>9. CASE CopyRow(c)
  BY <1>9, CopyRowSteps DEF CopyRow, At, Over
<1>10. CASE CopyEnd(c)
  BY <1>10, CopyEndSteps DEF CopyEnd, At, Over
<1>11. CASE CopyFails(c)
  BY <1>11, ScanFailsSteps DEF CopyFails, At, Over
<1>12. CASE SyncCsv(c)
  BY <1>12, SyncCsvSteps DEF SyncCsv, At, Over
<1>13. CASE WriteManifest(c)
  BY <1>13, WriteManifestSteps DEF WriteManifest, At, Over
<1>14. CASE Promote(c)
  BY <1>14, PromoteSteps DEF Promote, At, Over
<1>15. CASE Rename(c)
  BY <1>15, RenameSteps DEF Rename, At, Over
<1>16. CASE Cleanup(c)
  BY <1>16, CleanupSteps DEF Cleanup, At, Over
<1>17. CASE Kill(c)
  BY <1>17, KillSteps DEF Kill, Over
<1> QED
  BY <1>1, <1>2, <1>3, <1>4, <1>5, <1>6, <1>7, <1>8, <1>9, <1>10, <1>11, <1>12,
     <1>13, <1>14, <1>15, <1>16, <1>17 DEF Create

LEMMA PlacedKeeps ==
  ASSUME ConcatInv, NEW c \in Creators, Stepped(c), Placed(c),
         UNCHANGED <<file, rewrites>>
  PROVE  ConcatInv'
<1>1. CTypeOK'
  BY DEF ConcatInv, CTypeOK, Stepped, Placed
<1>2. Locals'
  BY DEF ConcatInv, Locals, Stepped
<1>3. Published'
  <2>1. ASSUME NEW stem \in Stems, out'[stem].by \in Creators
        PROVE  Complete(out'[stem], stem)
    <3>1. CASE stem = Dest(c)
      BY <3>1 DEF ConcatInv, CTypeOK, Placed
    <3>2. CASE stem # Dest(c)
      BY <2>1, <3>2 DEF ConcatInv, CTypeOK, Placed, Published
    <3> QED
      BY <3>1, <3>2
  <2> QED
    BY <2>1 DEF Published
<1>4. TurnedAway'
  <2>1. ASSUME NEW d \in Creators, job'[d].pc = "cleanup", job'[d].ret = "exists"
        PROVE  \E stem \in Stems : Exists(out'[stem])
    <3>1. d # c
      BY <2>1 DEF Placed
    <3>2. PICK stem \in Stems : Exists(out[stem])
      BY <2>1, <3>1 DEF ConcatInv, TurnedAway, Stepped
    <3>3. out'[stem] = out[stem]
      BY <3>2 DEF ConcatInv, CTypeOK, Placed
    <3> QED
      BY <3>2, <3>3 DEF Exists
  <2> QED
    BY <2>1 DEF TurnedAway, Exists
<1> QED
  BY <1>1, <1>2, <1>3, <1>4 DEF ConcatInv

(* A rewritten input holds one of its versions.                              *)
LEMMA RewriteKeeps ==
  ASSUME ConcatInv, NEW f \in Canonical, Rewrite(f)
  PROVE  ConcatInv'
<1>1. CTypeOK'
  <2>1. PICK contents \in Versions[f] : file' = [file EXCEPT ![f] = contents]
    BY DEF Rewrite
  <2>2. contents \in Seq(Row)
    BY <2>1, InputsAssumption DEF Canonical
  <2>3. rewrites' \in 0 .. MaxRewrites
    BY BoundsAssumption DEF ConcatInv, CTypeOK, Rewrite
  <2> QED
    BY <2>1, <2>2, <2>3 DEF ConcatInv, CTypeOK, Rewrite
<1> QED
  BY <1>1 DEF ConcatInv, Rewrite, Locals, Published, TurnedAway, Exists

(* A directory nobody has written to, whoever made it.                       *)
LEMMA EmptyDirectory ==
  ASSUME NEW by \in Creators \cup {"nobody", "stranger"}
  PROVE  /\ [Nothing EXCEPT !.by = by] \in Bundle
         /\ [Nothing EXCEPT !.by = by].by = by
         /\ Nothing \in Bundle /\ Nothing.by = "nobody"
  BY EmptySeq DEF Nothing, Bundle

LEMMA OccupyKeeps ==
  ASSUME ConcatInv, NEW stem \in Stems, Occupy(stem)
  PROVE  ConcatInv'
<1> DEFINE strange == [Nothing EXCEPT !.by = "stranger"]
<1>1. strange \in Bundle /\ strange.by = "stranger" /\ "stranger" \notin Creators
  BY EmptyDirectory, BoundsAssumption
<1>2. /\ out' = [out EXCEPT ![stem] = strange] /\ out \in [Stems -> Bundle]
      /\ UNCHANGED <<file, rewrites, job, staging>>
  BY DEF Occupy, ConcatInv, CTypeOK
<1> HIDE DEF strange
<1>3. CTypeOK'
  BY <1>1, <1>2 DEF ConcatInv, CTypeOK
<1>4. Locals'
  BY <1>2 DEF ConcatInv, Locals
<1>5. Published'
  BY <1>1, <1>2 DEF ConcatInv, Published
<1>6. TurnedAway'
  <2>1. Exists(out'[stem])
    BY <1>1, <1>2 DEF Exists
  <2> QED
    BY <2>1 DEF TurnedAway, Exists
<1> QED
  BY <1>3, <1>4, <1>5, <1>6 DEF ConcatInv

(* What a power loss leaves of a directory.                                  *)
LEMMA DurableFacts ==
  ASSUME NEW b \in Bundle
  PROVE  /\ Durable(b) \in Bundle
         /\ Durable(b).by = b.by
         /\ b.csvSynced /\ b.manifestSynced => Durable(b) = b
<1>1. CASE b.csvSynced
  <2>1. CASE b.manifestSynced
    BY <1>1, <2>1 DEF Durable, Bundle
  <2>2. CASE ~b.manifestSynced
    BY <1>1, <2>2 DEF Durable, Bundle
  <2> QED
    BY <2>1, <2>2
<1>2. CASE ~b.csvSynced
  <2>1. CASE b.manifestSynced
    BY <1>2, <2>1, EmptySeq DEF Durable, Bundle
  <2>2. CASE ~b.manifestSynced
    BY <1>2, <2>2, EmptySeq DEF Durable, Bundle
  <2> QED
    BY <2>1, <2>2
<1> QED
  BY <1>1, <1>2

LEMMA PowerLossKeeps ==
  ASSUME ConcatInv, PowerLoss
  PROVE  ConcatInv'
<1>1. PICK undone \in SUBSET Promoted :
        /\ out' = [stem \in Stems |-> IF stem \in undone THEN Nothing ELSE Durable(out[stem])]
        /\ staging' = [c \in Creators |->
                         IF \E stem \in undone : out[stem].by = c
                         THEN Durable(out[CHOOSE stem \in undone : out[stem].by = c])
                         ELSE Durable(staging[c])]
        /\ job' = [c \in Creators |->
                     IF At(c, "done") THEN job[c] ELSE Call(job[c], "dead", "nothing")]
        /\ UNCHANGED <<file, rewrites>>
  BY DEF PowerLoss
<1>2. /\ job \in [Creators -> JobState] /\ staging \in [Creators -> Bundle]
      /\ out \in [Stems -> Bundle] /\ Nothing \in Bundle /\ Nothing.by = "nobody"
      /\ undone \subseteq Stems
  BY <1>1, EmptyDirectory DEF ConcatInv, CTypeOK, Promoted
<1>3. ASSUME NEW c \in Creators
      PROVE  /\ staging'[c] \in Bundle /\ staging'[c].by \in {c, "nobody"}
             /\ job'[c] \in JobState /\ job'[c].pc \in Over
             /\ Local(c, job'[c], staging'[c])
  <2>1. staging'[c] \in Bundle /\ staging'[c].by \in {c, "nobody"}
    <3>1. CASE \E stem \in undone : out[stem].by = c
      <4> DEFINE stem == CHOOSE stem \in undone : out[stem].by = c
      <4>1. stem \in undone /\ out[stem].by = c
        BY <3>1
      <4>2. staging'[c] = Durable(out[stem])
        BY <1>1, <3>1
      <4> QED
        BY <1>2, <4>1, <4>2, DurableFacts
    <3>2. CASE ~\E stem \in undone : out[stem].by = c
      <4>1. staging'[c] = Durable(staging[c])
        BY <1>1, <3>2
      <4>2. staging[c].by \in {c, "nobody"}
        BY DEF ConcatInv, Locals, Local
      <4> QED
        BY <1>2, <4>1, <4>2, DurableFacts
    <3> QED
      BY <3>1, <3>2
  <2>2. job'[c] \in JobState /\ job'[c].pc \in Over /\ Local(c, job'[c], staging'[c])
    <3>1. CASE At(c, "done")
      <4>1. job'[c] = job[c] /\ job[c].pc = "done"
        BY <1>1, <3>1 DEF At
      <4>2. Counted(job[c]) /\ Progress(job[c]) /\ Told(job[c])
        BY DEF ConcatInv, Locals, Local
      <4> QED
        BY <1>2, <2>1, <4>1, <4>2 DEF Local, Over, Inspecting, Copying
    <3>2. CASE ~At(c, "done")
      <4>1. job'[c] = Call(job[c], "dead", "nothing")
        BY <1>1, <3>2
      <4>2. Call(job[c], "dead", "nothing").pc = "dead"
        BY DEF Call
      <4> QED
        BY <1>2, <2>1, <4>1, <4>2, EndedFacts DEF Over
    <3> QED
      BY <3>1, <3>2
  <2> QED
    BY <2>1, <2>2
<1>4. ASSUME NEW stem \in Stems
      PROVE  /\ out'[stem] \in Bundle
             /\ out'[stem].by \in Creators => Complete(out'[stem], stem)
  <2>1. CASE stem \in undone
    BY <1>1, <1>2, <2>1, BoundsAssumption
  <2>2. CASE stem \notin undone
    <3>1. out'[stem] = Durable(out[stem])
      BY <1>1, <2>2
    <3>2. out[stem].by \in Creators => /\ Complete(out[stem], stem)
                                       /\ out[stem].csvSynced /\ out[stem].manifestSynced
      BY DEF ConcatInv, Published, Complete
    <3> QED
      BY <1>2, <3>1, <3>2, DurableFacts
  <2> QED
    BY <2>1, <2>2
<1>5. CTypeOK'
  <2>1. /\ out' = [stem \in Stems |-> out'[stem]]
        /\ staging' = [c \in Creators |-> staging'[c]]
        /\ job' = [c \in Creators |-> job'[c]]
    BY <1>1
  <2>2. /\ out' \in [Stems -> Bundle] /\ staging' \in [Creators -> Bundle]
        /\ job' \in [Creators -> JobState]
    BY <1>3, <1>4, <2>1
  <2> QED
    BY <1>1, <2>2 DEF ConcatInv, CTypeOK
<1>6. Locals'
  BY <1>3 DEF Locals
<1>7. Published'
  BY <1>4 DEF Published
<1>8. TurnedAway'
  BY <1>3 DEF TurnedAway, Over
<1> QED
  BY <1>5, <1>6, <1>7, <1>8 DEF ConcatInv

(* Every creator starts before its first input, with nothing published.      *)
LEMMA ConcatInit ==
  ASSUME CInit
  PROVE  ConcatInv
<1>1. file \in [Canonical -> Seq(Row)]
  <2>1. PICK contents \in [Canonical -> UNION {Versions[f] : f \in Canonical}] :
          /\ file = contents
          /\ \A f \in Canonical : contents[f] \in Versions[f]
    BY DEF CInit
  <2>2. \A f \in Canonical : contents[f] \in Seq(Row)
    BY <2>1, InputsAssumption DEF Canonical
  <2> QED
    BY <2>1, <2>2
<1>2. Nothing \in Bundle /\ Nothing.by = "nobody"
  BY EmptyDirectory
<1>3. ASSUME NEW c \in Creators
      PROVE  job[c] \in JobState /\ job[c].pc = "inspect" /\ Local(c, job[c], staging[c])
  <2>1. PICK request \in Requests : job[c] = Call(request, "inspect", "nothing")
    BY DEF CInit
  <2>2. request.paths \in Seq(Paths) /\ request.current \in BOOLEAN
    BY InputsAssumption
  <2>3. /\ job[c].pc = "inspect" /\ job[c].entries = <<>> /\ job[c].nth = 1
        /\ job[c].ret = "nothing" /\ job[c].pc \in Inspecting
    BY <2>1 DEF Call, Inspecting
  <2>4. job[c] \in JobState
    BY <2>1, <2>2, EmptySeq DEF Call, JobState, Inspecting
  <2>5. Counted(job[c])
    <3>1. Ranges(job[c].entries)
      BY <2>3, EmptySeq DEF Ranges
    <3> QED
      BY <2>3, <3>1 DEF Counted, Copying
  <2>6. staging[c] = Nothing
    BY DEF CInit
  <2> QED
    BY <2>3, <2>4, <2>5, <2>6, InspectingIsLocal
<1>4. CTypeOK
  <2>1. /\ job \in [Creators -> JobState] /\ staging \in [Creators -> Bundle]
        /\ out \in [Stems -> Bundle]
    <3>1. job = [c \in Creators |-> job[c]]
      BY DEF CInit
    <3> QED
      BY <1>2, <1>3, <3>1 DEF CInit
  <2> QED
    BY <1>1, <2>1, BoundsAssumption DEF CInit, CTypeOK
<1>5. Published
  BY <1>2, BoundsAssumption DEF CInit, Published
<1> QED
  BY <1>3, <1>4, <1>5 DEF ConcatInv, Locals, TurnedAway

(* Every step preserves the invariant.                                       *)
LEMMA ConcatStep ==
  ConcatInv /\ [CNext]_cvars => ConcatInv'
<1> SUFFICES ASSUME ConcatInv, [CNext]_cvars PROVE ConcatInv'
  OBVIOUS
<1>1. ASSUME NEW c \in Creators, Create(c) \/ Kill(c) PROVE ConcatInv'
  BY <1>1, CreateSteps, StepKeeps, PlacedKeeps
<1>2. ASSUME NEW f \in Canonical, Rewrite(f) PROVE ConcatInv'
  BY <1>2, RewriteKeeps
<1>3. ASSUME NEW stem \in Stems, Occupy(stem) PROVE ConcatInv'
  BY <1>3, OccupyKeeps
<1>4. CASE PowerLoss
  BY <1>4, PowerLossKeeps
<1>5. CASE UNCHANGED cvars
  BY <1>5 DEF cvars, ConcatInv, CTypeOK, Locals, Published, TurnedAway, Exists
<1> QED
  BY <1>1, <1>2, <1>3, <1>4, <1>5 DEF CNext

(* The invariant holds in every behaviour.                                   *)
THEOREM ConcatenationInvariant == CSpec => []ConcatInv
<1>1. CInit => ConcatInv
  BY ConcatInit
<1> QED
  BY <1>1, ConcatStep, PTL DEF CSpec

(* create_concatenation_at: the local variables of the calls and the         *)
(* directories keep their types.                                             *)
THEOREM ConcatenationTypes == CSpec => []CTypeOK
<1>1. ConcatInv => CTypeOK
  BY DEF ConcatInv
<1> QED
  BY <1>1, ConcatenationInvariant, PTL

(* Whatever is found under a final name opens and holds the rows that were   *)
(* hashed, although write_derived_csv reads inputs again that may have       *)
(* changed since they were inspected.                                        *)
THEOREM PromotedBundlesAreFaithful == CSpec => []PromotedIsFaithful
<1>1. ConcatInv => PromotedIsFaithful
  BY DEF ConcatInv, Published, Complete, PromotedIsFaithful, Promoted
<1> QED
  BY <1>1, ConcatenationInvariant, PTL

-----------------------------------------------------------------------------
(* What the calls answer while no input changes.  All of it is stated of the *)
(* inputs' contents f, so that it can be said of this state and the next.    *)
Rows(f, path) == f[About[path].file]

Fit(f, path, current) ==
  /\ current \/ About[path].format = "legacy"
  /\ SupportedSource(About[path].source, About[path].format)
  /\ Rows(f, path) # <<>>
  /\ Ascending(Rows(f, path))

CanCombine(f, paths, current) ==
  /\ Len(paths) > 0
  /\ \A i \in 1 .. Len(paths) : Fit(f, paths[i], current)
  /\ \A i, k \in 1 .. Len(paths) :
       i # k => /\ Compatible(About[paths[i]], About[paths[k]], current)
                /\ Disjoint(Rows(f, paths[i]), Rows(f, paths[k]))

InputOf(f, path) == [path |-> path, rows |-> Rows(f, path)]

(* the inputs inspected so far are fit, and compatible with the first *)
Inspected(f, j) ==
  /\ Len(j.files) <= Len(j.paths)
  /\ \A k \in 1 .. Len(j.files) :
       /\ j.files[k] = InputOf(f, j.paths[k])
       /\ Fit(f, j.paths[k], j.current)
       /\ Compatible(About[j.paths[1]], About[j.paths[k]], j.current)

(* what was read of an input is its beginning, and ascends *)
Reading(f, path, rows) ==
  /\ Len(rows) <= Len(Rows(f, path))
  /\ \A k \in 1 .. Len(rows) : rows[k] = Rows(f, path)[k]
  /\ Ascending(rows)

(* the inputs in their final order, and what was noted of them *)
Sorted(f, j) ==
  /\ \A k \in 1 .. Len(j.files) :
       \E i \in 1 .. Len(j.paths) : j.files[k] = InputOf(f, j.paths[i])
  /\ ~Overlap(j.files)
  /\ \A k \in 1 .. Len(j.entries) :
       j.entries[k] = EntryOf(j.files[k], j.entries[k].start, j.current)

Judged(f, j) ==
  /\ j.pc \in {"inspect", "scan", "order"} => Inspected(f, j)
  /\ j.pc = "scan" =>
       LET path == j.paths[Len(j.files) + 1]
       IN  /\ j.current \/ About[path].format = "legacy"
           /\ SupportedSource(About[path].source, About[path].format)
           /\ Reading(f, path, j.rows)
  /\ j.pc = "order" => Len(j.files) = Len(j.paths)
  /\ j.pc \in {"number", "stage"} \cup Copying =>
       CanCombine(f, j.paths, j.current) /\ Sorted(f, j)
  /\ j.pc = "copy" => Reading(f, j.files[j.nth].path, j.rows)
  /\ j.ret \notin {"nothing", "io"} =>
       /\ j.ret # "changed"
       /\ j.ret = "rejected" <=> ~CanCombine(f, j.paths, j.current)

Verdicts == rewrites = 0 => \A c \in Creators : Judged(file, job[c])

-----------------------------------------------------------------------------
(* The library's order of the naturals, as a relation *)
Below == {p \in Nat \X Nat : p[1] < p[2]}

(* Induction over the naturals, of a set: the library's theorems state it of *)
(* an operator; here it is the least number that is not in the set.          *)
LEMMA NatInductionSet ==
  ASSUME NEW S, 0 \in S, \A n \in Nat : n \in S => n + 1 \in S
  PROVE  Nat \subseteq S
<1>1. IsWellFoundedOn(Below, Nat)
  <2>1. Below = OpToRel(<, Nat)
    BY Zenon DEF Below, OpToRel
  <2> QED
    BY <2>1, NatLessThanWellFounded, Zenon
<1> SUFFICES ASSUME Nat \ S # {}
             PROVE  FALSE
  OBVIOUS
<1>2. PICK n \in Nat \ S : \A m \in Nat \ S : ~ (<<m, n>> \in Below)
  BY <1>1, WFMin, Zenon
<1>3. n \in Nat /\ n # 0 /\ n - 1 \in Nat /\ (n - 1) + 1 = n
  BY <1>2
<1>4. <<n - 1, n>> \in Below
  BY <1>3 DEF Below
<1>5. n - 1 \in S
  BY <1>2, <1>3, <1>4, Zenon
<1> QED
  BY <1>2, <1>3, <1>5

(* Of rows that ascend the first is no later than the last.                  *)
LEMMA FirstToLast ==
  ASSUME NEW rows \in Seq(Row), rows # <<>>, Ascending(rows)
  PROVE  /\ First(rows).at \in Nat /\ Last(rows).at \in Nat
         /\ First(rows).at <= Last(rows).at
         /\ ~Disjoint(rows, rows)
<1>1. Len(rows) \in Nat \ {0} /\ DOMAIN rows = 1 .. Len(rows)
  BY EmptySeq, LenProperties
<1>2. 1 \in 1 .. Len(rows) /\ Len(rows) \in 1 .. Len(rows)
  BY <1>1
<1>3. rows[1] \in Row /\ rows[Len(rows)] \in Row
  BY <1>2, ElementOfSeq
<1>4. rows[1].at \in Nat /\ rows[Len(rows)].at \in Nat
  BY <1>3 DEF Row
<1>5. rows[1].at <= rows[Len(rows)].at
  <2>1. CASE Len(rows) = 1
    BY <1>4, <2>1
  <2>2. CASE 1 < Len(rows)
    BY <1>1, <1>2, <2>2 DEF Ascending
  <2> QED
    BY <1>1, <2>1, <2>2
<1> QED
  BY <1>4, <1>5 DEF First, Last, Disjoint

(* What a path's file holds are rows.                                        *)
LEMMA RowsAreRows ==
  ASSUME NEW f \in [Canonical -> Seq(Row)], NEW path \in Paths
  PROVE  Rows(f, path) \in Seq(Row) /\ Len(Rows(f, path)) \in Nat
<1>1. Rows(f, path) \in Seq(Row)
  BY PathFacts DEF Rows
<1> QED
  BY <1>1, LenProperties

(* CanCombine is Combinable, of given contents.                              *)
LEMMA CombinableIs ==
  ASSUME CTypeOK, NEW paths \in Seq(Paths), NEW current \in BOOLEAN
  PROVE  Combinable(paths, current) <=> CanCombine(file, paths, current)
<1>1. DOMAIN paths = 1 .. Len(paths) /\ (paths # <<>> <=> Len(paths) > 0)
  BY EmptySeq, LenProperties
<1>2. \A path : Content(path) = Rows(file, path)
  BY DEF Content, Rows
<1> QED
  BY <1>1, <1>2, Zenon DEF Combinable, CanCombine, Fit, Compatible

-----------------------------------------------------------------------------
(* Inputs in an order in which none reaches into the next are all disjoint,  *)
(* however far apart: by induction on their distance.                        *)
LEMMA NoneOverlaps ==
  ASSUME NEW files \in Seq(Scanned), ~Overlap(files),
         \A k \in 1 .. Len(files) : Ascending(files[k].rows),
         NEW k \in 1 .. Len(files), NEW l \in 1 .. Len(files), k < l
  PROVE  Last(files[k].rows).at < First(files[l].rows).at
<1> DEFINE n == Len(files)
           a(i) == First(files[i].rows).at
           z(i) == Last(files[i].rows).at
           S == {d \in Nat : \A i \in 1 .. n : i + d + 1 <= n => z(i) < a(i + d + 1)}
<1>1. n \in Nat
  BY LenProperties
<1>2. ASSUME NEW i \in 1 .. n
      PROVE  a(i) \in Nat /\ z(i) \in Nat /\ a(i) <= z(i)
  <2>1. files[i] \in Scanned
    BY ElementOfSeq
  <2>2. files[i].rows \in Seq(Row) /\ files[i].rows # <<>>
    BY <2>1 DEF Scanned
  <2> QED
    BY <2>2, FirstToLast
<1>3. ASSUME NEW i \in 1 .. n - 1
      PROVE  z(i) < a(i + 1)
  <2>1. i \in 1 .. n /\ i + 1 \in 1 .. n
    BY <1>1
  <2>2. ~(z(i) >= a(i + 1))
    BY DEF Overlap
  <2>3. a(i + 1) \in Nat /\ z(i) \in Nat
    BY <1>2, <2>1
  <2> HIDE DEF a, z
  <2> QED
    BY <2>2, <2>3
<1> HIDE DEF a, z
<1>4. 0 \in S
  <2>1. ASSUME NEW i \in 1 .. n, i + 0 + 1 <= n
        PROVE  z(i) < a(i + 0 + 1)
    <3>1. i \in 1 .. n - 1 /\ i + 0 + 1 = i + 1
      BY <1>1, <2>1
    <3> QED
      BY <1>3, <3>1
  <2> QED
    BY <2>1
<1>5. ASSUME NEW d \in Nat, d \in S
      PROVE  d + 1 \in S
  <2>1. ASSUME NEW i \in 1 .. n, i + (d + 1) + 1 <= n
        PROVE  z(i) < a(i + (d + 1) + 1)
    <3>1. /\ i + d + 1 <= n /\ i + d + 1 \in 1 .. n - 1 /\ i + d + 1 \in 1 .. n
          /\ (i + d + 1) + 1 = i + (d + 1) + 1 /\ i + (d + 1) + 1 \in 1 .. n
      BY <1>1, <2>1
    <3>2. z(i) < a(i + d + 1)
      BY <1>5, <3>1
    <3>3. z(i + d + 1) < a((i + d + 1) + 1)
      BY <1>3, <3>1
    <3>4. /\ z(i) \in Nat /\ a(i + d + 1) \in Nat /\ z(i + d + 1) \in Nat
          /\ a(i + d + 1) <= z(i + d + 1) /\ a(i + (d + 1) + 1) \in Nat
      BY <1>2, <3>1
    <3> QED
      BY <3>1, <3>2, <3>3, <3>4
  <2> QED
    BY <2>1
<1> HIDE DEF S
<1>6. Nat \subseteq S
  BY <1>4, <1>5, NatInductionSet, Zenon
<1>7. l - k - 1 \in Nat /\ k + (l - k - 1) + 1 = l /\ l <= n
  BY <1>1
<1>8. l - k - 1 \in S
  BY <1>6, <1>7
<1>9. z(k) < a(l)
  BY <1>7, <1>8 DEF S
<1> QED
  BY <1>9 DEF a, z

(* The stable sort by first timestamp and name is enough: the neighbours in  *)
(* its order overlap exactly if any two of the inputs do.                    *)
LEMMA SortingShowsOverlap ==
  ASSUME NEW files \in Seq(Scanned), NEW p \in Sortings(files), NEW sorted,
         \A k \in 1 .. Len(files) : Ascending(files[k].rows),
         sorted = [k \in DOMAIN p |-> files[p[k]]]
  PROVE  /\ sorted \in Seq(Scanned) /\ Len(sorted) = Len(files)
         /\ \A k \in 1 .. Len(files) :
              /\ p[k] \in 1 .. Len(files) /\ sorted[k] = files[p[k]]
              /\ Ascending(sorted[k].rows)
         /\ Overlap(sorted) <=>
              \E i, k \in 1 .. Len(files) : /\ i # k
                                            /\ ~Disjoint(files[i].rows, files[k].rows)
<1> DEFINE n == Len(files)
           a(i) == First(files[i].rows).at
           z(i) == Last(files[i].rows).at
<1>1. /\ n \in Nat /\ DOMAIN files = 1 .. n
      /\ p \in [1 .. n -> 1 .. n] /\ DOMAIN p = 1 .. n
      /\ \A k \in 1 .. n - 1 : Before(files, p[k], p[k + 1])
  BY LenProperties DEF Sortings
<1>2. sorted \in Seq(Scanned) /\ Len(sorted) = n
  BY <1>1, Rearranged
<1>3. \A k \in 1 .. n : p[k] \in 1 .. n /\ sorted[k] = files[p[k]]
  BY <1>1
<1>4. \A k \in 1 .. n : Ascending(sorted[k].rows)
  BY <1>3
<1>5. ASSUME NEW i \in 1 .. n
      PROVE  /\ a(i) \in Nat /\ z(i) \in Nat /\ a(i) <= z(i)
             /\ About[files[i].path].name \in Nat
  <2>1. files[i] \in Scanned
    BY ElementOfSeq
  <2>2. files[i].rows \in Seq(Row) /\ files[i].rows # <<>> /\ files[i].path \in Paths
    BY <2>1 DEF Scanned
  <2>3. About[files[i].path].name \in Nat
    <3>1. About[files[i].path] \in [file : STRING, name : Nat, source : STRING, fold : STRING,
                                    bits : Nat, interval : Nat, format : Formats]
      BY <2>2, PathFacts
    <3> QED
      BY <3>1
  <2> QED
    BY <2>2, <2>3, FirstToLast
<1>6. ASSUME NEW k \in 1 .. n - 1, Last(sorted[k].rows).at >= First(sorted[k + 1].rows).at
      PROVE  \E i, m \in 1 .. n : i # m /\ ~Disjoint(files[i].rows, files[m].rows)
  <2>1. k \in 1 .. n /\ k + 1 \in 1 .. n
    BY <1>1
  <2>2. p[k] \in 1 .. n /\ p[k + 1] \in 1 .. n /\ Before(files, p[k], p[k + 1])
    BY <1>1, <1>3, <2>1
  <2>3. z(p[k]) >= a(p[k + 1])
    BY <1>3, <1>6, <2>1
  <2>4. p[k] # p[k + 1] /\ a(p[k]) <= a(p[k + 1])
    BY <1>5, <2>2 DEF Before
  <2>5. /\ a(p[k]) \in Nat /\ z(p[k]) \in Nat /\ a(p[k + 1]) \in Nat /\ z(p[k + 1]) \in Nat
        /\ a(p[k]) <= z(p[k]) /\ a(p[k + 1]) <= z(p[k + 1])
    BY <1>5, <2>2
  <2>6. ~(z(p[k]) < a(p[k + 1])) /\ ~(z(p[k + 1]) < a(p[k]))
    <3> HIDE DEF a, z
    <3> QED
      BY <2>3, <2>4, <2>5
  <2>7. ~Disjoint(files[p[k]].rows, files[p[k + 1]].rows)
    BY <2>6 DEF Disjoint
  <2> QED
    BY <2>2, <2>4, <2>7
<1>7. ASSUME ~Overlap(sorted), NEW i \in 1 .. n, NEW m \in 1 .. n, i # m
      PROVE  Disjoint(files[i].rows, files[m].rows)
  <2>1. ASSUME NEW k \in 1 .. n, NEW l \in 1 .. n, k < l
        PROVE  z(p[k]) < a(p[l])
    <3>1. Last(sorted[k].rows).at < First(sorted[l].rows).at
      BY <1>2, <1>4, <1>7, <2>1, NoneOverlaps
    <3> QED
      BY <1>3, <3>1
  <2>2. ASSUME NEW k \in 1 .. n, NEW l \in 1 .. n, k < l
        PROVE  p[k] # p[l]
    <3>1. z(p[k]) < a(p[l])
      BY <2>1, <2>2
    <3>2. p[k] \in 1 .. n
      BY <1>3
    <3>3. a(p[k]) \in Nat /\ z(p[k]) \in Nat /\ a(p[k]) <= z(p[k])
      BY <1>5, <3>2
    <3> HIDE DEF a, z
    <3> QED
      BY <3>1, <3>3
  <2>3. p \in Injection(1 .. n, 1 .. n)
    <3>1. ASSUME NEW k \in 1 .. n, NEW l \in 1 .. n, p[k] = p[l]
          PROVE  k = l
      <4>1. ~(k < l) /\ ~(l < k)
        BY <2>2, <3>1
      <4> QED
        BY <4>1
    <3> QED
      BY <1>1, <3>1 DEF Injection, IsInjective
  <2>4. p \in Surjection(1 .. n, 1 .. n)
    <3>1. IsFiniteSet(1 .. n)
      BY <1>1, FS_Interval
    <3> QED
      BY <2>3, <3>1, FS_Injection, Zenon
  <2>5. (\E k \in 1 .. n : p[k] = i) /\ (\E l \in 1 .. n : p[l] = m)
    BY <2>4, Zenon DEF Surjection
  <2>6. PICK k \in 1 .. n, l \in 1 .. n : p[k] = i /\ p[l] = m
    BY <2>5, Zenon
  <2>7. k < l \/ l < k
    BY <1>7, <2>6
  <2>8. z(i) < a(m) \/ z(m) < a(i)
    <3> HIDE DEF a, z
    <3> QED
      BY <2>1, <2>6, <2>7
  <2> QED
    BY <2>8 DEF Disjoint
<1>8. Overlap(sorted) <=>
        \E k \in 1 .. n - 1 : Last(sorted[k].rows).at >= First(sorted[k + 1].rows).at
  BY <1>2 DEF Overlap
<1>9. Overlap(sorted) => \E i, m \in 1 .. n : i # m /\ ~Disjoint(files[i].rows, files[m].rows)
  BY <1>6, <1>8, Zenon
<1>10. ~Overlap(sorted) => \A i, m \in 1 .. n : i # m => Disjoint(files[i].rows, files[m].rows)
  BY <1>7, Zenon
<1> QED
  BY <1>2, <1>3, <1>4, <1>9, <1>10, Zenon

-----------------------------------------------------------------------------
(* One lemma for each step of a creator, while no input changes.             *)

(* An error is the right answer if it is the file system's, or if the inputs *)
(* cannot be combined.                                                       *)
LEMMA FailJudges ==
  ASSUME CTypeOK, NEW c \in Creators, NEW reason \in {"io", "rejected", "exists"},
         reason # "io" =>
           (reason = "rejected" <=> ~CanCombine(file, job[c].paths, job[c].current)),
         Fail(c, reason)
  PROVE  Judged(file, job'[c])
<1> DEFINE j == job'[c]
<1>1. PICK pc \in {"cleanup", "done"} : j = Call(job[c], pc, reason)
  BY DEF CTypeOK, Fail, Leave
<1>2. j.pc = pc /\ j.ret = reason /\ j.paths = job[c].paths /\ j.current = job[c].current
  BY <1>1 DEF Call
<1>3. j.pc \notin {"inspect", "scan", "order", "number", "stage"} \cup Copying
  BY <1>2 DEF Copying
<1> HIDE DEF j
<1>4. j.pc # "copy" /\ j.ret # "changed"
  BY <1>2
<1> QED
  BY <1>2, <1>3, <1>4 DEF Judged, j

(* A call that still runs has told nothing yet.                              *)
LEMMA RunningFacts ==
  ASSUME CTypeOK, Locals, NEW c \in Creators
  PROVE  /\ job[c] \in JobState /\ job \in [Creators -> JobState]
         /\ job[c].paths \in Seq(Paths) /\ job[c].current \in BOOLEAN
         /\ job[c].files \in Seq(Scanned) /\ job[c].rows \in Seq(Row)
         /\ job[c].entries \in Seq(Entry)
         /\ Len(job[c].paths) \in Nat /\ Len(job[c].files) \in Nat
         /\ Len(job[c].rows) \in Nat /\ Len(job[c].entries) \in Nat
         /\ DOMAIN job[c].files = 1 .. Len(job[c].files)
         /\ Counted(job[c]) /\ Progress(job[c]) /\ Told(job[c])
         /\ file \in [Canonical -> Seq(Row)]
<1>1. job[c] \in JobState /\ job \in [Creators -> JobState] /\ file \in [Canonical -> Seq(Row)]
  BY DEF CTypeOK
<1>2. /\ job[c].paths \in Seq(Paths) /\ job[c].current \in BOOLEAN
      /\ job[c].files \in Seq(Scanned) /\ job[c].rows \in Seq(Row)
      /\ job[c].entries \in Seq(Entry)
  BY <1>1 DEF JobState
<1>3. Counted(job[c]) /\ Progress(job[c]) /\ Told(job[c])
  BY DEF Locals, Local
<1> QED
  BY <1>1, <1>2, <1>3, LenProperties

(* The same file under two paths is not disjoint from itself.                *)
LEMMA AliasesOverlap ==
  ASSUME NEW f \in [Canonical -> Seq(Row)], NEW paths \in Seq(Paths), NEW current \in BOOLEAN,
         NEW i \in 1 .. Len(paths), NEW k \in 1 .. Len(paths), i # k,
         About[paths[i]].file = About[paths[k]].file
  PROVE  ~CanCombine(f, paths, current)
<1> SUFFICES ASSUME CanCombine(f, paths, current) PROVE FALSE
  OBVIOUS
<1>1. paths[i] \in Paths
  BY ElementOfSeq
<1>2. Rows(f, paths[i]) \in Seq(Row) /\ Rows(f, paths[k]) = Rows(f, paths[i])
  BY <1>1, RowsAreRows DEF Rows
<1>3. Rows(f, paths[i]) # <<>> /\ Ascending(Rows(f, paths[i]))
  BY DEF CanCombine, Fit
<1>4. Disjoint(Rows(f, paths[i]), Rows(f, paths[k]))
  BY DEF CanCombine
<1> QED
  BY <1>2, <1>3, <1>4, FirstToLast

LEMMA NothingRead ==
  ASSUME NEW f \in [Canonical -> Seq(Row)], NEW path \in Paths
  PROVE  Reading(f, path, <<>>)
<1>1. Len(Rows(f, path)) \in Nat
  BY RowsAreRows
<1>2. <<>> \in Seq(Row) /\ Len(<<>>) = 0 /\ DOMAIN <<>> = 1 .. 0
  BY EmptySeq, LenProperties
<1> QED
  BY <1>1, <1>2 DEF Reading, Ascending

LEMMA InspectPathJudges ==
  ASSUME CTypeOK, Locals, NEW c \in Creators, Judged(file, job[c]), InspectPath(c)
  PROVE  Judged(file, job'[c])
<1> DEFINE o == job[c]
           j == job'[c]
           n == Len(o.files) + 1
           path == o.paths[n]
<1>1. o.pc = "inspect" /\ o.ret = "nothing" /\ Inspected(file, o)
  BY RunningFacts DEF InspectPath, At, Judged, Told, Inspecting
<1>2. /\ o \in JobState /\ job \in [Creators -> JobState]
      /\ o.paths \in Seq(Paths) /\ o.current \in BOOLEAN
      /\ o.files \in Seq(Scanned) /\ Len(o.files) \in Nat /\ Len(o.paths) \in Nat
      /\ DOMAIN o.files = 1 .. Len(o.files) /\ file \in [Canonical -> Seq(Row)]
      /\ Len(o.files) <= Len(o.paths)
  BY <1>1, RunningFacts DEF Inspected
<1>3. CASE /\ n <= Len(o.paths) /\ Acceptable(c, path)
           /\ job' = [job EXCEPT ![c].pc = "scan", ![c].rows = <<>>]
  <2>1. /\ j.pc = "scan" /\ j.rows = <<>> /\ j.ret = "nothing"
        /\ j.files = o.files /\ j.paths = o.paths /\ j.current = o.current
    BY <1>1, <1>2, <1>3 DEF JobState
  <2>2. path \in Paths
    BY <1>2, <1>3, ElementOfSeq
  <2>3. Reading(file, path, <<>>)
    BY <1>2, <2>2, NothingRead
  <2>4. /\ o.current \/ About[path].format = "legacy"
        /\ SupportedSource(About[path].source, About[path].format)
    BY <1>3 DEF Acceptable
  <2>5. Inspected(file, j)
    BY <1>1, <2>1 DEF Inspected
  <2> QED
    BY <2>1, <2>3, <2>4, <2>5 DEF Judged, Copying
<1>4. CASE n <= Len(o.paths) /\ ~Acceptable(c, path) /\ Fail(c, "rejected")
  <2>1. ~CanCombine(file, o.paths, o.current)
    <3>1. CASE \E k \in DOMAIN o.files : About[o.files[k].path].file = About[path].file
      <4>1. PICK k \in 1 .. Len(o.files) : About[o.files[k].path].file = About[path].file
        BY <1>2, <3>1
      <4>2. o.files[k] = InputOf(file, o.paths[k])
        BY <1>1 DEF Inspected
      <4>3. o.files[k].path = o.paths[k]
        BY <4>2 DEF InputOf
      <4>4. k \in 1 .. Len(o.paths) /\ n \in 1 .. Len(o.paths) /\ k # n
        BY <1>2, <1>4
      <4> QED
        BY <1>2, <4>1, <4>3, <4>4, AliasesOverlap
    <3>2. CASE ~(/\ o.current \/ About[path].format = "legacy"
                 /\ SupportedSource(About[path].source, About[path].format))
      <4>1. n \in 1 .. Len(o.paths)
        BY <1>2, <1>4
      <4>2. ~Fit(file, path, o.current)
        BY <3>2 DEF Fit
      <4> QED
        BY <4>1, <4>2 DEF CanCombine
    <3> QED
      BY <1>4, <3>1, <3>2 DEF Acceptable
  <2> QED
    BY <1>4, <2>1, FailJudges
<1>5. CASE n > Len(o.paths) /\ job' = [job EXCEPT ![c].pc = "order"]
  <2>1. /\ j.pc = "order" /\ j.ret = "nothing"
        /\ j.files = o.files /\ j.paths = o.paths /\ j.current = o.current
    BY <1>1, <1>2, <1>5 DEF JobState
  <2>2. Len(j.files) = Len(j.paths)
    BY <1>2, <1>5, <2>1
  <2>3. Inspected(file, j)
    BY <1>1, <2>1 DEF Inspected
  <2> QED
    BY <2>1, <2>2, <2>3 DEF Judged, Copying
<1>6. CASE o.paths = <<>> /\ Fail(c, "rejected")
  <2>1. Len(o.paths) = 0
    BY <1>6, EmptySeq
  <2>2. ~CanCombine(file, o.paths, o.current)
    BY <2>1 DEF CanCombine
  <2> QED
    BY <1>6, <2>2, FailJudges
<1> QED
  BY <1>3, <1>4, <1>5, <1>6 DEF InspectPath

(* A row that does not decrease continues what was read.                     *)
LEMMA ReadingGrows ==
  ASSUME NEW rows \in Seq(Row), NEW f \in [Canonical -> Seq(Row)], NEW path \in Paths,
         Reading(f, path, rows), Len(rows) < Len(Rows(f, path)),
         NEW row, row = Rows(f, path)[Len(rows) + 1],
         ~(rows # <<>> /\ row.at < Last(rows).at)
  PROVE  Reading(f, path, Append(rows, row))
<1> DEFINE n == Len(rows)
           longer == Append(rows, row)
<1>1. /\ Rows(f, path) \in Seq(Row) /\ Len(Rows(f, path)) \in Nat /\ n \in Nat
      /\ DOMAIN rows = 1 .. n
  BY RowsAreRows, LenProperties
<1>2. n + 1 \in 1 .. Len(Rows(f, path))
  BY <1>1
<1>3. row \in Row /\ row.at \in Nat
  <2>1. row \in Row
    BY <1>1, <1>2, ElementOfSeq
  <2> QED
    BY <2>1 DEF Row
<1>4. /\ longer \in Seq(Row) /\ Len(longer) = n + 1 /\ longer[n + 1] = row
      /\ \A k \in 1 .. n : longer[k] = rows[k]
  BY <1>3, AppendProperties
<1>5. DOMAIN longer = 1 .. n + 1
  BY <1>4, LenProperties
<1> HIDE DEF longer
<1>6. \A k \in 1 .. n + 1 : longer[k] = Rows(f, path)[k]
  BY <1>1, <1>4 DEF Reading
<1>7. ASSUME NEW i \in 1 .. n + 1, NEW k \in 1 .. n + 1, i < k
      PROVE  longer[i].at <= longer[k].at
  <2>1. i \in 1 .. n
    BY <1>1, <1>7
  <2>2. rows[i] \in Row
    BY <2>1, ElementOfSeq
  <2>3. rows[i].at \in Nat
    BY <2>2 DEF Row
  <2>4. CASE k \in 1 .. n
    BY <1>1, <1>4, <1>7, <2>1, <2>4 DEF Reading, Ascending
  <2>5. CASE k = n + 1
    <3>1. rows # <<>> /\ n \in 1 .. n
      BY <1>1, <2>1, EmptySeq
    <3>2. rows[n] \in Row
      BY <3>1, ElementOfSeq
    <3>3. rows[n].at \in Nat
      BY <3>2 DEF Row
    <3>4. rows[n].at <= row.at
      BY <1>3, <3>1, <3>3 DEF Last
    <3>5. rows[i].at <= rows[n].at
      <4>1. CASE i = n
        BY <2>3, <4>1
      <4>2. CASE i < n
        BY <1>1, <2>1, <3>1, <4>2 DEF Reading, Ascending
      <4>3. \A m \in Nat : \A q \in 1 .. m : q = m \/ q < m
        OBVIOUS
      <4>4. i = n \/ i < n
        BY <1>1, <2>1, <4>3
      <4> QED
        BY <4>1, <4>2, <4>4
    <3> QED
      BY <1>3, <1>4, <2>1, <2>3, <2>5, <3>3, <3>4, <3>5
  <2> QED
    BY <1>1, <2>4, <2>5
<1>8. Reading(f, path, longer)
  BY <1>1, <1>2, <1>4, <1>5, <1>6, <1>7 DEF Reading, Ascending
<1> QED
  BY <1>8 DEF longer

(* A file read to its end was read whole, and ascends.                       *)
LEMMA ReadWhole ==
  ASSUME NEW rows \in Seq(Row), NEW f \in [Canonical -> Seq(Row)], NEW path \in Paths,
         Reading(f, path, rows), ~(Len(rows) < Len(Rows(f, path)))
  PROVE  rows = Rows(f, path) /\ Ascending(Rows(f, path))
<1>1. Rows(f, path) \in Seq(Row) /\ Len(Rows(f, path)) \in Nat /\ Len(rows) \in Nat
  BY RowsAreRows, LenProperties
<1>2. Len(rows) = Len(Rows(f, path))
  BY <1>1 DEF Reading
<1>3. rows = Rows(f, path)
  BY <1>1, <1>2, SeqEqual DEF Reading
<1> QED
  BY <1>3 DEF Reading

(* A row that cannot be read belongs to an input that is not fit.            *)
LEMMA BadRowFacts ==
  ASSUME CTypeOK, NEW c \in Creators, NEW path \in Paths, NEW current,
         rewrites = 0, BadRow(c, path), Reading(file, path, job[c].rows)
  PROVE  ~Fit(file, path, current)
<1> DEFINE rows == job[c].rows
           all == Rows(file, path)
           n == Len(rows)
<1>1. /\ rows \in Seq(Row) /\ n \in Nat /\ all \in Seq(Row) /\ Len(all) \in Nat
      /\ DOMAIN all = 1 .. Len(all)
  BY RowsAreRows, LenProperties DEF CTypeOK, JobState
<1>2. all = Content(path)
  BY DEF Rows, Content
<1>3. CASE More(c, path) /\ Decreases(c, path)
  <2>1. n < Len(all) /\ rows # <<>> /\ all[n + 1].at < rows[n].at
    BY <1>2, <1>3 DEF More, Decreases, NextRow, Last
  <2>2. n \in 1 .. n
    BY <1>1, <2>1, EmptySeq
  <2>3. n \in 1 .. Len(all) /\ n + 1 \in 1 .. Len(all) /\ n < n + 1
    BY <1>1, <2>1, <2>2
  <2>4. rows[n] = all[n]
    BY <2>2 DEF Reading
  <2>5. all[n] \in Row /\ all[n + 1] \in Row
    BY <1>1, <2>3, ElementOfSeq
  <2>6. all[n].at \in Nat /\ all[n + 1].at \in Nat
    BY <2>5 DEF Row
  <2>7. ~Ascending(all)
    <3> SUFFICES ASSUME Ascending(all) PROVE FALSE
      OBVIOUS
    <3>1. all[n].at <= all[n + 1].at
      BY <1>1, <2>3 DEF Ascending
    <3> HIDE DEF all, rows, n
    <3> QED
      BY <2>1, <2>4, <2>6, <3>1
  <2> QED
    BY <2>7 DEF Fit
<1>4. CASE ~More(c, path) /\ rows = <<>>
  <2>1. ~(n < Len(all)) /\ n = 0
    BY <1>2, <1>4, EmptySeq DEF More
  <2>2. Len(all) = 0
    BY <1>1, <2>1
  <2>3. all = <<>>
    BY <1>1, <2>2, EmptySeq
  <2> QED
    BY <2>3 DEF Fit
<1> QED
  BY <1>3, <1>4 DEF BadRow

(* The facts of a call that scans.                                           *)
LEMMA ScanningFacts ==
  ASSUME CTypeOK, Locals, NEW c \in Creators, Judged(file, job[c]), job[c].pc = "scan"
  PROVE  LET n == Len(job[c].files) + 1
             path == job[c].paths[n]
         IN  /\ n \in 1 .. Len(job[c].paths) /\ path \in Paths
             /\ job[c].ret = "nothing" /\ Inspected(file, job[c])
             /\ Reading(file, path, job[c].rows)
             /\ job[c].current \/ About[path].format = "legacy"
             /\ SupportedSource(About[path].source, About[path].format)
             /\ Rows(file, path) = Content(path)
<1> DEFINE n == Len(job[c].files) + 1
           path == job[c].paths[n]
<1>1. n \in 1 .. Len(job[c].paths)
  BY RunningFacts DEF Counted
<1>2. path \in Paths
  BY <1>1, RunningFacts, ElementOfSeq
<1>3. job[c].ret = "nothing"
  BY RunningFacts DEF Told, Inspecting
<1> QED
  BY <1>1, <1>2, <1>3 DEF Judged, Rows, Content

LEMMA ScanRowJudges ==
  ASSUME CTypeOK, Locals, NEW c \in Creators, Judged(file, job[c]), ScanRow(c)
  PROVE  Judged(file, job'[c])
<1> DEFINE o == job[c]
           j == job'[c]
           path == o.paths[Len(o.files) + 1]
           row == NextRow(c, path)
<1>1. /\ o.pc = "scan" /\ More(c, path) /\ ~Decreases(c, path)
      /\ job' = [job EXCEPT ![c].rows = Append(@, row)]
  BY DEF ScanRow, At
<1>2. /\ path \in Paths /\ o.ret = "nothing" /\ Inspected(file, o)
      /\ Reading(file, path, o.rows)
      /\ o.current \/ About[path].format = "legacy"
      /\ SupportedSource(About[path].source, About[path].format)
      /\ Rows(file, path) = Content(path)
  BY <1>1, ScanningFacts
<1>3. o \in JobState /\ job \in [Creators -> JobState] /\ o.rows \in Seq(Row)
      /\ file \in [Canonical -> Seq(Row)]
  BY RunningFacts
<1>4. /\ Len(o.rows) < Len(Rows(file, path)) /\ row = Rows(file, path)[Len(o.rows) + 1]
      /\ ~(o.rows # <<>> /\ row.at < Last(o.rows).at)
  BY <1>1, <1>2 DEF More, NextRow, Decreases
<1> HIDE DEF row
<1>5. Reading(file, path, Append(o.rows, row))
  BY <1>2, <1>3, <1>4, ReadingGrows
<1>6. /\ j.pc = "scan" /\ j.rows = Append(o.rows, row) /\ j.ret = "nothing"
      /\ j.files = o.files /\ j.paths = o.paths /\ j.current = o.current
  BY <1>1, <1>2, <1>3 DEF JobState
<1>7. Inspected(file, j)
  BY <1>2, <1>6 DEF Inspected
<1> QED
  BY <1>2, <1>5, <1>6, <1>7 DEF Judged, Copying

LEMMA ScanEndJudges ==
  ASSUME CTypeOK, Locals, NEW c \in Creators, Judged(file, job[c]), ScanEnd(c)
  PROVE  Judged(file, job'[c])
<1> DEFINE o == job[c]
           j == job'[c]
           n == Len(o.files) + 1
           path == o.paths[n]
           first == About[o.paths[1]]
           scanned == [path |-> path, rows |-> o.rows]
<1>1. o.pc = "scan" /\ ~More(c, path) /\ o.rows # <<>>
  BY DEF ScanEnd, At
<1>2. /\ n \in 1 .. Len(o.paths) /\ path \in Paths /\ o.ret = "nothing"
      /\ Inspected(file, o) /\ Reading(file, path, o.rows)
      /\ o.current \/ About[path].format = "legacy"
      /\ SupportedSource(About[path].source, About[path].format)
      /\ Rows(file, path) = Content(path)
  BY <1>1, ScanningFacts
<1>3. /\ o \in JobState /\ job \in [Creators -> JobState] /\ o.rows \in Seq(Row)
      /\ o.files \in Seq(Scanned) /\ Len(o.files) \in Nat /\ Len(o.paths) \in Nat
      /\ file \in [Canonical -> Seq(Row)] /\ o.paths \in Seq(Paths)
  BY RunningFacts
<1>4. o.rows = Rows(file, path) /\ Ascending(Rows(file, path))
  BY <1>1, <1>2, <1>3, ReadWhole DEF More
<1>5. Fit(file, path, o.current) /\ scanned = InputOf(file, path)
  BY <1>1, <1>2, <1>4 DEF Fit, InputOf
<1>6. CASE /\ Compatible(first, About[path], o.current)
           /\ job' = [job EXCEPT ![c].pc = "inspect", ![c].files = Append(@, scanned)]
  <2>1. scanned \in Scanned
    BY <1>1, <1>2, <1>3 DEF Scanned
  <2> HIDE DEF scanned
  <2>2. /\ Len(Append(o.files, scanned)) = n /\ Append(o.files, scanned)[n] = scanned
        /\ \A k \in 1 .. Len(o.files) : Append(o.files, scanned)[k] = o.files[k]
    BY <1>3, <2>1, AppendProperties
  <2>3. /\ j.pc = "inspect" /\ j.files = Append(o.files, scanned) /\ j.ret = "nothing"
        /\ j.paths = o.paths /\ j.current = o.current
    BY <1>2, <1>3, <1>6 DEF JobState
  <2>4. ASSUME NEW k \in 1 .. n
        PROVE  /\ j.files[k] = InputOf(file, j.paths[k])
               /\ Fit(file, j.paths[k], j.current)
               /\ Compatible(About[j.paths[1]], About[j.paths[k]], j.current)
    <3>1. CASE k = n
      BY <1>5, <1>6, <2>2, <2>3, <3>1
    <3>2. CASE k \in 1 .. Len(o.files)
      BY <1>2, <2>2, <2>3, <3>2 DEF Inspected
    <3>3. \A m \in Nat : \A q \in 1 .. m + 1 : q = m + 1 \/ q \in 1 .. m
      OBVIOUS
    <3>4. k = n \/ k \in 1 .. Len(o.files)
      BY <1>3, <3>3
    <3> HIDE DEF n, j, path
    <3> QED
      BY <3>1, <3>2, <3>4
  <2>5. Len(j.files) = n /\ n <= Len(j.paths)
    BY <1>2, <1>3, <2>2, <2>3
  <2>6. Inspected(file, j)
    <3> HIDE DEF n, j
    <3> QED
      BY <2>4, <2>5 DEF Inspected
  <2> QED
    BY <2>3, <2>6 DEF Judged, Copying
<1>7. CASE ~Compatible(first, About[path], o.current) /\ Fail(c, "rejected")
  <2>1. n # 1
    BY <1>7 DEF Compatible
  <2>2. 1 \in 1 .. Len(o.paths)
    BY <1>2, <1>3
  <2>3. ~CanCombine(file, o.paths, o.current)
    BY <1>2, <1>7, <2>1, <2>2 DEF CanCombine
  <2> QED
    BY <1>7, <2>3, FailJudges
<1> QED
  BY <1>6, <1>7 DEF ScanEnd

LEMMA ScanFailsJudges ==
  ASSUME CTypeOK, Locals, NEW c \in Creators, Judged(file, job[c]), rewrites = 0,
         ScanFails(c)
  PROVE  Judged(file, job'[c])
<1> DEFINE n == Len(job[c].files) + 1
           path == job[c].paths[n]
<1>1. job[c].pc = "scan" /\ BadRow(c, path) /\ Fail(c, "rejected")
  BY DEF ScanFails, At
<1>2. /\ n \in 1 .. Len(job[c].paths) /\ path \in Paths
      /\ Reading(file, path, job[c].rows)
  BY <1>1, ScanningFacts
<1>3. ~Fit(file, path, job[c].current)
  BY <1>1, <1>2, BadRowFacts
<1>4. ~CanCombine(file, job[c].paths, job[c].current)
  BY <1>2, <1>3 DEF CanCombine
<1> QED
  BY <1>1, <1>4, FailJudges

LEMMA OrderJudges ==
  ASSUME CTypeOK, Locals, NEW c \in Creators, Judged(file, job[c]), Order(c)
  PROVE  Judged(file, job'[c])
<1> DEFINE o == job[c]
           j == job'[c]
           n == Len(o.files)
<1>1. /\ o.pc = "order" /\ o.ret = "nothing" /\ Inspected(file, o) /\ n = Len(o.paths)
      /\ n > 0 /\ o.entries = <<>>
  BY RunningFacts DEF Order, At, Judged, Told, Inspecting, Counted
<1>2. /\ o \in JobState /\ job \in [Creators -> JobState]
      /\ o.files \in Seq(Scanned) /\ n \in Nat
  BY RunningFacts
<1>3. ASSUME NEW k \in 1 .. n
      PROVE  /\ o.files[k] = InputOf(file, o.paths[k])
             /\ o.files[k].rows = Rows(file, o.paths[k])
             /\ Fit(file, o.paths[k], o.current)
             /\ Ascending(o.files[k].rows)
             /\ Compatible(About[o.paths[1]], About[o.paths[k]], o.current)
  BY <1>1 DEF Inspected, InputOf, Fit
<1>4. ASSUME NEW i \in 1 .. n, NEW k \in 1 .. n
      PROVE  Compatible(About[o.paths[i]], About[o.paths[k]], o.current)
  BY <1>3 DEF Compatible
<1>5. PICK p \in Sortings(o.files) :
        LET sorted == [k \in DOMAIN p |-> o.files[p[k]]]
        IN  IF Overlap(sorted)
            THEN Fail(c, "rejected")
            ELSE job' = [job EXCEPT ![c].pc = "number", ![c].files = sorted,
                                    ![c].rows = <<>>]
  BY DEF Order
<1> DEFINE sorted == [k \in DOMAIN p |-> o.files[p[k]]]
<1>6. /\ Len(sorted) = n
      /\ \A k \in 1 .. n : p[k] \in 1 .. n /\ sorted[k] = o.files[p[k]]
      /\ Overlap(sorted) <=>
           \E i, k \in 1 .. n : i # k /\ ~Disjoint(o.files[i].rows, o.files[k].rows)
  <2>1. \A k \in 1 .. n : Ascending(o.files[k].rows)
    BY <1>3
  <2>2. sorted = [k \in DOMAIN p |-> o.files[p[k]]]
    OBVIOUS
  <2> HIDE DEF sorted, o
  <2>3. /\ Len(sorted) = Len(o.files)
        /\ \A k \in 1 .. Len(o.files) :
             p[k] \in 1 .. Len(o.files) /\ sorted[k] = o.files[p[k]]
    BY <1>2, <2>1, <2>2, SortingShowsOverlap
  <2>4. Overlap(sorted) <=>
          \E i, k \in 1 .. Len(o.files) : /\ i # k
                                          /\ ~Disjoint(o.files[i].rows, o.files[k].rows)
    BY <1>2, <2>1, <2>2, SortingShowsOverlap
  <2> QED
    BY <2>3, <2>4
<1> HIDE DEF sorted
<1>7. CASE Overlap(sorted) /\ Fail(c, "rejected")
  <2>1. PICK i \in 1 .. n, k \in 1 .. n :
          i # k /\ ~Disjoint(o.files[i].rows, o.files[k].rows)
    BY <1>6, <1>7
  <2>2. ~Disjoint(Rows(file, o.paths[i]), Rows(file, o.paths[k]))
    BY <1>3, <2>1
  <2>3. ~CanCombine(file, o.paths, o.current)
    BY <1>1, <2>1, <2>2 DEF CanCombine
  <2> QED
    BY <1>7, <2>3, FailJudges
<1>8. CASE /\ ~Overlap(sorted)
           /\ job' = [job EXCEPT ![c].pc = "number", ![c].files = sorted, ![c].rows = <<>>]
  <2>1. /\ j.pc = "number" /\ j.files = sorted /\ j.ret = "nothing"
        /\ j.paths = o.paths /\ j.current = o.current /\ j.entries = <<>>
    BY <1>1, <1>2, <1>8 DEF JobState
  <2>2. ASSUME NEW i \in 1 .. n, NEW k \in 1 .. n, i # k
        PROVE  Disjoint(Rows(file, o.paths[i]), Rows(file, o.paths[k]))
    BY <1>3, <1>6, <1>8, <2>2
  <2>3. CanCombine(file, o.paths, o.current)
    BY <1>1, <1>3, <1>4, <2>2 DEF CanCombine
  <2>4. \A k \in 1 .. n : sorted[k] = InputOf(file, o.paths[p[k]]) /\ p[k] \in 1 .. n
    BY <1>3, <1>6
  <2>5. Len(<<>>) = 0
    BY EmptySeq
  <2>6. Sorted(file, j)
    <3>1. /\ Len(j.files) = n /\ Len(j.paths) = n /\ Len(j.entries) = 0
          /\ ~Overlap(j.files)
          /\ \A k \in 1 .. n : j.files[k] = InputOf(file, j.paths[p[k]]) /\ p[k] \in 1 .. n
      BY <1>1, <1>6, <1>8, <2>1, <2>4, <2>5
    <3> HIDE DEF j, n
    <3> QED
      BY <3>1 DEF Sorted
  <2> QED
    BY <2>1, <2>3, <2>6 DEF Judged
<1> QED
  BY <1>5, <1>7, <1>8 DEF sorted

LEMMA NumberJudges ==
  ASSUME CTypeOK, Locals, NEW c \in Creators, Judged(file, job[c]), Number(c)
  PROVE  Judged(file, job'[c])
<1> DEFINE o == job[c]
           j == job'[c]
           n == Len(o.entries) + 1
           entry == EntryOf(o.files[n], NextIndex(c), o.current)
           longer == Append(o.entries, entry)
<1>1. /\ o.pc = "number" /\ o.ret = "nothing"
      /\ CanCombine(file, o.paths, o.current) /\ Sorted(file, o)
  BY RunningFacts DEF Number, At, Judged, Told, Inspecting
<1>2. /\ o \in JobState /\ job \in [Creators -> JobState]
      /\ o.entries \in Seq(Entry) /\ Len(o.entries) \in Nat
  BY RunningFacts
<1>3. PICK pc \in {"number", "stage"} :
        job' = [job EXCEPT ![c].pc = pc, ![c].entries = longer]
  BY DEF Number
<1>4. /\ Len(longer) = n /\ longer[n] = entry
      /\ \A k \in 1 .. Len(o.entries) : longer[k] = o.entries[k]
  BY <1>2
<1>5. entry.start = NextIndex(c)
  BY DEF EntryOf
<1> HIDE DEF longer
<1>6. /\ j.pc \in {"number", "stage"} /\ j.entries = longer /\ j.ret = "nothing"
      /\ j.files = o.files /\ j.paths = o.paths /\ j.current = o.current
  BY <1>1, <1>2, <1>3 DEF JobState
<1>7. ASSUME NEW k \in 1 .. n
      PROVE  longer[k] = EntryOf(o.files[k], longer[k].start, o.current)
  <2>1. CASE k = n
    BY <1>4, <1>5, <2>1
  <2>2. CASE k \in 1 .. Len(o.entries)
    BY <1>1, <1>4, <2>2 DEF Sorted
  <2>3. \A m \in Nat : \A q \in 1 .. m + 1 : q = m + 1 \/ q \in 1 .. m
    OBVIOUS
  <2>4. k = n \/ k \in 1 .. Len(o.entries)
    BY <1>2, <2>3
  <2> QED
    BY <2>1, <2>2, <2>4
<1> HIDE DEF n, entry
<1>8. Sorted(file, j)
  BY <1>1, <1>4, <1>6, <1>7 DEF Sorted
<1> QED
  BY <1>1, <1>6, <1>8 DEF Judged

(* The steps that leave the inputs as they are ordered.                      *)
LEMMA OrderedFacts ==
  ASSUME CTypeOK, Locals, NEW c \in Creators, Judged(file, job[c]),
         job[c].pc \in {"stage"} \cup Copying
  PROVE  /\ job[c].ret = "nothing"
         /\ CanCombine(file, job[c].paths, job[c].current) /\ Sorted(file, job[c])
         /\ job[c].pc = "copy" => Reading(file, job[c].files[job[c].nth].path, job[c].rows)
         /\ Len(job[c].entries) = Len(job[c].files) /\ Len(job[c].files) > 0
  BY RunningFacts DEF Judged, Told, Inspecting, Counted

LEMMA OrderedStays ==
  ASSUME NEW f, NEW o, NEW j, Sorted(f, o), CanCombine(f, o.paths, o.current),
         j.files = o.files, j.paths = o.paths, j.current = o.current,
         j.entries = o.entries, j.ret = "nothing", j.pc \in Copying,
         j.pc = "copy" => Reading(f, j.files[j.nth].path, j.rows)
  PROVE  Judged(f, j)
<1>1. Sorted(f, j) /\ CanCombine(f, j.paths, j.current)
  BY DEF Sorted
<1>2. j.pc \notin {"inspect", "scan", "order"}
  BY DEF Copying
<1> QED
  BY <1>1, <1>2 DEF Judged

(* The input that is copied is one of the call's, and fit.                   *)
LEMMA SourceFacts ==
  ASSUME CTypeOK, Locals, NEW c \in Creators, Judged(file, job[c]),
         NEW k \in 1 .. Len(job[c].files), job[c].pc \in {"stage"} \cup Copying
  PROVE  LET path == job[c].files[k].path
         IN  /\ path \in Paths /\ Fit(file, path, job[c].current)
             /\ job[c].files[k].rows = Rows(file, path)
             /\ job[c].entries[k].rows = Rows(file, path)
<1>1. Sorted(file, job[c]) /\ CanCombine(file, job[c].paths, job[c].current)
  BY OrderedFacts
<1>2. PICK i \in 1 .. Len(job[c].paths) : job[c].files[k] = InputOf(file, job[c].paths[i])
  BY <1>1 DEF Sorted
<1>3. /\ job[c].files[k].path = job[c].paths[i]
      /\ job[c].files[k].rows = Rows(file, job[c].paths[i])
  BY <1>2 DEF InputOf
<1>4. job[c].paths[i] \in Paths
  BY RunningFacts, ElementOfSeq
<1>5. Fit(file, job[c].paths[i], job[c].current)
  BY <1>1 DEF CanCombine
<1>6. job[c].entries[k].rows = job[c].files[k].rows
  <2>1. k \in 1 .. Len(job[c].entries)
    BY OrderedFacts
  <2>2. job[c].entries[k] =
          EntryOf(job[c].files[k], job[c].entries[k].start, job[c].current)
    BY <1>1, <2>1 DEF Sorted
  <2>3. \A start, current : EntryOf(job[c].files[k], start, current).rows = job[c].files[k].rows
    BY DEF EntryOf
  <2> QED
    BY <2>2, <2>3
<1> QED
  BY <1>3, <1>4, <1>5, <1>6

LEMMA StageJudges ==
  ASSUME CTypeOK, Locals, NEW c \in Creators, Judged(file, job[c]), Stage(c)
  PROVE  Judged(file, job'[c])
<1> DEFINE o == job[c]
           j == job'[c]
<1>1. o.pc = "stage" /\ o.pc \in {"stage"} \cup Copying
  BY DEF Stage, At
<1>2. /\ o.ret = "nothing" /\ CanCombine(file, o.paths, o.current) /\ Sorted(file, o)
      /\ Len(o.files) > 0
  BY <1>1, OrderedFacts
<1>3. /\ o \in JobState /\ job \in [Creators -> JobState] /\ Len(o.files) \in Nat
      /\ o.nth = 1 /\ o.rows = <<>> /\ file \in [Canonical -> Seq(Row)]
  BY <1>1, RunningFacts DEF Progress, Counted, Inspecting
<1>4. CASE Fail(c, "exists")
  BY <1>2, <1>4, FailJudges
<1>5. CASE job' = [job EXCEPT ![c].pc = "copy"]
  <2>1. /\ j.pc = "copy" /\ j.pc \in Copying /\ j.nth = 1 /\ j.rows = <<>> /\ j.ret = "nothing"
        /\ j.files = o.files /\ j.paths = o.paths /\ j.current = o.current
        /\ j.entries = o.entries
    BY <1>2, <1>3, <1>5 DEF JobState, Copying
  <2>2. o.files[1].path \in Paths
    BY <1>1, <1>2, <1>3, SourceFacts
  <2>3. Reading(file, j.files[j.nth].path, j.rows)
    BY <1>3, <2>1, <2>2, NothingRead
  <2> HIDE DEF j
  <2>4. Judged(file, j)
    BY <1>2, <2>1, <2>3, OrderedStays
  <2> QED
    BY <2>4 DEF j
<1> QED
  BY <1>4, <1>5 DEF Stage

LEMMA CopyRowJudges ==
  ASSUME CTypeOK, Locals, NEW c \in Creators, Judged(file, job[c]), CopyRow(c)
  PROVE  Judged(file, job'[c])
<1> DEFINE o == job[c]
           j == job'[c]
           path == o.files[o.nth].path
           row == NextRow(c, path)
<1>1. /\ o.pc = "copy" /\ o.pc \in {"stage"} \cup Copying
      /\ More(c, path) /\ ~Decreases(c, path)
      /\ job' = [job EXCEPT ![c].rows = Append(@, row)]
  BY DEF CopyRow, At, Copying
<1>2. /\ o.ret = "nothing" /\ CanCombine(file, o.paths, o.current) /\ Sorted(file, o)
      /\ Reading(file, path, o.rows)
  BY <1>1, OrderedFacts
<1>3. /\ o \in JobState /\ job \in [Creators -> JobState] /\ o.rows \in Seq(Row)
      /\ file \in [Canonical -> Seq(Row)] /\ o.nth \in 1 .. Len(o.files)
  BY <1>1, RunningFacts DEF Progress, JobState
<1>4. path \in Paths
  BY <1>1, <1>3, SourceFacts
<1>5. /\ Len(o.rows) < Len(Rows(file, path)) /\ row = Rows(file, path)[Len(o.rows) + 1]
      /\ ~(o.rows # <<>> /\ row.at < Last(o.rows).at)
  BY <1>1 DEF More, NextRow, Decreases, Rows, Content
<1> HIDE DEF row
<1>6. Reading(file, path, Append(o.rows, row))
  BY <1>2, <1>3, <1>4, <1>5, ReadingGrows
<1>7. /\ j.pc = "copy" /\ j.pc \in Copying /\ j.nth = o.nth /\ j.ret = "nothing"
      /\ j.rows = Append(o.rows, row)
      /\ j.files = o.files /\ j.paths = o.paths /\ j.current = o.current
      /\ j.entries = o.entries
  BY <1>1, <1>2, <1>3 DEF JobState, Copying
<1> HIDE DEF j
<1>8. Judged(file, j)
  BY <1>2, <1>6, <1>7, OrderedStays
<1> QED
  BY <1>8 DEF j

LEMMA CopyEndJudges ==
  ASSUME CTypeOK, Locals, NEW c \in Creators, Judged(file, job[c]), CopyEnd(c)
  PROVE  Judged(file, job'[c])
<1> DEFINE o == job[c]
           j == job'[c]
           path == o.files[o.nth].path
<1>1. o.pc = "copy" /\ o.pc \in {"stage"} \cup Copying /\ ~More(c, path)
  BY DEF CopyEnd, At, Copying
<1>2. /\ o.ret = "nothing" /\ CanCombine(file, o.paths, o.current) /\ Sorted(file, o)
      /\ Reading(file, path, o.rows)
  BY <1>1, OrderedFacts
<1>3. /\ o \in JobState /\ job \in [Creators -> JobState] /\ o.rows \in Seq(Row)
      /\ file \in [Canonical -> Seq(Row)] /\ Len(o.files) \in Nat
      /\ o.nth \in 1 .. Len(o.files) /\ o.nth \in Nat
  BY <1>1, RunningFacts DEF Progress, JobState
<1>4. path \in Paths /\ o.entries[o.nth].rows = Rows(file, path)
  BY <1>1, <1>3, SourceFacts
<1>5. o.rows = Rows(file, path)
  BY <1>1, <1>2, <1>3, <1>4, ReadWhole DEF More, Rows, Content
<1>6. Unchanged(o.rows, o.entries[o.nth])
  BY <1>4, <1>5 DEF Unchanged
<1>7. job' = [job EXCEPT ![c].pc = IF o.nth < Len(o.files) THEN "copy" ELSE "syncCsv",
                         ![c].nth = o.nth + 1,
                         ![c].rows = <<>>]
  BY <1>6 DEF CopyEnd
<1>8. /\ j.pc = IF o.nth < Len(o.files) THEN "copy" ELSE "syncCsv"
      /\ j.pc \in Copying /\ j.nth = o.nth + 1 /\ j.rows = <<>> /\ j.ret = "nothing"
      /\ j.files = o.files /\ j.paths = o.paths /\ j.current = o.current
      /\ j.entries = o.entries
  BY <1>2, <1>3, <1>7 DEF JobState, Copying
<1> HIDE DEF j
<1>9. ASSUME j.pc = "copy"
      PROVE  Reading(file, j.files[j.nth].path, j.rows)
  <2>1. o.nth + 1 \in 1 .. Len(o.files)
    BY <1>3, <1>8, <1>9
  <2>2. o.files[o.nth + 1].path \in Paths
    BY <1>1, <2>1, SourceFacts
  <2> QED
    BY <1>3, <1>8, <2>2, NothingRead
<1>10. Judged(file, j)
  BY <1>2, <1>8, <1>9, OrderedStays
<1> QED
  BY <1>10 DEF j

(* While no input changes every row can be read a second time.               *)
LEMMA CopyNeverFails ==
  ASSUME CTypeOK, Locals, NEW c \in Creators, Judged(file, job[c]), rewrites = 0,
         CopyFails(c)
  PROVE  FALSE
<1> DEFINE o == job[c]
           path == o.files[o.nth].path
<1>1. o.pc = "copy" /\ o.pc \in {"stage"} \cup Copying /\ BadRow(c, path)
  BY DEF CopyFails, At, Copying
<1>2. o.nth \in 1 .. Len(o.files)
  BY <1>1, RunningFacts DEF Progress, JobState
<1>3. path \in Paths /\ Fit(file, path, o.current) /\ Reading(file, path, o.rows)
  BY <1>1, <1>2, SourceFacts, OrderedFacts
<1> QED
  BY <1>1, <1>3, BadRowFacts

(* A name that can be an input's is neither "mixed" nor "none".              *)
LEMMA SourcesOfInputs ==
  ASSUME NEW path \in Paths, SupportedSource(About[path].source, About[path].format)
  PROVE  /\ About[path].source \notin {"none", "mixed"}
         /\ About[path].format \in Formats /\ About[path].format # "none"
<1>1. About[path].format \in Formats
  <2>1. About[path] \in [file : STRING, name : Nat, source : STRING, fold : STRING,
                         bits : Nat, interval : Nat, format : Formats]
    BY PathFacts
  <2> QED
    BY <2>1
<1>2. About[path].source \in {"bitb", "trng", "rdseed", "pseudo"}
  BY <1>1 DEF SupportedSource, Formats
<1> QED
  BY <1>1, <1>2 DEF Formats

(* What the final inputs have in common, and what was noted of each.         *)
LEMMA OrderedInputs ==
  ASSUME NEW f \in [Canonical -> Seq(Row)], NEW j \in JobState,
         Len(j.entries) = Len(j.files), CanCombine(f, j.paths, j.current), Sorted(f, j)
  PROVE  /\ \A k \in 1 .. Len(j.files) :
              LET path == j.files[k].path
                  entry == j.entries[k]
              IN  /\ path \in Paths
                  /\ SupportedSource(About[path].source, About[path].format)
                  /\ entry.rows \in Seq(Row) /\ entry.rows # <<>> /\ Ascending(entry.rows)
                  /\ entry.path = path /\ entry.rows = j.files[k].rows
                  /\ j.current => /\ entry.format = About[path].format
                                  /\ entry.source = About[path].source
                                  /\ entry.fold = About[path].fold
                  /\ ~j.current => /\ entry.format = "none"
                                   /\ entry.source = "none" /\ entry.fold = "none"
         /\ \A i, k \in 1 .. Len(j.files) :
              Compatible(About[j.files[i].path], About[j.files[k].path], j.current)
<1>1. /\ j.paths \in Seq(Paths) /\ j.files \in Seq(Scanned) /\ j.current \in BOOLEAN
  BY DEF JobState
<1>2. ASSUME NEW k \in 1 .. Len(j.files)
      PROVE  \E i \in 1 .. Len(j.paths) :
               /\ j.files[k].path = j.paths[i] /\ j.files[k].rows = Rows(f, j.paths[i])
               /\ j.paths[i] \in Paths /\ Fit(f, j.paths[i], j.current)
  <2>1. PICK i \in 1 .. Len(j.paths) : j.files[k] = InputOf(f, j.paths[i])
    BY DEF Sorted
  <2>2. j.files[k].path = j.paths[i] /\ j.files[k].rows = Rows(f, j.paths[i])
    BY <2>1 DEF InputOf
  <2>3. j.paths[i] \in Paths
    BY <1>1, ElementOfSeq
  <2>4. Fit(f, j.paths[i], j.current)
    BY DEF CanCombine
  <2> QED
    BY <2>2, <2>3, <2>4
<1>3. ASSUME NEW k \in 1 .. Len(j.files)
      PROVE  LET path == j.files[k].path
                 entry == j.entries[k]
             IN  /\ path \in Paths
                 /\ SupportedSource(About[path].source, About[path].format)
                 /\ entry.rows \in Seq(Row) /\ entry.rows # <<>> /\ Ascending(entry.rows)
                 /\ entry.path = path /\ entry.rows = j.files[k].rows
                 /\ j.current => /\ entry.format = About[path].format
                                 /\ entry.source = About[path].source
                                 /\ entry.fold = About[path].fold
                 /\ ~j.current => /\ entry.format = "none"
                                  /\ entry.source = "none" /\ entry.fold = "none"
  <2> DEFINE path == j.files[k].path
             entry == j.entries[k]
  <2>1. PICK i \in 1 .. Len(j.paths) :
          /\ path = j.paths[i] /\ j.files[k].rows = Rows(f, j.paths[i])
          /\ j.paths[i] \in Paths /\ Fit(f, j.paths[i], j.current)
    BY <1>2
  <2>2. /\ path \in Paths /\ SupportedSource(About[path].source, About[path].format)
        /\ j.files[k].rows \in Seq(Row) /\ j.files[k].rows # <<>>
        /\ Ascending(j.files[k].rows)
    BY <2>1, RowsAreRows DEF Fit
  <2>3. entry = EntryOf(j.files[k], entry.start, j.current)
    BY DEF Sorted
  <2>4. \A start : LET e == EntryOf(j.files[k], start, j.current)
                   IN  /\ e.path = path /\ e.rows = j.files[k].rows
                       /\ j.current => /\ e.format = About[path].format
                                       /\ e.source = About[path].source
                                       /\ e.fold = About[path].fold
                       /\ ~j.current => /\ e.format = "none"
                                        /\ e.source = "none" /\ e.fold = "none"
    BY DEF EntryOf
  <2>5. /\ entry.path = path /\ entry.rows = j.files[k].rows
        /\ j.current => /\ entry.format = About[path].format
                        /\ entry.source = About[path].source
                        /\ entry.fold = About[path].fold
        /\ ~j.current => /\ entry.format = "none"
                         /\ entry.source = "none" /\ entry.fold = "none"
    <3> HIDE DEF entry, path
    <3> QED
      BY <2>3, <2>4
  <2> QED
    BY <2>2, <2>5
<1>4. ASSUME NEW i \in 1 .. Len(j.files), NEW k \in 1 .. Len(j.files)
      PROVE  Compatible(About[j.files[i].path], About[j.files[k].path], j.current)
  <2>1. PICK a \in 1 .. Len(j.paths) : j.files[i].path = j.paths[a]
    BY <1>2
  <2>2. PICK b \in 1 .. Len(j.paths) : j.files[k].path = j.paths[b]
    BY <1>2
  <2>3. CASE a = b
    BY <2>1, <2>2, <2>3 DEF Compatible
  <2>4. CASE a # b
    BY <2>1, <2>2, <2>4 DEF CanCombine
  <2> QED
    BY <2>3, <2>4
<1> QED
  BY <1>3, <1>4

(* What create_concatenation_at has inspected, ordered and numbered always   *)
(* passes the manifest's own validation.                                     *)
LEMMA ManifestIsValid ==
  ASSUME NEW f \in [Canonical -> Seq(Row)], NEW j \in JobState,
         Ranges(j.entries), Len(j.entries) = Len(j.files), Len(j.files) > 0,
         CanCombine(f, j.paths, j.current), Sorted(f, j)
  PROVE  Valid(ManifestOf(j.files, j.entries))
<1> DEFINE files == j.files
           es == j.entries
           n == Len(files)
           about(k) == About[files[k].path]
           mixed == Heterogeneous(Infos(files))
           stem == OutputStem(files)
           manifest == ManifestOf(files, es)
           inputs == manifest.inputs
           schema == manifest.schema
<1>1. /\ files \in Seq(Scanned) /\ es \in Seq(Entry) /\ n \in Nat \ {0} /\ Len(es) = n
      /\ DOMAIN files = 1 .. n /\ DOMAIN es = 1 .. n /\ j.current \in BOOLEAN
      /\ 1 \in 1 .. n
  <2>1. files \in Seq(Scanned) /\ es \in Seq(Entry) /\ j.current \in BOOLEAN
    BY DEF JobState
  <2> QED
    BY <2>1, LenProperties
<1>2. ASSUME NEW k \in 1 .. n
      PROVE  /\ files[k].path \in Paths
             /\ SupportedSource(about(k).source, about(k).format)
             /\ es[k].rows \in Seq(Row) /\ es[k].rows # <<>> /\ Ascending(es[k].rows)
             /\ es[k].path = files[k].path /\ es[k].rows = files[k].rows
             /\ j.current => /\ es[k].format = about(k).format
                             /\ es[k].source = about(k).source
                             /\ es[k].fold = about(k).fold
             /\ ~j.current => /\ es[k].format = "none"
                              /\ es[k].source = "none" /\ es[k].fold = "none"
  BY OrderedInputs
<1>3. ASSUME NEW k \in 1 .. n
      PROVE  /\ about(k).source \notin {"none", "mixed"} /\ about(k).format \in Formats
             /\ about(k).format # "none"
             /\ FoldRules(about(k).source, about(k).fold)
  BY <1>2, SourcesOfInputs, NamesAssumption
<1>4. ASSUME NEW k \in 1 .. n
      PROVE  /\ about(k).bits = about(1).bits /\ about(k).interval = about(1).interval
             /\ ~j.current => about(k).source = about(1).source /\ about(k).fold = about(1).fold
  <2>1. Compatible(about(1), about(k), j.current)
    BY <1>1, OrderedInputs
  <2> QED
    BY <2>1 DEF Compatible
<1>5. mixed <=> \E k \in 1 .. n : about(k).source # about(1).source \/ about(k).fold # about(1).fold
  BY <1>1 DEF Heterogeneous, Infos
<1>6. mixed => j.current
  BY <1>4, <1>5
<1>7. /\ mixed => stem.source = "mixed" /\ stem.fold = "none"
      /\ ~mixed => stem.source = about(1).source /\ stem.fold = about(1).fold
      /\ stem.bits = about(1).bits /\ stem.interval = about(1).interval
  BY DEF OutputStem, Stem
<1>8. (stem.source = "mixed" <=> mixed) /\ FoldRules(stem.source, stem.fold)
  <2>1. CASE mixed
    BY <1>7, <2>1 DEF FoldRules
  <2>2. CASE ~mixed
    BY <1>1, <1>3, <1>7, <2>2
  <2> QED
    BY <2>1, <2>2
<1>9. /\ schema = IF mixed THEN 3 ELSE IF j.current THEN 2 ELSE 1
      /\ manifest.stem = stem
      /\ inputs = IF schema = 2 THEN Unlabelled(es) ELSE es
  <2>1. es[1].format # "none" <=> j.current
    BY <1>1, <1>2, <1>3
  <2>2. /\ schema = IF stem.source = "mixed" THEN 3
                    ELSE IF es[1].format # "none" THEN 2 ELSE 1
        /\ manifest.stem = stem
        /\ inputs = IF schema = 2 THEN Unlabelled(es) ELSE es
    BY DEF ManifestOf
  <2> HIDE DEF schema, stem, inputs, mixed, es
  <2> QED
    BY <1>8, <2>1, <2>2
<1> HIDE DEF manifest, stem, mixed
<1>10. ASSUME NEW k \in 1 .. n
       PROVE  /\ inputs[k].rows = es[k].rows /\ inputs[k].start = es[k].start
              /\ inputs[k].end = es[k].end /\ inputs[k].path = es[k].path
              /\ inputs[k].format = es[k].format
              /\ schema = 2 => inputs[k].source = "none" /\ inputs[k].fold = "none"
              /\ schema # 2 => /\ inputs[k].source = es[k].source
                               /\ inputs[k].fold = es[k].fold
  <2>1. CASE schema = 2
    <3>1. inputs[k] = [es[k] EXCEPT !.source = "none", !.fold = "none"]
      BY <1>1, <1>9, <2>1 DEF Unlabelled
    <3>2. es[k] \in Entry
      BY <1>1, ElementOfSeq
    <3> QED
      BY <2>1, <3>1, <3>2 DEF Entry
  <2>2. CASE schema # 2
    BY <1>9, <2>2
  <2> QED
    BY <2>1, <2>2
<1>11. DOMAIN inputs = 1 .. n /\ Len(inputs) = n /\ inputs # <<>>
  <2>1. manifest \in Manifest /\ DOMAIN inputs = 1 .. n
    BY <1>1, ManifestFacts DEF manifest
  <2>2. inputs \in Seq(Entry)
    BY <2>1 DEF Manifest
  <2>3. Len(inputs) \in Nat /\ DOMAIN inputs = 1 .. Len(inputs)
    BY <2>2, LenProperties
  <2>4. \A l \in Nat, m \in Nat \ {0} : 1 .. l = 1 .. m => l = m
    <3> SUFFICES ASSUME NEW l \in Nat, NEW m \in Nat \ {0}, 1 .. l = 1 .. m
                 PROVE  l = m
      OBVIOUS
    <3>1. m \in 1 .. l
      OBVIOUS
    <3>2. l \in 1 .. m
      BY <3>1
    <3> QED
      BY <3>1, <3>2
  <2>5. Len(inputs) = n
    <3> HIDE DEF inputs, n
    <3> QED
      BY <1>1, <2>1, <2>3, <2>4
  <2>6. inputs # <<>>
    BY <1>1, <2>2, <2>5, EmptySeq
  <2> QED
    BY <2>1, <2>5, <2>6
<1> HIDE DEF inputs, schema
<1>12. ASSUME NEW k \in 1 .. n
       PROVE  EntryOK(inputs[k])
  <2>1. es[k] \in Entry
    BY <1>1, ElementOfSeq
  <2>2. /\ es[k].start \in Nat \ {0} /\ es[k].end = es[k].start + Len(es[k].rows) - 1
        /\ Len(es[k].rows) \in Nat \ {0}
    BY <1>1, <1>2, <2>1, EmptySeq DEF Entry, Ranges
  <2>3. First(es[k].rows).at <= Last(es[k].rows).at
    BY <1>2, FirstToLast
  <2>4. /\ inputs[k].rows = es[k].rows /\ inputs[k].start = es[k].start
        /\ inputs[k].end = es[k].end
    BY <1>10
  <2>5. \A s, l \in Nat \ {0} : /\ s + l - 1 >= s
                                /\ (s + l - 1) - s + 1 = l
    OBVIOUS
  <2>6. es[k].end >= es[k].start /\ es[k].end - es[k].start + 1 = Len(es[k].rows)
    BY <2>2, <2>5
  <2> QED
    BY <1>2, <2>3, <2>4, <2>6 DEF EntryOK
<1>13. ASSUME NEW k \in 1 .. n
       PROVE  /\ schema = 1 => inputs[k].format = "none"
              /\ schema = 2 => inputs[k].format \in Formats
              /\ schema \in {1, 2} => inputs[k].source = "none" /\ inputs[k].fold = "none"
              /\ schema = 3 => ProvenanceOK(inputs[k], stem)
  <2>1. CASE schema = 1
    <3>1. ~j.current
      BY <1>9, <2>1
    <3> QED
      BY <1>2, <1>10, <2>1, <3>1
  <2>2. CASE schema = 2
    <3>1. j.current
      BY <1>1, <1>9, <2>2
    <3> QED
      BY <1>2, <1>3, <1>10, <2>2, <3>1
  <2>3. CASE schema = 3
    <3>1. j.current
      BY <1>6, <1>9, <2>3
    <3>2. /\ inputs[k].path = files[k].path /\ inputs[k].format = about(k).format
          /\ inputs[k].source = about(k).source /\ inputs[k].fold = about(k).fold
      BY <1>2, <1>10, <2>3, <3>1
    <3>3. about(k).bits = stem.bits /\ about(k).interval = stem.interval
      BY <1>4, <1>7
    <3>4. ProvenanceOK(inputs[k], stem)
      BY <1>2, <1>3, <3>2, <3>3 DEF ProvenanceOK
    <3> QED
      BY <2>3, <3>4
  <2> QED
    BY <1>9, <2>1, <2>2, <2>3
<1>14. ASSUME NEW k \in 1 .. n - 1
       PROVE  /\ inputs[k + 1].start = inputs[k].end + 1
              /\ Last(inputs[k].rows).at < First(inputs[k + 1].rows).at
  <2>1. k \in 1 .. n /\ k + 1 \in 1 .. n
    BY <1>1
  <2>2. es[k + 1].start = es[k].end + 1
    BY <1>1 DEF Ranges
  <2>3. ~(Last(files[k].rows).at >= First(files[k + 1].rows).at)
    BY DEF Sorted, Overlap
  <2>4. inputs[k].rows = files[k].rows /\ inputs[k + 1].rows = files[k + 1].rows
    BY <1>2, <1>10, <2>1
  <2>5. Last(files[k].rows).at \in Nat /\ First(files[k + 1].rows).at \in Nat
    <3>1. /\ es[k].rows = files[k].rows /\ es[k + 1].rows = files[k + 1].rows
          /\ Last(es[k].rows).at \in Nat /\ First(es[k + 1].rows).at \in Nat
      BY <1>2, <2>1, FirstToLast
    <3> QED
      BY <3>1
  <2>6. Last(inputs[k].rows).at < First(inputs[k + 1].rows).at
    BY <2>3, <2>4, <2>5
  <2> QED
    BY <1>10, <2>1, <2>2, <2>6
<1>15. schema = 3 => Heterogeneous(inputs)
  <2> SUFFICES ASSUME schema = 3 PROVE Heterogeneous(inputs)
    OBVIOUS
  <2>1. mixed /\ j.current
    BY <1>6, <1>9
  <2>2. PICK k \in 1 .. n : about(k).source # about(1).source \/ about(k).fold # about(1).fold
    BY <1>5, <2>1
  <2>3. /\ inputs[k].source = about(k).source /\ inputs[k].fold = about(k).fold
        /\ inputs[1].source = about(1).source /\ inputs[1].fold = about(1).fold
    BY <1>1, <1>2, <1>10, <2>1
  <2> QED
    BY <1>11, <2>2, <2>3 DEF Heterogeneous
<1>16. inputs[1].start = 1
  BY <1>1, <1>10 DEF Ranges
<1>17. schema \in 1 .. 3 /\ (schema = 3 <=> stem.source = "mixed")
  BY <1>8, <1>9
<1>18. Valid(manifest)
  <2> HIDE DEF n
  <2> QED
    BY <1>8, <1>9, <1>11, <1>12, <1>13, <1>14, <1>15, <1>16, <1>17
       DEF Valid, inputs, schema
<1> QED
  BY <1>18 DEF manifest

LEMMA WriteManifestJudges ==
  ASSUME CTypeOK, Locals, NEW c \in Creators, Judged(file, job[c]), WriteManifest(c)
  PROVE  Judged(file, job'[c])
<1> DEFINE o == job[c]
           j == job'[c]
<1>1. o.pc = "manifest" /\ o.pc \in {"stage"} \cup Copying
  BY DEF WriteManifest, At, Copying
<1>2. /\ o.ret = "nothing" /\ CanCombine(file, o.paths, o.current) /\ Sorted(file, o)
      /\ Len(o.entries) = Len(o.files) /\ Len(o.files) > 0
  BY <1>1, OrderedFacts
<1>3. /\ o \in JobState /\ job \in [Creators -> JobState] /\ Ranges(o.entries)
      /\ file \in [Canonical -> Seq(Row)]
  BY RunningFacts DEF Counted
<1>4. Valid(ManifestOf(o.files, o.entries))
  BY <1>2, <1>3, ManifestIsValid
<1>5. job' = [job EXCEPT ![c].pc = "promote"]
  BY <1>4 DEF WriteManifest
<1>6. /\ j.pc = "promote" /\ j.pc \in Copying /\ j.ret = "nothing"
      /\ j.files = o.files /\ j.paths = o.paths /\ j.current = o.current
      /\ j.entries = o.entries
  BY <1>2, <1>3, <1>5 DEF JobState, Copying
<1> HIDE DEF j
<1>7. Judged(file, j)
  BY <1>2, <1>6, OrderedStays
<1> QED
  BY <1>7 DEF j

LEMMA SyncCsvJudges ==
  ASSUME CTypeOK, Locals, NEW c \in Creators, Judged(file, job[c]), SyncCsv(c)
  PROVE  Judged(file, job'[c])
<1> DEFINE o == job[c]
           j == job'[c]
<1>1. /\ o.pc = "syncCsv" /\ o.pc \in {"stage"} \cup Copying
      /\ job' = [job EXCEPT ![c].pc = "manifest"]
  BY DEF SyncCsv, At, Copying
<1>2. /\ o.ret = "nothing" /\ CanCombine(file, o.paths, o.current) /\ Sorted(file, o)
      /\ o \in JobState /\ job \in [Creators -> JobState]
  BY <1>1, OrderedFacts, RunningFacts
<1>3. /\ j.pc = "manifest" /\ j.pc \in Copying /\ j.ret = "nothing"
      /\ j.files = o.files /\ j.paths = o.paths /\ j.current = o.current
      /\ j.entries = o.entries
  BY <1>1, <1>2 DEF JobState, Copying
<1> HIDE DEF j
<1>4. Judged(file, j)
  BY <1>2, <1>3, OrderedStays
<1> QED
  BY <1>4 DEF j

LEMMA PromoteJudges ==
  ASSUME CTypeOK, Locals, NEW c \in Creators, Judged(file, job[c]), Promote(c)
  PROVE  Judged(file, job'[c])
<1> DEFINE o == job[c]
           j == job'[c]
<1>1. o.pc = "promote" /\ o.pc \in {"stage"} \cup Copying
  BY DEF Promote, At, Copying
<1>2. /\ o.ret = "nothing" /\ CanCombine(file, o.paths, o.current) /\ Sorted(file, o)
      /\ o \in JobState /\ job \in [Creators -> JobState]
  BY <1>1, OrderedFacts, RunningFacts
<1>3. CASE Fail(c, "exists")
  BY <1>2, <1>3, FailJudges
<1>4. CASE job' = [job EXCEPT ![c].pc = "rename"]
  <2>1. /\ j.pc = "rename" /\ j.pc \in Copying /\ j.ret = "nothing"
        /\ j.files = o.files /\ j.paths = o.paths /\ j.current = o.current
        /\ j.entries = o.entries
    BY <1>2, <1>4 DEF JobState, Copying
  <2> HIDE DEF j
  <2>2. Judged(file, j)
    BY <1>2, <2>1, OrderedStays
  <2> QED
    BY <2>2 DEF j
<1> QED
  BY <1>3, <1>4 DEF Promote

LEMMA RenameJudges ==
  ASSUME CTypeOK, Locals, NEW c \in Creators, Judged(file, job[c]), Rename(c)
  PROVE  Judged(file, job'[c])
<1> DEFINE o == job[c]
           j == job'[c]
<1>1. o.pc = "rename" /\ o.pc \in {"stage"} \cup Copying
  BY DEF Rename, At, Copying
<1>2. CanCombine(file, o.paths, o.current) /\ job \in [Creators -> JobState]
  BY <1>1, OrderedFacts, RunningFacts
<1>3. CASE Leave(c, "done", "ok")
  <2>1. j.pc = "done" /\ j.ret = "ok" /\ j.paths = o.paths /\ j.current = o.current
    BY <1>2, <1>3 DEF Leave, Call
  <2> HIDE DEF j
  <2>2. Judged(file, j)
    BY <1>2, <2>1 DEF Judged, Copying
  <2> QED
    BY <2>2 DEF j
<1>4. CASE Fail(c, IF Exists(out[Dest(c)]) THEN "exists" ELSE "io")
  <2>1. CASE Exists(out[Dest(c)])
    BY <1>2, <1>4, <2>1, FailJudges
  <2>2. CASE ~Exists(out[Dest(c)])
    BY <1>4, <2>2, FailJudges
  <2> QED
    BY <2>1, <2>2
<1> QED
  BY <1>3, <1>4 DEF Rename

(* The guard's cleanup does not change the answer; a killed call has none.   *)
LEMMA CleanupJudges ==
  ASSUME CTypeOK, Locals, NEW c \in Creators, Judged(file, job[c]), Cleanup(c)
  PROVE  Judged(file, job'[c])
<1> DEFINE o == job[c]
           j == job'[c]
<1>1. /\ o.pc = "cleanup" /\ job' = [job EXCEPT ![c].pc = "done"]
      /\ o \in JobState /\ job \in [Creators -> JobState]
  BY RunningFacts DEF Cleanup, At
<1>2. j.pc = "done" /\ j.ret = o.ret /\ j.paths = o.paths /\ j.current = o.current
  BY <1>1 DEF JobState
<1> HIDE DEF j
<1>3. Judged(file, j)
  BY <1>2 DEF Judged, Copying
<1> QED
  BY <1>3 DEF j

LEMMA KillJudges ==
  ASSUME NEW f, NEW request
  PROVE  Judged(f, Call(request, "dead", "nothing"))
<1> DEFINE e == Call(request, "dead", "nothing")
<1>1. e.pc = "dead" /\ e.ret = "nothing"
  BY DEF Call
<1> HIDE DEF e
<1>2. Judged(f, e)
  BY <1>1 DEF Judged, Copying
<1> QED
  BY <1>2 DEF e

(* The creator's own step, and what it leaves alone.                         *)
LEMMA CreateJudges ==
  ASSUME ConcatInv, NEW c \in Creators, Create(c) \/ Kill(c),
         rewrites = 0, Judged(file, job[c])
  PROVE  Judged(file, job'[c])
<1> USE DEF ConcatInv
<1>1. CASE IoFails(c)
  BY <1>1, FailJudges DEF IoFails
<1>2. CASE InspectPath(c)
  BY <1>2, InspectPathJudges
<1>3. CASE ScanRow(c)
  BY <1>3, ScanRowJudges
<1>4. CASE ScanEnd(c)
  BY <1>4, ScanEndJudges
<1>5. CASE ScanFails(c)
  BY <1>5, ScanFailsJudges
<1>6. CASE Order(c)
  BY <1>6, OrderJudges
<1>7. CASE Number(c)
  BY <1>7, NumberJudges
<1>8. CASE Stage(c)
  BY <1>8, StageJudges
<1>9. CASE CopyRow(c)
  BY <1>9, CopyRowJudges
<1>10. CASE CopyEnd(c)
  BY <1>10, CopyEndJudges
<1>11. CASE CopyFails(c)
  BY <1>11, CopyNeverFails
<1>12. CASE SyncCsv(c)
  BY <1>12, SyncCsvJudges
<1>13. CASE WriteManifest(c)
  BY <1>13, WriteManifestJudges
<1>14. CASE Promote(c)
  BY <1>14, PromoteJudges
<1>15. CASE Rename(c)
  BY <1>15, RenameJudges
<1>16. CASE Cleanup(c)
  BY <1>16, CleanupJudges
<1>17. CASE Kill(c)
  <2>1. job'[c] = Call(job[c], "dead", "nothing")
    BY <1>17 DEF Kill, Leave, CTypeOK
  <2> QED
    BY <2>1, KillJudges
<1> QED
  BY <1>1, <1>2, <1>3, <1>4, <1>5, <1>6, <1>7, <1>8, <1>9, <1>10, <1>11, <1>12,
     <1>13, <1>14, <1>15, <1>16, <1>17 DEF Create

(* Every step but a change of an input keeps the calls on their way to the   *)
(* right answer.                                                             *)
LEMMA JudgedStep ==
  ConcatInv /\ Verdicts /\ [CNext]_cvars => Verdicts'
<1> SUFFICES ASSUME ConcatInv, Verdicts, [CNext]_cvars, rewrites' = 0
             PROVE  \A c \in Creators : Judged(file', job'[c])
  BY DEF Verdicts
<1>1. ASSUME NEW c \in Creators, Create(c) \/ Kill(c)
      PROVE  \A d \in Creators : Judged(file', job'[d])
  <2>1. Stepped(c) /\ UNCHANGED <<file, rewrites>>
    BY <1>1, CreateSteps
  <2>2. \A d \in Creators : Judged(file, job[d])
    BY <2>1 DEF Verdicts
  <2>3. Judged(file, job'[c])
    BY <1>1, <2>1, <2>2, CreateJudges
  <2> QED
    BY <2>1, <2>2, <2>3 DEF Stepped
<1>2. ASSUME NEW f \in Canonical, Rewrite(f) PROVE FALSE
  BY <1>2 DEF Rewrite, ConcatInv, CTypeOK
<1>3. ASSUME NEW stem \in Stems, Occupy(stem)
      PROVE  \A d \in Creators : Judged(file', job'[d])
  BY <1>3 DEF Occupy, Verdicts
<1>4. CASE PowerLoss
  <2>1. UNCHANGED <<file, rewrites>>
    BY <1>4 DEF PowerLoss
  <2>2. \A d \in Creators : Judged(file, job[d])
    BY <2>1 DEF Verdicts
  <2>3. ASSUME NEW d \in Creators
        PROVE  job'[d] = job[d] \/ job'[d] = Call(job[d], "dead", "nothing")
    BY <1>4 DEF PowerLoss
  <2> QED
    BY <2>1, <2>2, <2>3, KillJudges
<1>5. CASE UNCHANGED cvars
  BY <1>5 DEF cvars, Verdicts
<1> QED
  BY <1>1, <1>2, <1>3, <1>4, <1>5 DEF CNext

LEMMA JudgedInit ==
  ASSUME CInit
  PROVE  Verdicts
<1>1. ASSUME NEW c \in Creators
      PROVE  Judged(file, job[c])
  <2>1. PICK request \in Requests : job[c] = Call(request, "inspect", "nothing")
    BY DEF CInit
  <2>2. /\ job[c].pc = "inspect" /\ job[c].files = <<>> /\ job[c].ret = "nothing"
        /\ job[c].paths = request.paths
    BY <2>1 DEF Call
  <2>3. Len(request.paths) \in Nat /\ Len(<<>>) = 0
    BY InputsAssumption, LenProperties
  <2>4. Inspected(file, job[c])
    BY <2>2, <2>3 DEF Inspected
  <2> QED
    BY <2>2, <2>4 DEF Judged, Copying
<1> QED
  BY <1>1 DEF Verdicts

(* inspect, check_compat, the sort, the overlap check and write_manifest:    *)
(* as long as no input changes a call is rejected exactly if its inputs      *)
(* cannot be combined, however they were ordered, and is never told that one *)
(* changed.                                                                  *)
THEOREM AnswersAreRight == CSpec => []VerdictIsRight
<1>1. CInit => Verdicts
  BY JudgedInit
<1>2. ConcatInv /\ Verdicts => VerdictIsRight
  <2> SUFFICES ASSUME ConcatInv, Verdicts, NEW c \in Creators, rewrites = 0,
                      job[c].ret \notin {"nothing", "io"}
               PROVE  /\ job[c].ret # "changed"
                      /\ job[c].ret = "rejected" <=>
                           ~Combinable(job[c].paths, job[c].current)
    BY DEF VerdictIsRight
  <2>1. /\ job[c].ret # "changed"
        /\ job[c].ret = "rejected" <=> ~CanCombine(file, job[c].paths, job[c].current)
    BY DEF Verdicts, Judged
  <2>2. Combinable(job[c].paths, job[c].current)
          <=> CanCombine(file, job[c].paths, job[c].current)
    <3>1. job[c].paths \in Seq(Paths) /\ job[c].current \in BOOLEAN
      BY RunningFacts DEF ConcatInv
    <3> QED
      BY <3>1, CombinableIs DEF ConcatInv
  <2> QED
    BY <2>1, <2>2
<1> QED
  BY <1>1, <1>2, JudgedStep, ConcatenationInvariant, PTL DEF CSpec

-----------------------------------------------------------------------------
(* The abstract specification *)

Holder == [stem \in Stems |-> out[stem].by]

ToldOf == [c \in Creators |-> IF At(c, "done") THEN job[c].ret ELSE "nothing"]

(* A creator that ends is told so, the others' answers stay.                 *)
LEMMA ToldSteps ==
  ASSUME ConcatInv, NEW c \in Creators, Stepped(c), job[c].pc \notin Over
  PROVE  /\ ToldOf[c] = "nothing"
         /\ job'[c].pc = "done" => ToldOf' = [ToldOf EXCEPT ![c] = job'[c].ret]
         /\ job'[c].pc # "done" => ToldOf' = ToldOf
<1>1. /\ ToldOf \in [Creators -> {ToldOf[d] : d \in Creators}]
      /\ ToldOf' \in [Creators -> {ToldOf'[d] : d \in Creators}]
  BY DEF ToldOf
<1>2. ToldOf[c] = "nothing" /\ DOMAIN ToldOf = Creators /\ DOMAIN ToldOf' = Creators
  BY DEF ToldOf, At, Over
<1>3. ASSUME NEW d \in Creators, d # c PROVE ToldOf'[d] = ToldOf[d]
  BY <1>3 DEF ToldOf, At, Stepped
<1>4. ToldOf'[c] = IF job'[c].pc = "done" THEN job'[c].ret ELSE "nothing"
  BY DEF ToldOf, At
<1>5. CASE job'[c].pc = "done"
  <2> DEFINE told == [ToldOf EXCEPT ![c] = job'[c].ret]
  <2>1. \A d \in Creators : ToldOf'[d] = told[d]
    BY <1>2, <1>3, <1>4, <1>5
  <2>2. ToldOf' = [d \in Creators |-> ToldOf'[d]] /\ told = [d \in Creators |-> told[d]]
    BY <1>2 DEF ToldOf
  <2>3. ToldOf' = told
    BY <2>1, <2>2
  <2> QED
    BY <1>2, <1>5, <2>3
<1>6. CASE job'[c].pc # "done"
  <2>1. \A d \in Creators : ToldOf'[d] = ToldOf[d]
    BY <1>2, <1>3, <1>4, <1>6
  <2>2. /\ ToldOf' = [d \in Creators |-> ToldOf'[d]]
        /\ ToldOf = [d \in Creators |-> ToldOf[d]]
    BY DEF ToldOf
  <2>3. ToldOf' = ToldOf
    BY <2>1, <2>2
  <2> QED
    BY <1>2, <1>6, <2>3
<1> QED
  BY <1>5, <1>6

LEMMA AnsweredRefines ==
  ASSUME ConcatInv, NEW c \in Creators, Stepped(c), Answered(c),
         job[c].pc \notin Over, UNCHANGED out
  PROVE  [Store!PNext]_(Store!pvars)
<1>1. Holder' = Holder
  BY DEF Holder
<1>2. CASE job'[c].pc # "done"
  <2>1. ToldOf' = ToldOf
    BY <1>2, ToldSteps
  <2> QED
    BY <1>1, <2>1 DEF Store!pvars, Holder, ToldOf
<1>3. CASE job'[c].pc = "done" /\ job'[c].ret = "exists"
  <2>1. ToldOf[c] = "nothing" /\ ToldOf' = [ToldOf EXCEPT ![c] = "exists"]
    BY <1>3, ToldSteps
  <2>2. PICK stem \in Stems : Exists(out[stem])
    BY <1>3 DEF Answered
  <2>3. Holder[stem] # "nobody"
    BY <2>2 DEF Holder, Exists
  <2>4. Store!TurnAway(c, stem)
    BY <1>1, <2>1, <2>3 DEF Store!TurnAway, Store!Free, Store!Tell, Holder, ToldOf
  <2> QED
    BY <2>2, <2>4 DEF Store!PNext
<1>4. CASE job'[c].pc = "done" /\ job'[c].ret # "exists"
  <2>1. job'[c].ret \in {"io", "rejected", "changed"}
    BY <1>4 DEF Answered, Reasons
  <2>2. ToldOf[c] = "nothing" /\ ToldOf' = [ToldOf EXCEPT ![c] = job'[c].ret]
    BY <1>4, ToldSteps
  <2>3. Store!GiveUp(c)
    BY <1>1, <2>1, <2>2 DEF Store!GiveUp, Store!Tell, Holder, ToldOf
  <2> QED
    BY <2>3 DEF Store!PNext
<1> QED
  BY <1>2, <1>3, <1>4

LEMMA PlacedRefines ==
  ASSUME ConcatInv, NEW c \in Creators, Stepped(c), Placed(c), job[c].pc \notin Over
  PROVE  Store!PNext
<1>0. PICK stem \in Stems : stem = Dest(c)
  BY DEF Placed
<1>1. /\ ~Exists(out[stem]) /\ staging[c].by = c
      /\ out' = [out EXCEPT ![stem] = staging[c]] /\ out \in [Stems -> Bundle]
  BY <1>0 DEF Placed, ConcatInv, CTypeOK
<1>2. ToldOf[c] = "nothing" /\ ToldOf' = [ToldOf EXCEPT ![c] = "ok"]
  BY ToldSteps DEF Placed
<1>3. Holder[stem] = "nobody"
  BY <1>1 DEF Holder, Exists
<1>4. Holder' = [Holder EXCEPT ![stem] = c]
  <2>1. \A s \in Stems : Holder'[s] = IF s = stem THEN c ELSE Holder[s]
    BY <1>1 DEF Holder
  <2> QED
    BY <1>1, <2>1 DEF Holder
<1>5. Store!Publish(c, stem)
  BY <1>2, <1>3, <1>4 DEF Store!Publish, Store!Free, Store!Tell, Holder, ToldOf
<1> QED
  BY <1>5 DEF Store!PNext

LEMMA OccupyRefines ==
  ASSUME ConcatInv, NEW stem \in Stems, Occupy(stem)
  PROVE  Store!PNext
<1> DEFINE strange == [Nothing EXCEPT !.by = "stranger"]
<1>1. strange.by = "stranger"
  BY EmptyDirectory
<1>2. /\ out' = [out EXCEPT ![stem] = strange] /\ out \in [Stems -> Bundle]
      /\ ~Exists(out[stem]) /\ UNCHANGED job
  BY DEF Occupy, ConcatInv, CTypeOK
<1> HIDE DEF strange
<1>3. Holder[stem] = "nobody" /\ ToldOf' = ToldOf
  BY <1>2 DEF Holder, Exists, ToldOf, At
<1>4. Holder' = [Holder EXCEPT ![stem] = "stranger"]
  <2>1. \A s \in Stems : Holder'[s] = IF s = stem THEN "stranger" ELSE Holder[s]
    BY <1>1, <1>2 DEF Holder
  <2> QED
    BY <2>1 DEF Holder
<1>5. Store!Occupy(stem)
  BY <1>3, <1>4 DEF Store!Occupy, Store!Free, Holder, ToldOf
<1> QED
  BY <1>5 DEF Store!PNext

LEMMA PowerLossRefines ==
  ASSUME ConcatInv, PowerLoss
  PROVE  Store!PNext
<1>1. PICK undone \in SUBSET Promoted :
        /\ out' = [stem \in Stems |-> IF stem \in undone THEN Nothing ELSE Durable(out[stem])]
        /\ job' = [c \in Creators |->
                     IF At(c, "done") THEN job[c] ELSE Call(job[c], "dead", "nothing")]
  BY DEF PowerLoss
<1>2. out \in [Stems -> Bundle] /\ Nothing.by = "nobody"
  BY EmptyDirectory DEF ConcatInv, CTypeOK
<1>3. ToldOf' = ToldOf
  <2>1. ASSUME NEW c \in Creators PROVE ToldOf'[c] = ToldOf[c]
    <3>1. CASE At(c, "done")
      BY <1>1, <3>1 DEF ToldOf, At
    <3>2. CASE ~At(c, "done")
      <4>1. job'[c].pc = "dead"
        BY <1>1, <3>2 DEF Call
      <4> QED
        BY <3>2, <4>1 DEF ToldOf, At
    <3> QED
      BY <3>1, <3>2
  <2> QED
    BY <2>1 DEF ToldOf
<1>4. \A stem \in Stems : Holder'[stem] = IF stem \in undone THEN "nobody" ELSE Holder[stem]
  BY <1>1, <1>2, DurableFacts DEF Holder
<1>5. Holder' = [stem \in Stems |-> IF stem \in undone THEN "nobody" ELSE Holder[stem]]
  BY <1>4 DEF Holder
<1>6. undone \in SUBSET {stem \in Stems : Holder[stem] \in Creators}
  BY <1>1 DEF Holder, Promoted
<1>7. Store!Forget(undone)
  BY <1>3, <1>5 DEF Store!Forget, Holder, ToldOf
<1> QED
  BY <1>6, <1>7 DEF Store!PNext, Holder

(* Each step of the creators is a step of the abstract specification.        *)
LEMMA PublishStep ==
  ConcatInv /\ [CNext]_cvars => [Store!PNext]_(Store!pvars)
<1> SUFFICES ASSUME ConcatInv, [CNext]_cvars PROVE [Store!PNext]_(Store!pvars)
  OBVIOUS
<1>1. ASSUME NEW c \in Creators, Create(c) \/ Kill(c) PROVE [Store!PNext]_(Store!pvars)
  BY <1>1, CreateSteps, AnsweredRefines, PlacedRefines
<1>2. ASSUME NEW f \in Canonical, Rewrite(f) PROVE UNCHANGED Store!pvars
  BY <1>2 DEF Rewrite, Store!pvars, At
<1>3. ASSUME NEW stem \in Stems, Occupy(stem) PROVE Store!PNext
  BY <1>3, OccupyRefines
<1>4. CASE PowerLoss
  BY <1>4, PowerLossRefines
<1>5. CASE UNCHANGED cvars
  BY <1>5 DEF cvars, Store!pvars, At
<1> QED
  BY <1>1, <1>2, <1>3, <1>4, <1>5 DEF CNext

(* create_concatenation_at publishes its bundle as PublishOnce says: whole,  *)
(* at most once, replacing nothing, and the caller is told the truth.        *)
THEOREM CreatorsPublishOnce == CSpec => ImplementsPublishOnce
<1>1. CInit => Store!PInit
  BY DEF CInit, Store!PInit, Nothing, Call, At
<1>2. CSpec => Store!PSpec
  BY <1>1, PublishStep, ConcatenationInvariant, PTL DEF CSpec, Store!PSpec
<1> QED
  BY <1>2 DEF ImplementsPublishOnce

===============================================================================
