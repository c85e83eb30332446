------------------------------ MODULE ReportProofs ------------------------------
(***************************************************************************)
(* Proofs about ReportWriter, for any number of calls, processes and       *)
(* temporary names.                                                        *)
(*                                                                         *)
(* The inductive invariant says of each call which file it holds and how   *)
(* much of the workbook is in it (Local), and of every state the directory *)
(* may come back to that its destination is durable (DestDurable): a power *)
(* loss picks any of them.                                                 *)
(***************************************************************************)
EXTENDS ReportWriter, SequenceTheorems, TLAPS

Holding == {"write", "sync", "promote", "remove", "discard"}

Holds(w) ==
  job[w].pc \in Holding =>
    /\ job[w].handle = w
    /\ job[w].name \in Names
    /\ dir.temp[job[w].name] = w

Filled(w) ==
  /\ job[w].pc \in {"check", "temp"} => data[w] = "none"
  /\ job[w].pc = "write" => data[w] = "partial"
  /\ job[w].pc = "sync" => data[w] = "whole"
  /\ job[w].pc \in {"promote", "remove"} => data[w] = "durable"

Unpublished == {"check", "temp", "write", "sync", "promote"}

(* only on Unix is there something to do once the name is taken, and there a *)
(* destination never goes                                                    *)
HasDest(w) ==
  w \in published /\ Overwrite[w] = "ErrorIfExists" /\ ~Free(dir.dest) /\ ~windows

Placed(w) ==
  /\ job[w].pc \in Unpublished => w \notin published
  /\ job[w].pc = "remove" => HasDest(w)
  /\ job[w].pc = "discard" /\ w \in published => HasDest(w) /\ job[w].error = "promotion"

Answered(w) ==
  /\ told[w] # "nothing" => job[w].pc = "done"
  /\ told[w] = "ok" => w \in published
  /\ told[w] \in {"io", "rejected"} => w \notin published

Local(w) == Holds(w) /\ Filled(w) /\ Placed(w) /\ Answered(w)

DestDurable ==
  \A k \in 1 .. Len(journal) :
    journal[k].dest \in Writers => data[journal[k].dest] = "durable"

RInv ==
  /\ StateOK
  /\ DestDurable
  /\ \A w \in Writers : Local(w)

(* what a step of w leaves alone *)
Frame(w) ==
  /\ \A v \in Writers \ {w} :
       /\ job'[v] = job[v] /\ data'[v] = data[v] /\ told'[v] = told[v]
       /\ v \in published' <=> v \in published
  /\ \A n \in Names : dir'.temp[n] # dir.temp[n] => dir.temp[n] \in {Nobody, w}
  /\ dir'.dest # dir.dest =>
       \/ dir'.dest = w /\ Free(dir.dest)
       \/ dir'.dest = w /\ Overwrite[w] = "Replace" /\ told'[w] = "ok"
       \/ windows /\ Free(dir'.dest) /\ Overwrite[w] = "Replace" /\ At(w, "promote")

-----------------------------------------------------------------------------
(* The directory and its journal *)

LEMMA DirTyped ==
  ASSUME StateOK
  PROVE  dir \in Directory /\ Len(journal) \in Nat \ {0}
<1>1. Len(journal) \in Nat \ {0}
  <2>1. journal \in Seq(Directory) /\ journal # <<>>
    BY DEF StateOK
  <2> QED  BY <2>1, EmptySeq, LenProperties
<1>2. Len(journal) \in 1 .. Len(journal)
  BY <1>1
<1> QED  BY <1>1, <1>2, ElementOfSeq DEF StateOK, dir

LEMMA RecordFacts ==
  ASSUME StateOK, NEW d \in Directory, Record(d)
  PROVE  /\ journal' \in Seq(Directory) /\ journal' # <<>>
         /\ dir' = d
         /\ \A k \in 1 .. Len(journal') :
              journal'[k] = d \/ \E i \in 1 .. Len(journal) : journal'[k] = journal[i]
<1>1. journal \in Seq(Directory) /\ journal' = Append(journal, d)
  BY DEF StateOK, Record
<1>2. /\ journal' \in Seq(Directory)
      /\ Len(journal') = Len(journal) + 1
      /\ \A i \in 1 .. Len(journal) : journal'[i] = journal[i]
      /\ journal'[Len(journal) + 1] = d
  BY <1>1, AppendProperties
<1>3. Len(journal) \in Nat
  BY <1>1, LenProperties
<1>4. journal' # <<>>
  BY <1>2, <1>3, EmptySeq
<1>5. dir' = d
  BY <1>2 DEF dir
<1>6. ASSUME NEW k \in 1 .. Len(journal')
      PROVE  journal'[k] = d \/ \E i \in 1 .. Len(journal) : journal'[k] = journal[i]
  <2>1. k \in 1 .. Len(journal) \/ k = Len(journal) + 1
    BY <1>2, <1>3
  <2> QED  BY <2>1, <1>2
<1> QED  BY <1>2, <1>4, <1>5, <1>6

LEMMA SingleFacts ==
  ASSUME NEW d \in Directory, journal' = <<d>>
  PROVE  /\ journal' \in Seq(Directory) /\ journal' # <<>>
         /\ dir' = d
         /\ Len(journal') = 1 /\ journal'[1] = d
<1>1. <<d>> \in Seq(Directory) /\ <<d>> # <<>> /\ Len(<<d>>) = 1 /\ <<d>>[1] = d
  OBVIOUS
<1> QED  BY <1>1 DEF dir

LEMMA SameDir ==
  ASSUME UNCHANGED journal
  PROVE  dir' = dir
BY DEF dir

(* The claims about the other calls survive a step. *)
LEMMA OthersKept ==
  ASSUME RInv, NEW w \in Writers, Frame(w), UNCHANGED windows, NEW v \in Writers \ {w}
  PROVE  Local(v)'
<1>1. Local(v)
  BY DEF RInv
<1>2. /\ job'[v] = job[v] /\ data'[v] = data[v] /\ told'[v] = told[v]
      /\ v \in published' <=> v \in published
  BY DEF Frame
<1>3. Holds(v)'
  <2>1. SUFFICES ASSUME job[v].pc \in Holding
                 PROVE  /\ job[v].handle = v /\ job[v].name \in Names
                        /\ dir'.temp[job[v].name] = v
    BY <1>2 DEF Holds, Holding
  <2>2. job[v].handle = v /\ job[v].name \in Names /\ dir.temp[job[v].name] = v
    BY <1>1, <2>1 DEF Local, Holds
  <2>3. v \notin {Nobody, w}
    BY WritersAssumption
  <2> QED  BY <2>2, <2>3 DEF Frame
<1>4. ~Free(dir.dest) /\ ~windows => ~Free(dir'.dest)
  BY WritersAssumption DEF Frame, Free
<1>5. Filled(v)' /\ Answered(v)'
  BY <1>1, <1>2 DEF Local, Filled, Answered
<1>6. Placed(v)'
  BY <1>1, <1>2, <1>4 DEF Local, Placed, HasDest, Unpublished, Free
<1> QED  BY <1>3, <1>5, <1>6 DEF Local

(* So much is left to show of a call's step. *)
Preserved(w) == StateOK' /\ DestDurable' /\ Local(w)' /\ Frame(w)

LEMMA StepPreserves ==
  ASSUME RInv, NEW w \in Writers, Preserved(w), UNCHANGED windows
  PROVE  RInv' /\ Frame(w)
BY OthersKept DEF RInv, Preserved

-----------------------------------------------------------------------------
(* Local variables and the destination *)

LEMMA CallTyped ==
  ASSUME NEW p \in Writing \cup Over
  PROVE  Call(p) \in Job /\ Call(p).pc = p
BY NamesAssumption DEF Call, Job

LEMMA GoToFacts ==
  ASSUME StateOK, NEW w \in Writers, NEW p \in Writing \cup Over, GoTo(w, p)
  PROVE  /\ job' \in [Writers -> Job]
         /\ job'[w] = [job[w] EXCEPT !.pc = p]
         /\ \A v \in Writers \ {w} : job'[v] = job[v]
<1>1. job[w] \in Job /\ job' = [job EXCEPT ![w] = [job[w] EXCEPT !.pc = p]]
  BY DEF StateOK, GoTo
<1>2. [job[w] EXCEPT !.pc = p] \in Job
  BY <1>1 DEF Job
<1> QED  BY <1>1, <1>2 DEF StateOK

Verdicts == {"nothing", "ok", "exists", "rejected", "io"}

LEMMA ReturnFacts ==
  ASSUME StateOK, NEW w \in Writers, NEW verdict \in Verdicts, Return(w, verdict)
  PROVE  /\ job' \in [Writers -> Job] /\ told' \in [Writers -> Verdicts]
         /\ job'[w].pc = "done" /\ told'[w] = verdict
         /\ \A v \in Writers \ {w} : job'[v] = job[v] /\ told'[v] = told[v]
<1>1. Call("done") \in Job /\ Call("done").pc = "done"
  BY CallTyped DEF Over
<1>2. job' = [job EXCEPT ![w] = Call("done")] /\ told' = [told EXCEPT ![w] = verdict]
  BY DEF Return
<1> QED  BY <1>1, <1>2 DEF StateOK, Verdicts

LEMMA AbortFacts ==
  ASSUME StateOK, NEW w \in Writers, NEW error \in {"other", "taken", "promotion"},
         Abort(w, error)
  PROVE  /\ job' \in [Writers -> Job]
         /\ job'[w] = [job[w] EXCEPT !.pc = "discard", !.error = error]
         /\ told' = told
         /\ \A v \in Writers \ {w} : job'[v] = job[v]
<1>1. job[w] \in Job
  BY DEF StateOK
<1>2. job' = [job EXCEPT ![w] = [job[w] EXCEPT !.pc = "discard", !.error = error]]
  BY <1>1 DEF Abort, StateOK, Job
<1>3. [job[w] EXCEPT !.pc = "discard", !.error = error] \in Job
  BY <1>1 DEF Job, Writing
<1> QED  BY <1>2, <1>3 DEF StateOK, Abort

DurableStays == \A v \in Writers : data[v] = "durable" => data'[v] = "durable"

LEMMA RecordKeepsDest ==
  ASSUME StateOK, DestDurable, DurableStays, NEW d \in Directory, Record(d),
         d.dest \in Writers => data'[d.dest] = "durable"
  PROVE  DestDurable'
<1> SUFFICES ASSUME NEW k \in 1 .. Len(journal'), journal'[k].dest \in Writers
             PROVE  data'[journal'[k].dest] = "durable"
  BY DEF DestDurable
<1>1. journal'[k] = d \/ \E i \in 1 .. Len(journal) : journal'[k] = journal[i]
  BY RecordFacts
<1> QED  BY <1>1 DEF DestDurable, DurableStays

LEMMA SameKeepsDest ==
  ASSUME StateOK, DestDurable, DurableStays, UNCHANGED journal
  PROVE  DestDurable'
BY DEF DestDurable, DurableStays

LEMMA SyncKeepsDest ==
  ASSUME StateOK, DestDurable, DurableStays, journal' = <<dir>>
  PROVE  DestDurable'
<1>1. dir \in Directory /\ Len(journal) \in 1 .. Len(journal)
  BY DirTyped
<1>2. Len(journal') = 1 /\ journal'[1] = dir
  BY <1>1, SingleFacts
<1>3. dir.dest \in Writers => data[dir.dest] = "durable"
  BY <1>1 DEF DestDurable, dir
<1> QED  BY <1>2, <1>3 DEF DestDurable, DurableStays

-----------------------------------------------------------------------------
(* One lemma for each action of a call *)

LEMMA CheckPreserves ==
  ASSUME RInv, NEW w \in Writers, Check(w), UNCHANGED windows
  PROVE  Preserved(w)
<1>1. /\ StateOK /\ DestDurable /\ Local(w)
      /\ UNCHANGED <<journal, data, counter, published>> /\ job[w].pc = "check"
  BY DEF RInv, Check, At
<1>2. dir' = dir
  BY <1>1, SameDir
<1>3. DestDurable'
  BY <1>1, SameKeepsDest DEF DurableStays
<1>4. CASE Return(w, "rejected") \/ Return(w, "exists")
  <2>1. PICK verdict \in {"rejected", "exists"} : Return(w, verdict)
    BY <1>4
  <2>2. /\ job' \in [Writers -> Job] /\ told' \in [Writers -> Verdicts]
        /\ job'[w].pc = "done" /\ told'[w] = verdict
        /\ \A v \in Writers \ {w} : job'[v] = job[v] /\ told'[v] = told[v]
    BY <1>1, <2>1, ReturnFacts DEF Verdicts
  <2>3. StateOK'
    BY <1>1, <2>2 DEF StateOK, Verdicts
  <2>4. w \notin published
    BY <1>1 DEF Local, Placed, Unpublished
  <2>5. Local(w)'
    BY <1>1, <2>2, <2>4 DEF Local, Holds, Filled, Placed, Answered, Holding, Unpublished
  <2> QED  BY <1>1, <1>2, <1>3, <2>2, <2>3, <2>5 DEF Preserved, Frame
<1>5. CASE GoTo(w, "temp") /\ UNCHANGED told
  <2>1. /\ job' \in [Writers -> Job]
        /\ job'[w] = [job[w] EXCEPT !.pc = "temp"]
        /\ \A v \in Writers \ {w} : job'[v] = job[v]
    BY <1>1, <1>5, GoToFacts DEF Writing
  <2>2. job'[w].pc = "temp"
    BY <1>1, <2>1 DEF StateOK, Job
  <2>3. StateOK'
    BY <1>1, <1>5, <2>1 DEF StateOK
  <2>4. Local(w)'
    BY <1>1, <1>5, <2>2 DEF Local, Holds, Filled, Placed, Answered, Holding, Unpublished
  <2> QED  BY <1>1, <1>2, <1>3, <1>5, <2>1, <2>3, <2>4 DEF Preserved, Frame
<1> QED  BY <1>4, <1>5 DEF Check

LEMMA CreateTempPreserves ==
  ASSUME RInv, NEW w \in Writers, CreateTemp(w), UNCHANGED windows
  PROVE  Preserved(w)
<1> DEFINE p == ProcessOf[w]
           n == counter[p]
<1>1. /\ StateOK /\ DestDurable /\ Local(w) /\ job[w].pc = "temp"
      /\ n \in Names /\ job[w].tries < Attempts
      /\ counter' = [counter EXCEPT ![p] = n + 1] /\ UNCHANGED published
  BY DEF RInv, CreateTemp, At, MayTry
<1>2. counter' \in [Processes -> Nat]
  BY <1>1, NamesAssumption, WritersAssumption DEF StateOK
<1>3. dir \in Directory /\ job[w] \in Job
  BY <1>1, DirTyped DEF StateOK
<1>4. w \notin published /\ told[w] = "nothing"
  BY <1>1 DEF Local, Placed, Answered, Unpublished
<1>5. CASE /\ Free(dir.temp[n])
           /\ Record([dir EXCEPT !.temp[n] = w])
           /\ data' = [data EXCEPT ![w] = "partial"]
           /\ job' = [job EXCEPT ![w].pc = "write", ![w].name = n, ![w].handle = w]
           /\ UNCHANGED told
  <2> DEFINE d == [dir EXCEPT !.temp[n] = w]
  <2>1. d \in Directory /\ d.dest = dir.dest /\ d.temp[n] = w
        /\ \A m \in Names \ {n} : d.temp[m] = dir.temp[m]
    BY <1>1, <1>3 DEF Directory, Owner
  <2>2. journal' \in Seq(Directory) /\ journal' # <<>> /\ dir' = d
    BY <1>1, <1>5, <2>1, RecordFacts
  <2>3. /\ data' \in [Writers -> {"none", "partial", "whole", "durable"}]
        /\ data'[w] = "partial" /\ \A v \in Writers \ {w} : data'[v] = data[v]
    BY <1>1, <1>5 DEF StateOK
  <2>4. data[w] = "none"
    BY <1>1 DEF Local, Filled
  <2>5. DurableStays
    BY <2>3, <2>4 DEF DurableStays
  <2>6. dir.dest \in Writers => data[dir.dest] = "durable"
    BY <1>1, DirTyped DEF DestDurable, dir
  <2>7. DestDurable'
    BY <1>1, <1>5, <2>1, <2>5, <2>6, RecordKeepsDest DEF DurableStays
  <2>8. /\ job' \in [Writers -> Job]
        /\ job'[w].pc = "write" /\ job'[w].name = n /\ job'[w].handle = w
        /\ \A v \in Writers \ {w} : job'[v] = job[v]
    BY <1>1, <1>3, <1>5 DEF StateOK, Job, Writing
  <2>9. StateOK'
    BY <1>1, <1>2, <1>5, <2>2, <2>3, <2>8 DEF StateOK
  <2>10. Local(w)'
    BY <1>1, <1>4, <1>5, <2>1, <2>2, <2>3, <2>8
    DEF Local, Holds, Filled, Placed, Answered, Holding, Unpublished
  <2>11. Frame(w)
    BY <1>1, <1>5, <2>1, <2>2, <2>3, <2>8 DEF Frame, Free
  <2> QED  BY <2>7, <2>9, <2>10, <2>11 DEF Preserved
<1>6. CASE job' = [job EXCEPT ![w].tries = @ + 1] /\ UNCHANGED <<journal, data, told>>
  <2>1. job[w].tries + 1 \in 0 .. Attempts
    BY <1>1, <1>3, NamesAssumption DEF Job
  <2>2. /\ job' \in [Writers -> Job] /\ job'[w].pc = "temp"
        /\ \A v \in Writers \ {w} : job'[v] = job[v]
    BY <1>1, <1>3, <1>6, <2>1 DEF StateOK, Job
  <2>3. dir' = dir /\ DestDurable'
    BY <1>1, <1>6, SameDir, SameKeepsDest DEF DurableStays
  <2>4. StateOK'
    BY <1>1, <1>2, <1>6, <2>2 DEF StateOK
  <2>5. Local(w)'
    BY <1>1, <1>6, <2>2 DEF Local, Holds, Filled, Placed, Answered, Holding, Unpublished
  <2> QED  BY <1>1, <1>6, <2>2, <2>3, <2>4, <2>5 DEF Preserved, Frame
<1>7. CASE Return(w, "io") /\ UNCHANGED <<journal, data>>
  <2>1. /\ job' \in [Writers -> Job] /\ told' \in [Writers -> Verdicts]
        /\ job'[w].pc = "done" /\ told'[w] = "io"
        /\ \A v \in Writers \ {w} : job'[v] = job[v] /\ told'[v] = told[v]
    BY <1>1, <1>7, ReturnFacts DEF Verdicts
  <2>2. dir' = dir /\ DestDurable'
    BY <1>1, <1>7, SameDir, SameKeepsDest DEF DurableStays
  <2>3. StateOK'
    BY <1>1, <1>2, <1>7, <2>1 DEF StateOK, Verdicts
  <2>4. Local(w)'
    BY <1>1, <1>4, <1>7, <2>1
    DEF Local, Holds, Filled, Placed, Answered, Holding, Unpublished
  <2> QED  BY <1>1, <1>7, <2>1, <2>2, <2>3, <2>4 DEF Preserved, Frame
<1> QED  BY <1>5, <1>6, <1>7 DEF CreateTemp

LEMMA OutOfNamesPreserves ==
  ASSUME RInv, NEW w \in Writers, OutOfNames(w), UNCHANGED windows
  PROVE  Preserved(w)
<1>1. /\ StateOK /\ DestDurable /\ Local(w) /\ job[w].pc = "temp"
      /\ Return(w, "io") /\ UNCHANGED <<journal, data, counter, published>>
  BY DEF RInv, OutOfNames, At
<1>2. w \notin published
  BY <1>1 DEF Local, Placed, Unpublished
<1>3. /\ job' \in [Writers -> Job] /\ told' \in [Writers -> Verdicts]
      /\ job'[w].pc = "done" /\ told'[w] = "io"
      /\ \A v \in Writers \ {w} : job'[v] = job[v] /\ told'[v] = told[v]
  BY <1>1, ReturnFacts DEF Verdicts
<1>4. dir' = dir /\ DestDurable'
  BY <1>1, SameDir, SameKeepsDest DEF DurableStays
<1>5. StateOK'
  BY <1>1, <1>3 DEF StateOK, Verdicts
<1>6. Local(w)'
  BY <1>1, <1>2, <1>3 DEF Local, Holds, Filled, Placed, Answered, Holding, Unpublished
<1> QED  BY <1>1, <1>3, <1>4, <1>5, <1>6 DEF Preserved, Frame

LEMMA FillFacts ==
  ASSUME RInv, NEW w \in Writers, job[w].pc \in Holding,
         NEW amount \in {"whole", "durable"}, Fill(w, amount)
  PROVE  /\ data' \in [Writers -> {"none", "partial", "whole", "durable"}]
         /\ data'[w] = amount
         /\ \A v \in Writers \ {w} : data'[v] = data[v]
<1>1. job[w].handle = w /\ data \in [Writers -> {"none", "partial", "whole", "durable"}]
  BY DEF RInv, Local, Holds, StateOK
<1> QED  BY <1>1 DEF Fill

(* An error after the temporary file was made. *)
LEMMA AbortPreserves ==
  ASSUME RInv, NEW w \in Writers, job[w].pc \in Holding,
         NEW error \in {"other", "taken", "promotion"}, Abort(w, error),
         w \in published => HasDest(w) /\ error = "promotion",
         UNCHANGED <<windows, journal, data, counter, published>>
  PROVE  Preserved(w)
<1>1. StateOK /\ DestDurable /\ Local(w)
  BY DEF RInv
<1>2. /\ job' \in [Writers -> Job]
      /\ job'[w] = [job[w] EXCEPT !.pc = "discard", !.error = error]
      /\ told' = told
      /\ \A v \in Writers \ {w} : job'[v] = job[v]
  BY <1>1, AbortFacts
<1>3. /\ job'[w].pc = "discard" /\ job'[w].error = error
      /\ job'[w].name = job[w].name /\ job'[w].handle = job[w].handle
  BY <1>1, <1>2 DEF StateOK, Job
<1>4. dir' = dir /\ DestDurable'
  BY <1>1, SameDir, SameKeepsDest DEF DurableStays
<1>5. StateOK'
  BY <1>1, <1>2 DEF StateOK
<1>6. told[w] = "nothing"
  BY <1>1 DEF Local, Answered, Holding
<1>7. Holds(w)'
  BY <1>1, <1>3, <1>4 DEF Local, Holds
<1>8. Filled(w)' /\ Placed(w)' /\ Answered(w)'
  BY <1>2, <1>3, <1>4, <1>6 DEF Filled, Placed, Answered, HasDest, Unpublished
<1> QED  BY <1>2, <1>4, <1>5, <1>7, <1>8 DEF Preserved, Frame, Local

LEMMA WriteWorkbookPreserves ==
  ASSUME RInv, NEW w \in Writers, WriteWorkbook(w), UNCHANGED windows
  PROVE  Preserved(w)
<1>1. /\ StateOK /\ DestDurable /\ Local(w) /\ job[w].pc = "write"
      /\ UNCHANGED <<journal, counter, published>>
  BY DEF RInv, WriteWorkbook, At
<1>2. w \notin published /\ told[w] = "nothing" /\ data[w] = "partial"
  BY <1>1 DEF Local, Placed, Answered, Filled, Unpublished
<1>3. CASE Fill(w, "whole") /\ GoTo(w, "sync") /\ UNCHANGED told
  <2>1. /\ data' \in [Writers -> {"none", "partial", "whole", "durable"}]
        /\ data'[w] = "whole"
        /\ \A v \in Writers \ {w} : data'[v] = data[v]
    BY <1>1, <1>3, FillFacts DEF Holding
  <2>2. /\ job' \in [Writers -> Job]
        /\ job'[w] = [job[w] EXCEPT !.pc = "sync"]
        /\ \A v \in Writers \ {w} : job'[v] = job[v]
    BY <1>1, <1>3, GoToFacts DEF Writing
  <2>3. job'[w].pc = "sync" /\ job'[w].name = job[w].name /\ job'[w].handle = job[w].handle
    BY <1>1, <2>2 DEF StateOK, Job
  <2>4. DurableStays
    BY <1>2, <2>1 DEF DurableStays
  <2>5. dir' = dir /\ DestDurable'
    BY <1>1, <2>4, SameDir, SameKeepsDest
  <2>6. StateOK'
    BY <1>1, <1>3, <2>1, <2>2 DEF StateOK
  <2>7. Holds(w)'
    BY <1>1, <2>3, <2>5 DEF Local, Holds, Holding
  <2>8. Filled(w)' /\ Placed(w)' /\ Answered(w)'
    BY <1>1, <1>2, <1>3, <2>1, <2>3 DEF Filled, Placed, Answered, Unpublished
  <2> QED  BY <1>1, <1>3, <2>1, <2>2, <2>5, <2>6, <2>7, <2>8 DEF Preserved, Frame, Local
<1>4. CASE Abort(w, "other") /\ UNCHANGED data
  BY <1>1, <1>2, <1>4, AbortPreserves DEF Holding
<1> QED  BY <1>3, <1>4 DEF WriteWorkbook

LEMMA SyncWorkbookPreserves ==
  ASSUME RInv, NEW w \in Writers, SyncWorkbook(w), UNCHANGED windows
  PROVE  Preserved(w)
<1>1. /\ StateOK /\ DestDurable /\ Local(w) /\ job[w].pc = "sync"
      /\ UNCHANGED <<counter, published>>
  BY DEF RInv, SyncWorkbook, At
<1>2. w \notin published /\ told[w] = "nothing"
  BY <1>1 DEF Local, Placed, Answered, Unpublished
<1>3. CASE Fill(w, "durable") /\ journal' = <<dir>> /\ GoTo(w, "promote") /\ UNCHANGED told
  <2>1. /\ data' \in [Writers -> {"none", "partial", "whole", "durable"}]
        /\ data'[w] = "durable"
        /\ \A v \in Writers \ {w} : data'[v] = data[v]
    BY <1>1, <1>3, FillFacts DEF Holding
  <2>2. /\ job' \in [Writers -> Job]
        /\ job'[w] = [job[w] EXCEPT !.pc = "promote"]
        /\ \A v \in Writers \ {w} : job'[v] = job[v]
    BY <1>1, <1>3, GoToFacts DEF Writing
  <2>3. job'[w].pc = "promote" /\ job'[w].name = job[w].name
        /\ job'[w].handle = job[w].handle
    BY <1>1, <2>2 DEF StateOK, Job
  <2>4. DurableStays
    BY <2>1 DEF DurableStays
  <2>5. journal' \in Seq(Directory) /\ journal' # <<>> /\ dir' = dir
    BY <1>1, <1>3, DirTyped, SingleFacts
  <2>6. DestDurable'
    BY <1>1, <1>3, <2>4, SyncKeepsDest
  <2>7. StateOK'
    BY <1>1, <1>3, <2>1, <2>2, <2>5 DEF StateOK
  <2>8. Holds(w)'
    BY <1>1, <2>3, <2>5 DEF Local, Holds, Holding
  <2>9. Filled(w)' /\ Placed(w)' /\ Answered(w)'
    BY <1>1, <1>2, <1>3, <2>1, <2>3 DEF Filled, Placed, Answered, Unpublished
  <2> QED
    BY <1>1, <1>3, <2>1, <2>2, <2>5, <2>6, <2>7, <2>8, <2>9 DEF Preserved, Frame, Local
<1>4. CASE Abort(w, "other") /\ UNCHANGED <<data, journal>>
  BY <1>1, <1>2, <1>4, AbortPreserves DEF Holding
<1> QED  BY <1>3, <1>4 DEF SyncWorkbook

LEMMA LinkPreserves ==
  ASSUME RInv, NEW w \in Writers, Link(w), UNCHANGED windows
  PROVE  Preserved(w)
<1>1. /\ StateOK /\ DestDurable /\ Local(w) /\ job[w].pc = "promote"
      /\ Overwrite[w] = "ErrorIfExists" /\ ~windows /\ UNCHANGED <<data, counter>>
  BY DEF RInv, Link, At
<1>2. /\ w \notin published /\ told[w] = "nothing" /\ data[w] = "durable"
      /\ job[w].name \in Names /\ dir.temp[job[w].name] = w
  BY <1>1 DEF Local, Holds, Placed, Answered, Filled, Holding, Unpublished
<1>3. CASE /\ Free(dir.dest)
           /\ Record([dir EXCEPT !.dest = dir.temp[job[w].name]])
           /\ published' = published \cup {w}
           /\ GoTo(w, "remove")
           /\ UNCHANGED told
  <2> DEFINE d == [dir EXCEPT !.dest = dir.temp[job[w].name]]
  <2>1. d \in Directory /\ d.dest = w /\ d.temp = dir.temp
    BY <1>1, <1>2, DirTyped DEF Directory, Owner
  <2>2. journal' \in Seq(Directory) /\ journal' # <<>> /\ dir' = d
    BY <1>1, <1>3, <2>1, RecordFacts
  <2>3. DestDurable'
    BY <1>1, <1>2, <1>3, <2>1, RecordKeepsDest DEF DurableStays
  <2>4. /\ job' \in [Writers -> Job]
        /\ job'[w] = [job[w] EXCEPT !.pc = "remove"]
        /\ \A v \in Writers \ {w} : job'[v] = job[v]
    BY <1>1, <1>3, GoToFacts DEF Writing
  <2>5. job'[w].pc = "remove" /\ job'[w].name = job[w].name
        /\ job'[w].handle = job[w].handle
    BY <1>1, <2>4 DEF StateOK, Job
  <2>6. StateOK'
    BY <1>1, <1>3, <2>2, <2>4 DEF StateOK
  <2>7. Holds(w)'
    BY <1>1, <1>2, <2>1, <2>2, <2>5 DEF Local, Holds, Holding
  <2>8. HasDest(w)'
    BY <1>1, <1>3, <2>1, <2>2, WritersAssumption DEF HasDest, Free
  <2>9. Filled(w)' /\ Placed(w)' /\ Answered(w)'
    BY <1>1, <1>2, <1>3, <2>5, <2>8 DEF Filled, Placed, Answered, Unpublished
  <2>10. Frame(w)
    BY <1>1, <1>3, <2>1, <2>2, <2>4 DEF Frame
  <2> QED  BY <2>3, <2>6, <2>7, <2>9, <2>10 DEF Preserved, Local
<1>4. CASE Abort(w, "taken") /\ UNCHANGED <<journal, published>>
  BY <1>1, <1>2, <1>4, AbortPreserves DEF Holding
<1>5. CASE Abort(w, "promotion") /\ UNCHANGED <<journal, published>>
  BY <1>1, <1>2, <1>5, AbortPreserves DEF Holding
<1> QED  BY <1>3, <1>4, <1>5 DEF Link

(* The temporary name of a call, taken away by the call itself. *)
LEMMA UnnameFacts ==
  ASSUME RInv, NEW w \in Writers, job[w].pc \in Holding, UNCHANGED data,
         Record([dir EXCEPT !.temp[job[w].name] = Nobody])
  PROVE  /\ journal' \in Seq(Directory) /\ journal' # <<>>
         /\ dir'.dest = dir.dest
         /\ \A n \in Names : dir'.temp[n] # dir.temp[n] => dir.temp[n] = w
         /\ DestDurable'
<1> DEFINE d == [dir EXCEPT !.temp[job[w].name] = Nobody]
<1>1. /\ StateOK /\ DestDurable
      /\ job[w].name \in Names /\ dir.temp[job[w].name] = w
  BY DEF RInv, Local, Holds
<1>2. /\ d \in Directory /\ d.dest = dir.dest
      /\ \A n \in Names : d.temp[n] # dir.temp[n] => dir.temp[n] = w
  BY <1>1, DirTyped DEF Directory, Owner
<1>3. journal' \in Seq(Directory) /\ journal' # <<>> /\ dir' = d
  BY <1>1, <1>2, RecordFacts
<1>4. dir.dest \in Writers => data[dir.dest] = "durable"
  BY <1>1, DirTyped DEF DestDurable, dir
<1>5. DestDurable'
  BY <1>1, <1>2, <1>4, RecordKeepsDest DEF DurableStays
<1> QED  BY <1>2, <1>3, <1>5

(* A return after the temporary name was, or was not, taken away. *)
LEMMA LeavePreserves ==
  ASSUME RInv, NEW w \in Writers, job[w].pc \in Holding,
         NEW verdict \in {"ok", "exists", "io"}, Return(w, verdict),
         \/ Record([dir EXCEPT !.temp[job[w].name] = Nobody])
         \/ UNCHANGED journal,
         verdict = "ok" => w \in published,
         verdict = "io" => w \notin published,
         UNCHANGED <<windows, data, counter, published>>
  PROVE  Preserved(w)
<1>1. StateOK /\ DestDurable /\ Local(w)
  BY DEF RInv
<1>2. /\ job' \in [Writers -> Job] /\ told' \in [Writers -> Verdicts]
      /\ job'[w].pc = "done" /\ told'[w] = verdict
      /\ \A v \in Writers \ {w} : job'[v] = job[v] /\ told'[v] = told[v]
  BY <1>1, ReturnFacts DEF Verdicts
<1>3. /\ journal' \in Seq(Directory) /\ journal' # <<>>
      /\ dir'.dest = dir.dest
      /\ \A n \in Names : dir'.temp[n] # dir.temp[n] => dir.temp[n] = w
      /\ DestDurable'
  <2>1. CASE UNCHANGED journal
    BY <1>1, <2>1, SameDir, SameKeepsDest DEF DurableStays, StateOK
  <2>2. CASE Record([dir EXCEPT !.temp[job[w].name] = Nobody])
    BY <2>2, UnnameFacts
  <2> QED  BY <2>1, <2>2
<1>4. StateOK'
  BY <1>1, <1>2, <1>3 DEF StateOK, Verdicts
<1>5. Local(w)'
  BY <1>1, <1>2 DEF Local, Holds, Filled, Placed, Answered, Holding, Unpublished
<1> QED  BY <1>2, <1>3, <1>4, <1>5 DEF Preserved, Frame

LEMMA RemoveTempPreserves ==
  ASSUME RInv, NEW w \in Writers, RemoveTemp(w), UNCHANGED windows
  PROVE  Preserved(w)
<1>1. /\ StateOK /\ Local(w) /\ job[w].pc = "remove"
      /\ UNCHANGED <<data, counter, published>>
  BY DEF RInv, RemoveTemp, At
<1>2. HasDest(w) /\ w \in published
  BY <1>1 DEF Local, Placed, HasDest
<1>3. CASE /\ Record([dir EXCEPT !.temp[job[w].name] = Nobody])
           /\ Return(w, "ok")
  BY <1>1, <1>2, <1>3, LeavePreserves DEF Holding
<1>4. CASE Abort(w, "promotion") /\ UNCHANGED journal
  BY <1>1, <1>2, <1>4, AbortPreserves DEF Holding
<1> QED  BY <1>3, <1>4 DEF RemoveTemp

LEMMA RenamedFacts ==
  ASSUME StateOK, NEW w \in Writers, job[w].name \in Names, dir.temp[job[w].name] = w
  PROVE  /\ Renamed(w) \in Directory /\ Renamed(w).dest = w
         /\ \A n \in Names : Renamed(w).temp[n] # dir.temp[n] => dir.temp[n] = w
BY DirTyped DEF Renamed, Directory, Owner

LEMMA ReplacePreserves ==
  ASSUME RInv, NEW w \in Writers, Replace(w), UNCHANGED windows
  PROVE  Preserved(w)
<1>1. /\ StateOK /\ DestDurable /\ Local(w) /\ job[w].pc = "promote"
      /\ Overwrite[w] = "Replace" /\ UNCHANGED <<data, counter>>
  BY DEF RInv, Replace, At
<1>2. /\ w \notin published /\ told[w] = "nothing" /\ data[w] = "durable"
      /\ job[w].name \in Names /\ dir.temp[job[w].name] = w
  BY <1>1 DEF Local, Holds, Placed, Answered, Filled, Holding, Unpublished
<1>3. CASE /\ Record(Renamed(w))
           /\ published' = published \cup {w}
           /\ Return(w, "ok")
  <2>1. /\ Renamed(w) \in Directory /\ Renamed(w).dest = w
        /\ \A n \in Names : Renamed(w).temp[n] # dir.temp[n] => dir.temp[n] = w
    BY <1>1, <1>2, RenamedFacts
  <2>2. journal' \in Seq(Directory) /\ journal' # <<>> /\ dir' = Renamed(w)
    BY <1>1, <1>3, <2>1, RecordFacts
  <2>3. DestDurable'
    BY <1>1, <1>2, <1>3, <2>1, RecordKeepsDest DEF DurableStays
  <2>4. /\ job' \in [Writers -> Job] /\ told' \in [Writers -> Verdicts]
        /\ job'[w].pc = "done" /\ told'[w] = "ok"
        /\ \A v \in Writers \ {w} : job'[v] = job[v] /\ told'[v] = told[v]
    BY <1>1, <1>3, ReturnFacts DEF Verdicts
  <2>5. StateOK'
    BY <1>1, <1>3, <2>2, <2>4 DEF StateOK, Verdicts
  <2>6. Local(w)'
    BY <1>1, <1>3, <2>4 DEF Local, Holds, Filled, Placed, Answered, Holding, Unpublished
  <2>7. Frame(w)
    BY <1>1, <1>3, <2>1, <2>2, <2>4 DEF Frame
  <2> QED  BY <2>3, <2>5, <2>6, <2>7 DEF Preserved
<1>4. CASE Abort(w, "promotion") /\ UNCHANGED <<journal, published>>
  BY <1>1, <1>2, <1>4, AbortPreserves DEF Holding
<1> QED  BY <1>3, <1>4 DEF Replace

LEMMA MovePreserves ==
  ASSUME RInv, NEW w \in Writers, Move(w), UNCHANGED windows
  PROVE  Preserved(w)
<1>1. /\ StateOK /\ DestDurable /\ Local(w) /\ job[w].pc = "promote"
      /\ Overwrite[w] = "ErrorIfExists" /\ windows /\ UNCHANGED <<data, counter>>
  BY DEF RInv, Move, At
<1>2. /\ w \notin published /\ told[w] = "nothing" /\ data[w] = "durable"
      /\ job[w].name \in Names /\ dir.temp[job[w].name] = w
  BY <1>1 DEF Local, Holds, Placed, Answered, Filled, Holding, Unpublished
<1>3. CASE /\ Free(dir.dest)
           /\ RecordSynced(Renamed(w))
           /\ published' = published \cup {w}
           /\ Return(w, "ok")
  <2>1. /\ Renamed(w) \in Directory /\ Renamed(w).dest = w
        /\ \A n \in Names : Renamed(w).temp[n] # dir.temp[n] => dir.temp[n] = w
    BY <1>1, <1>2, RenamedFacts
  <2>2. journal' \in Seq(Directory) /\ journal' # <<>> /\ dir' = Renamed(w)
    BY <1>1, <1>3, <2>1, SingleFacts DEF RecordSynced
  <2>3. DestDurable'
    BY <1>1, <1>2, <1>3, <2>1, SingleFacts DEF DestDurable, RecordSynced
  <2>4. /\ job' \in [Writers -> Job] /\ told' \in [Writers -> Verdicts]
        /\ job'[w].pc = "done" /\ told'[w] = "ok"
        /\ \A v \in Writers \ {w} : job'[v] = job[v] /\ told'[v] = told[v]
    BY <1>1, <1>3, ReturnFacts DEF Verdicts
  <2>5. StateOK'
    BY <1>1, <1>3, <2>2, <2>4 DEF StateOK, Verdicts
  <2>6. Local(w)'
    BY <1>1, <1>3, <2>4 DEF Local, Holds, Filled, Placed, Answered, Holding, Unpublished
  <2>7. Frame(w)
    BY <1>1, <1>3, <2>1, <2>2, <2>4 DEF Frame
  <2> QED  BY <2>3, <2>5, <2>6, <2>7 DEF Preserved
<1>4. CASE Abort(w, "promotion") /\ UNCHANGED <<journal, published>>
  BY <1>1, <1>2, <1>4, AbortPreserves DEF Holding
<1>5. CASE Abort(w, "taken") /\ UNCHANGED <<journal, published>>
  BY <1>1, <1>2, <1>5, AbortPreserves DEF Holding
<1> QED  BY <1>3, <1>4, <1>5 DEF Move

LEMMA ReplaceHalfPreserves ==
  ASSUME RInv, NEW w \in Writers, ReplaceHalf(w), UNCHANGED windows
  PROVE  Preserved(w)
<1>1. /\ StateOK /\ DestDurable /\ Local(w) /\ job[w].pc = "promote"
      /\ Overwrite[w] = "Replace" /\ windows /\ Abort(w, "promotion")
      /\ UNCHANGED <<data, counter, published>>
  BY DEF RInv, ReplaceHalf, At
<1>2. /\ w \notin published /\ told[w] = "nothing"
      /\ job[w].handle = w /\ job[w].name \in Names /\ dir.temp[job[w].name] = w
  BY <1>1 DEF Local, Holds, Placed, Answered, Holding, Unpublished
<1> DEFINE d == [dir EXCEPT !.dest = Nobody]
<1>3. d \in Directory /\ d.dest = Nobody /\ d.temp = dir.temp
  BY <1>1, DirTyped DEF Directory, Owner
<1>4. journal' \in Seq(Directory) /\ journal' # <<>> /\ dir' = d
  BY <1>1, <1>3, RecordFacts DEF ReplaceHalf
<1>5. DestDurable'
  BY <1>1, <1>3, WritersAssumption, RecordKeepsDest DEF ReplaceHalf, DurableStays
<1>6. /\ job' \in [Writers -> Job]
      /\ job'[w] = [job[w] EXCEPT !.pc = "discard", !.error = "promotion"]
      /\ told' = told
      /\ \A v \in Writers \ {w} : job'[v] = job[v]
  BY <1>1, AbortFacts
<1>7. /\ job'[w].pc = "discard" /\ job'[w].name = job[w].name
      /\ job'[w].handle = job[w].handle
  BY <1>1, <1>6 DEF StateOK, Job
<1>8. StateOK'
  BY <1>1, <1>4, <1>6 DEF StateOK
<1>9. Local(w)'
  BY <1>1, <1>2, <1>3, <1>4, <1>6, <1>7
  DEF Local, Holds, Filled, Placed, Answered, Unpublished
<1>10. Frame(w)
  BY <1>1, <1>3, <1>4, <1>6 DEF Frame, Free, At
<1> QED  BY <1>5, <1>8, <1>9, <1>10 DEF Preserved

(* The second look at the destination makes the verdict right. *)
LEMMA DiscardPreserves ==
  ASSUME RInv, NEW w \in Writers, Discard(w), UNCHANGED windows
  PROVE  Preserved(w)
<1>1. /\ StateOK /\ Local(w) /\ job[w].pc = "discard"
      /\ Return(w, Verdict(w)) /\ UNCHANGED <<data, counter, published>>
      /\ \/ Record([dir EXCEPT !.temp[job[w].name] = Nobody])
         \/ UNCHANGED journal
  BY DEF RInv, Discard, At
<1>2. Verdict(w) \in {"exists", "io"}
  BY DEF Verdict
<1>3. Verdict(w) = "io" => w \notin published
  BY <1>1 DEF Local, Placed, HasDest, Verdict
<1> QED  BY <1>1, <1>2, <1>3, LeavePreserves DEF Holding

LEMMA CallStep ==
  ASSUME RInv, NEW w \in Writers, WriteReport(w), UNCHANGED windows
  PROVE  RInv' /\ Frame(w)
<1>1. Preserved(w)
  BY CheckPreserves, CreateTempPreserves, OutOfNamesPreserves, WriteWorkbookPreserves,
     SyncWorkbookPreserves, LinkPreserves, RemoveTempPreserves, MovePreserves,
     ReplacePreserves, ReplaceHalfPreserves, DiscardPreserves
  DEF WriteReport
<1> QED  BY <1>1, StepPreserves

-----------------------------------------------------------------------------
(* The environment *)

LEMMA EndFacts ==
  ASSUME StateOK, NEW ended \in SUBSET Writers, End(ended)
  PROVE  /\ job' \in [Writers -> Job]
         /\ \A w \in Writers :
              \/ job'[w] = job[w] /\ (w \in ended => job[w].pc = "done")
              \/ job'[w].pc = "dead" /\ job[w].pc # "done"
<1>1. Call("dead") \in Job /\ Call("dead").pc = "dead"
  BY CallTyped DEF Over
<1> DEFINE r(w) == IF w \in ended /\ job[w].pc # "done" THEN Call("dead") ELSE job[w]
<1>2. job' = [w \in Writers |-> r(w)]
  BY DEF End, At
<1>3. \A w \in Writers : r(w) \in Job
  BY <1>1 DEF StateOK
<1>4. ASSUME NEW w \in Writers
      PROVE  \/ r(w) = job[w] /\ (w \in ended => job[w].pc = "done")
             \/ r(w).pc = "dead" /\ job[w].pc # "done"
  BY <1>1
<1> HIDE DEF r
<1> QED  BY <1>2, <1>3, <1>4

LEMMA KillPreserves ==
  ASSUME RInv, NEW p \in Processes, Kill(p), UNCHANGED windows
  PROVE  RInv' /\ dir' = dir
<1>1. /\ StateOK /\ DestDurable /\ UNCHANGED <<journal, data, told, published>>
      /\ counter' = [counter EXCEPT ![p] = 0]
  BY DEF RInv, Kill
<1>2. /\ job' \in [Writers -> Job]
      /\ \A w \in Writers : job'[w] = job[w] \/ (job'[w].pc = "dead" /\ job[w].pc # "done")
  <2>1. End(Running(p)) /\ Running(p) \in SUBSET Writers
    BY DEF Kill, Running
  <2> QED  BY <1>1, <2>1, EndFacts
<1>3. StateOK'
  BY <1>1, <1>2 DEF StateOK
<1>4. dir' = dir /\ DestDurable'
  BY <1>1, SameDir, SameKeepsDest DEF DurableStays
<1>5. ASSUME NEW w \in Writers
      PROVE  Local(w)'
  <2>1. Local(w)
    BY DEF RInv
  <2>2. CASE job'[w] = job[w]
    BY <1>1, <1>4, <2>1, <2>2 DEF Local, Holds, Filled, Placed, Answered, HasDest
  <2>3. CASE job'[w].pc = "dead" /\ job[w].pc # "done"
    BY <1>1, <2>1, <2>3 DEF Local, Holds, Filled, Placed, Answered, Holding, Unpublished
  <2> QED  BY <1>2, <2>2, <2>3
<1> QED  BY <1>3, <1>4, <1>5 DEF RInv

LEMMA OccupyPreserves ==
  ASSUME RInv, Occupy, UNCHANGED windows
  PROVE  RInv' /\ dir'.temp = dir.temp
<1> DEFINE d == [dir EXCEPT !.dest = Stranger]
<1>1. /\ StateOK /\ DestDurable /\ Free(dir.dest) /\ Record(d)
      /\ UNCHANGED <<data, counter, job, told, published>>
  BY DEF RInv, Occupy
<1>2. d \in Directory /\ d.dest = Stranger /\ d.temp = dir.temp
  BY <1>1, DirTyped DEF Directory, Owner
<1>3. journal' \in Seq(Directory) /\ journal' # <<>> /\ dir' = d
  BY <1>1, <1>2, RecordFacts
<1>4. DestDurable'
  BY <1>1, <1>2, WritersAssumption, RecordKeepsDest DEF DurableStays
<1>5. StateOK'
  BY <1>1, <1>3 DEF StateOK
<1>6. ASSUME NEW w \in Writers
      PROVE  Local(w)'
  <2>1. Local(w) /\ ~HasDest(w)
    BY <1>1 DEF RInv, HasDest
  <2> QED  BY <1>1, <1>2, <1>3, <2>1 DEF Local, Holds, Filled, Placed, Answered
<1> QED  BY <1>2, <1>3, <1>4, <1>5, <1>6 DEF RInv

LEMMA PowerLossPreserves ==
  ASSUME RInv, PowerLoss, UNCHANGED windows
  PROVE  /\ RInv'
         /\ \A w \in Writers : job'[w] = job[w] \/ job'[w].pc = "dead"
         /\ \A w \in Writers : job'[w].pc \in Over
<1>1. /\ StateOK /\ DestDurable /\ UNCHANGED <<told, published>>
      /\ counter' = [p \in Processes |-> 0]
  BY DEF RInv, PowerLoss
<1>2. journal \in Seq(Directory)
  BY <1>1 DEF StateOK
<1>3. PICK k \in 1 .. Len(journal) : journal' = <<journal[k]>>
  BY <1>2, LenProperties DEF PowerLoss
<1>4. journal[k] \in Directory
  BY <1>2, <1>3, ElementOfSeq
<1>5. /\ journal' \in Seq(Directory) /\ journal' # <<>>
      /\ Len(journal') = 1 /\ journal'[1] = journal[k]
  BY <1>3, <1>4, SingleFacts
<1>6. /\ data' \in [Writers -> {"none", "partial", "whole", "durable"}]
      /\ \A w \in Writers : data'[w] = data[w] \/ data[w] = "whole"
  BY DEF PowerLoss
<1>7. DestDurable'
  BY <1>1, <1>3, <1>5, <1>6 DEF DestDurable
<1>8. /\ job' \in [Writers -> Job]
      /\ \A w \in Writers :
           \/ job'[w] = job[w] /\ job[w].pc = "done"
           \/ job'[w].pc = "dead" /\ job[w].pc # "done"
  <2>1. End(Writers)
    BY DEF PowerLoss
  <2> QED  BY <1>1, <2>1, EndFacts
<1>9. StateOK'
  BY <1>1, <1>5, <1>6, <1>8 DEF StateOK
<1>10. ASSUME NEW w \in Writers
       PROVE  Local(w)'
  <2>1. Local(w)
    BY DEF RInv
  <2>2. job'[w].pc \in {"done", "dead"} /\ (told[w] # "nothing" => job'[w].pc = "done")
    BY <1>8, <2>1 DEF Local, Answered
  <2> QED
    BY <1>1, <2>1, <2>2 DEF Local, Holds, Filled, Placed, Answered, Holding, Unpublished
<1> QED  BY <1>7, <1>8, <1>9, <1>10 DEF RInv, Over

-----------------------------------------------------------------------------
(* The theorems *)

LEMMA InitInvariant ==
  ASSUME RInit
  PROVE  RInv
<1> DEFINE d == [temp |-> [n \in Names |-> IF n \in Planted THEN Stranger ELSE Nobody],
                 dest |-> Nobody]
<1>1. journal = <<d>>
  BY DEF RInit
<1>2. d \in Directory /\ d.dest \notin Writers
  BY WritersAssumption DEF Directory, Owner
<1>3. /\ journal \in Seq(Directory) /\ journal # <<>>
      /\ Len(journal) = 1 /\ journal[1] = d
  BY <1>1, <1>2
<1>4. /\ data = [w \in Writers |-> "none"] /\ counter = [p \in Processes |-> 0]
      /\ job = [w \in Writers |-> Call("check")] /\ told = [w \in Writers |-> "nothing"]
      /\ published = {}
  BY DEF RInit
<1>5. Call("check") \in Job /\ Call("check").pc = "check"
  BY CallTyped DEF Writing
<1>6. StateOK
  BY <1>3, <1>4, <1>5 DEF StateOK
<1>7. DestDurable
  BY <1>2, <1>3 DEF DestDurable
<1>8. \A w \in Writers : Local(w)
  BY <1>4, <1>5 DEF Local, Holds, Filled, Placed, Answered, Holding
<1> QED  BY <1>6, <1>7, <1>8 DEF RInv

LEMMA StutterPreserves ==
  ASSUME RInv, UNCHANGED rvars
  PROVE  RInv'
<1>1. UNCHANGED <<windows, journal, data, counter, job, told, published>> /\ dir' = dir
  BY SameDir DEF rvars
<1>2. StateOK' /\ DestDurable'
  BY <1>1 DEF RInv, StateOK, DestDurable
<1>3. ASSUME NEW w \in Writers
      PROVE  Local(w)'
  <2>1. Local(w)
    BY DEF RInv
  <2> QED  BY <1>1, <2>1 DEF Local, Holds, Filled, Placed, Answered, HasDest
<1> QED  BY <1>2, <1>3 DEF RInv

LEMMA NextInvariant ==
  ASSUME RInv, [RNext]_rvars
  PROVE  RInv'
BY CallStep, KillPreserves, OccupyPreserves, PowerLossPreserves, StutterPreserves DEF RNext

(* The inductive invariant holds in every reachable state. *)
THEOREM ReportInvariant == RSpec => [](RInv /\ windows \in BOOLEAN)
<1>1. RInit => (RInv /\ windows \in BOOLEAN)
  BY InitInvariant DEF RInit
<1>2. (RInv /\ windows \in BOOLEAN) /\ [RNext]_rvars => (RInv /\ windows \in BOOLEAN)'
  BY NextInvariant DEF RNext, rvars
<1> QED  BY <1>1, <1>2, PTL DEF RSpec

(* The state of calls and directory is well typed. *)
THEOREM ReportTypes == RSpec => []ReportTypeOK
<1>1. RInv /\ windows \in BOOLEAN => ReportTypeOK
  BY DEF RInv, ReportTypeOK
<1> QED  BY <1>1, ReportInvariant, PTL

(* A destination written by a call holds a whole, synced workbook, whoever   *)
(* fails or is killed, and after a power loss.                               *)
THEOREM NoPartialReport == RSpec => []DestIsWhole
<1>1. RInv => DestIsWhole
  <2> SUFFICES ASSUME RInv
               PROVE  DestIsWhole
    OBVIOUS
  <2>1. Len(journal) \in 1 .. Len(journal)
    BY DirTyped DEF RInv
  <2> QED  BY <2>1 DEF RInv, DestDurable, DestIsWhole, dir
<1> QED  BY <1>1, ReportInvariant, PTL

(* What a call returns agrees with what happened to the destination. *)
THEOREM VerdictsAgree == RSpec => []VerdictAgrees
<1>1. RInv => VerdictAgrees
  BY DEF RInv, Local, Answered, VerdictAgrees
<1> QED  BY <1>1, ReportInvariant, PTL

(* Only a call that asked for Replace takes the destination from a report. *)
THEOREM ReportsNotClobbered == RSpec => NoClobber
<1> DEFINE Kept ==
      dir'.dest # dir.dest =>
        \/ Free(dir.dest)
        \/ \E w \in Writers :
             /\ Overwrite[w] = "Replace"
             /\ \/ dir'.dest = w /\ told'[w] = "ok"
                \/ windows /\ Free(dir'.dest) /\ At(w, "promote")
        \/ \A w \in Writers : job'[w].pc = "dead" \/ (At(w, "done") /\ UNCHANGED job[w])
<1>1. ASSUME RInv, [RNext]_rvars
      PROVE  [Kept]_rvars
  <2>0. UNCHANGED windows
    BY <1>1 DEF RNext, rvars
  <2>1. ASSUME NEW w \in Writers, WriteReport(w)
        PROVE  Kept
    BY <1>1, <2>0, <2>1, CallStep DEF Frame
  <2>2. ASSUME NEW p \in Processes, Kill(p)
        PROVE  Kept
    BY <1>1, <2>0, <2>2, KillPreserves
  <2>3. CASE Occupy
    BY <2>3 DEF Occupy
  <2>4. CASE PowerLoss
    BY <1>1, <2>0, <2>4, PowerLossPreserves DEF Over, At
  <2> QED  BY <1>1, <2>1, <2>2, <2>3, <2>4 DEF RNext
<1> QED  BY <1>1, ReportInvariant, PTL DEF RSpec, NoClobber

(* A call takes away, links and fills no file but its own. *)
THEOREM TempsAreOwned == RSpec => OthersTempsKept
<1> DEFINE Own(w) ==
      Acts(w) /\ job'[w].pc # "dead" =>
        /\ \A n \in Names : dir'.temp[n] # dir.temp[n] => dir.temp[n] \in {Nobody, w}
        /\ \A v \in Writers \ {w} : data'[v] = data[v]
        /\ dir'.dest # dir.dest => dir'.dest = w \/ (windows /\ Free(dir'.dest))
<1>1. ASSUME RInv, [RNext]_rvars
      PROVE  [\A w \in Writers : Own(w)]_rvars
  <2>0. UNCHANGED windows
    BY <1>1 DEF RNext, rvars
  <2>1. ASSUME NEW u \in Writers, WriteReport(u), NEW w \in Writers
        PROVE  Own(w)
    BY <1>1, <2>0, <2>1, CallStep DEF Frame, Acts
  <2>2. ASSUME NEW p \in Processes, Kill(p), NEW w \in Writers
        PROVE  Own(w)
    <3>1. dir' = dir /\ data' = data
      BY <1>1, <2>0, <2>2, KillPreserves DEF Kill
    <3> QED  BY <3>1
  <2>3. ASSUME Occupy, NEW w \in Writers
        PROVE  Own(w)
    BY <2>3 DEF Occupy, Acts
  <2>4. ASSUME PowerLoss, NEW w \in Writers
        PROVE  Own(w)
    BY <1>1, <2>0, <2>4, PowerLossPreserves DEF Acts
  <2> QED  BY <1>1, <2>1, <2>2, <2>3, <2>4 DEF RNext
<1> QED  BY <1>1, ReportInvariant, PTL DEF RSpec, OthersTempsKept

=============================================================================
