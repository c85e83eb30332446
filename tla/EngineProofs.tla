----------------------------- MODULE EngineProofs -----------------------------
(***************************************************************************)
(* Proofs about run_session for every number of samples.  A session takes  *)
(* only steps of the recorder that any client may take, so what is proved  *)
(* of the recorder holds in every session.                                 *)
(***************************************************************************)
EXTENDS Engine, SessionWriterProofs, FiniteSetTheorems

(* Each step of the engine is a step of the recorder or leaves it alone.     *)
LEMMA EngineStepsWriter == [ENext]_evars => [WNext]_wvars
<1> SUFFICES ASSUME [ENext]_evars PROVE [WNext]_wvars
  OBVIOUS
<1>1. CASE RejectConfig
  BY <1>1 DEF RejectConfig, Goto, WNext, Create, CheckAbsent
<1>2. CASE CreateWriter
  BY <1>2 DEF CreateWriter, WNext
<1>3. CASE ReadBits
  BY <1>3 DEF ReadBits, WNext
<1>4. CASE Commit
  BY <1>4 DEF Commit, WNext
<1>5. CASE Overrun
  BY <1>5 DEF Overrun, WNext
<1>6. CASE Complete \/ MarkFailed
  BY <1>6 DEF Complete, MarkFailed, WNext
<1>7. CASE Return
  BY <1>7 DEF Return, WNext
<1>8. CASE Crash \/ Elsewhere
  BY <1>8 DEF Crash, Elsewhere, WNext
<1>9. CASE \/ EmitStarted \/ LoopTop \/ Analyze \/ EmitSample \/ AfterSample
           \/ InTime \/ WaitCheck \/ WaitDeadline \/ EmitStopped \/ EmitFailed
           \/ RequestCancel
  BY <1>9 DEF EmitStarted, LoopTop, Analyze, EmitSample, AfterSample, InTime,
              WaitCheck, WaitDeadline, EmitStopped, EmitFailed, RequestCancel,
              CheckCancel
<1>10. CASE UNCHANGED evars
  BY <1>10 DEF evars
<1> QED
  BY <1>1, <1>2, <1>3, <1>4, <1>5, <1>6, <1>7, <1>8, <1>9, <1>10
     DEF ENext, EngineStep

(* A session is a behaviour of the recorder under some client.               *)
THEOREM SessionUsesWriter == ESpec => WSpec
<1>1. EInit => WInit
  BY DEF EInit
<1> QED
  BY <1>1, EngineStepsWriter, PTL DEF ESpec, WSpec

(* In every session every row of the CSV describes durable bytes and every   *)
(* sample run_session saw committed stays, whatever fails or crashes.        *)
THEOREM SessionIsSafe == ESpec => [](CsvIsBacked /\ AckedIsDurable)
BY SessionUsesWriter, CommitMarker, ReportedSamplesLast, PTL

-----------------------------------------------------------------------------
(* The inductive invariant *)

Working == {"loop", "read", "commit", "analyze", "emitSample", "check", "timing",
            "wait", "deadline"}

Unfinished == {"create", "emitStarted", "stop"} \cup Working

(* with the writer between two operations *)
Between == {"emitStarted", "stop", "emitStopped", "fail", "emitFailed", "return"}
             \cup (Working \ {"commit"})

(* Where the engine is tells where the writer is, and what may be returned *)
Places ==
  /\ pc = "create" => wpc \in Creating
  /\ pc = "commit" => wpc \in Committing
  /\ pc \in Between => wpc = "idle"
  /\ pc = "done" => wpc \in Ended
  /\ pc = "crashed" => wpc = "dead"
  /\ pc \in Unfinished \cup {"emitStopped"} => err = "none"
  /\ pc \in {"fail", "emitFailed"} => err # "none"
  /\ pc # "done" => outcome = NoOutcome
  /\ pc = "done" =>
       \/ err = "none" /\ outcome = Completed
       \/ err # "none" /\ outcome = ErrorOf(err)
       \/ err = "none" /\ outcome = ErrorOf("recording") /\ manifests = <<>>
  /\ pc \in {"stop", "emitStopped"} => cancel
  /\ pc = "return" /\ err = "none" => cancel
  /\ afterCancel # 0 => cancel /\ pc \notin {"create", "emitStarted"} \cup (Working \ {"check"})

(* What the sink accepted *)
ToldInOrder ==
  /\ pc \in {"create", "emitStarted"} => events = <<>>
  /\ pc \in Working \cup {"stop", "emitStopped"} \/ (pc = "return" /\ err = "none") =>
       events # <<>> /\ events[1].type = "started"
  /\ events # <<>> => events[1].type \in {"started", "failed"}
  /\ \A i \in 1 .. Len(events) :
       /\ i # 1 => events[i].type # "started"
       /\ events[i].type \in {"stopped", "failed"} =>
            i = Len(events) /\ pc \in {"return", "done", "crashed"}

(* The samples and overruns it accepted are those of the writer *)
Numbered ==
  /\ {events[i].committed : i \in Accepted("sample")} = 1 .. Count("sample")
  /\ \A i, j \in Accepted("sample") :
       i < j => events[i].committed < events[j].committed
  /\ Count("sample") \in {Len(acked), Len(acked) - 1}
  /\ pc \in {"analyze", "emitSample"} => Count("sample") = Len(acked) - 1
  /\ pc \in (Unfinished \cup {"emitStopped"}) \ {"analyze", "emitSample"} =>
       Count("sample") = Len(acked)
  /\ pc \in Unfinished \cup {"emitStopped"} => overruns <= Count("overrun")

(* nothing is left behind the last reported sample *)
Clean == AtExpectedOffset /\ Even

(* What is on disk: complete once a manifest says so *)
Recorded ==
  /\ pc \in (Between \cap Unfinished) \cup {"emitStopped"} => Clean
  /\ pc = "commit" /\ wpc = "validate" => Clean
  /\ wpc = "syncCsv" => Ahead
  /\ pc \in Unfinished => \A i \in 1 .. Len(manifests) : manifests[i].status = "recording"
  /\ \A i \in 1 .. Len(manifests) : manifests[i].status = "completed" =>
       /\ cancel /\ Clean
       /\ Count("sample") = Len(acked)
       /\ manifests[i].committed = Len(acked)
       /\ manifests[i].overruns <= Count("overrun")

(* The manifest a reader sees *)
Shown ==
  /\ pc \in Between \cup {"commit"} => manifests # <<>>
  /\ pc = "emitStopped" \/ (pc = "return" /\ err = "none") => Visible = Version("completed")
  /\ pc = "fail" => Visible.status = "recording" \/ (Visible.status = "completed" /\ err = "sink")
  /\ pc \in {"emitFailed", "return"} /\ err # "none" =>
       \/ Visible = Version("failed")
       \/ ret = "err" /\ Visible.status = "recording"
       \/ ret = "err" /\ Visible.status = "completed" /\ err = "sink"

(* The sink is told that the session stopped only if nothing failed, and     *)
(* then that is the last it hears                                            *)
Farewell ==
  /\ \A i \in 1 .. Len(events) : events[i].type = "stopped" => err = "none"
  /\ pc = "return" /\ err = "none" =>
       events # <<>> /\ events[Len(events)] = Event("stopped")

EngineInv ==
  EngineTypeOK /\ WriterInv /\ Places /\ ToldInOrder /\ Numbered /\ Recorded /\ Shown
  /\ Farewell /\ OutcomeAgrees

(* One step of an operation of the writer: it goes on, or it returns.        *)
LEMMA CreateMoves ==
  ASSUME WriterInv, Create
  PROVE  /\ \/ wpc' \in Creating
            \/ wpc' = "closed" /\ manifests' = <<>>
            \/ /\ wpc' = "idle" /\ dir = "self"
               /\ manifests' = Append(manifests, Version("recording"))
         /\ wpc' # "idle" => manifests' = manifests
         /\ wpc \in Creating /\ manifests = <<>> /\ Clean /\ acked = <<>>
         /\ UNCHANGED <<counts, bin, binTail, csv, csvTail, buffer>>
<1>1. wpc \in Creating
  BY DEF Create, CheckAbsent, MakeDir, CreateArtifacts, CreateManifest, Creating
<1>2. Nothing /\ acked = <<>> /\ buffer = <<>>
  BY <1>1 DEF WriterInv, Core, Progress
<1>3. Clean
  BY <1>2 DEF WriterInv, Core, Memory, Nothing, Clean, AtExpectedOffset, Even
<1>4. CASE CheckAbsent
  BY <1>1, <1>2, <1>3, <1>4 DEF CheckAbsent, CreateFails, disk, Creating, Nothing
<1>5. CASE MakeDir
  BY <1>1, <1>2, <1>3, <1>5 DEF MakeDir, CreateFails, Creating, Nothing
<1>6. CASE CreateArtifacts
  BY <1>1, <1>2, <1>3, <1>6 DEF CreateArtifacts, CreateFails, disk, Creating, Nothing
<1>7. CASE CreateManifest
  BY <1>1, <1>2, <1>3, <1>7
     DEF CreateManifest, CreateFails, Creating, Nothing, Publish, WriterInv, Core, Progress
<1>8. QED BY <1>4, <1>5, <1>6, <1>7 DEF Create

LEMMA CommitMoves ==
  ASSUME WriterInv, CommitStep
  PROVE  /\ wpc \in Committing /\ wpc' \in (Committing \ {"validate"}) \cup {"idle"}
         /\ UNCHANGED <<manifests, overruns>>
         /\ (wpc' = "idle" /\ ret' = "ok") \/ UNCHANGED <<acked, next, committed>>
         /\ wpc' # "idle" => UNCHANGED <<acked, next, committed>>
         /\ wpc' = "idle" => ret' \in {"ok", "err"}
         /\ wpc' = "idle" /\ ret' = "ok" => wpc = "syncCsv" /\ acked' = Append(acked, sample)
<1>1. CASE Validate
  BY <1>1 DEF Validate, GoOn, ReturnErr, Committing, disk, counts
<1>2. CASE AppendBin
  BY <1>2 DEF AppendBin, GoOn, ReturnErr, Committing, counts
<1>3. CASE SyncBin
  BY <1>3 DEF SyncBin, GoOn, ReturnErr, Committing, counts
<1>4. CASE AppendCsv
  BY <1>4 DEF AppendCsv, GoOn, ReturnErr, Committing, disk, counts
<1>5. CASE FlushCsv
  BY <1>5 DEF FlushCsv, GoOn, ReturnErr, Committing, counts
<1>6. CASE SyncCsv
  BY <1>6 DEF SyncCsv, ReturnErr, Committing
<1>7. QED BY <1>1, <1>2, <1>3, <1>4, <1>5, <1>6 DEF CommitStep

LEMMA PlacesStep == WriterInv /\ Places /\ [ENext]_evars => Places'
<1> SUFFICES ASSUME WriterInv, Places, [ENext]_evars PROVE Places'
  OBVIOUS
<1> USE DEF Places, Unfinished, Working, Between
<1>0. \A r \in Reasons : r # "none" /\ ErrorOf(r) # NoOutcome
  BY DEF Reasons, ErrorOf, NoOutcome
<1>1. CASE RejectConfig
  <2>1. manifests = <<>>
    BY <1>1 DEF RejectConfig, Creating, WriterInv, Core, Progress, Nothing
  <2>2. QED BY <1>1, <2>1 DEF RejectConfig, Goto, CreateFails, Ended, disk, counts, Reasons, ErrorOf
<1>2. CASE CreateWriter
  BY <1>2, CreateMoves DEF CreateWriter, Creating, Committing, Ended
<1>3. CASE EmitStarted
  BY <1>3, <1>0 DEF EmitStarted, Accept, Raise, wvars, disk, counts, writer, Completed, Reasons
<1>4. CASE LoopTop
  BY <1>4 DEF LoopTop, CheckCancel, wvars, disk, counts, writer, Completed
<1>5. CASE AfterSample
  BY <1>5 DEF AfterSample, CheckCancel, wvars, disk, counts, writer, Completed
<1>6. CASE WaitCheck
  BY <1>6 DEF WaitCheck, CheckCancel, wvars, disk, counts, writer, Completed
<1>7. CASE ReadBits
  BY <1>7 DEF ReadBits, BeginCommit, Raise, Committing, wvars, disk, counts, writer, Completed
<1>8. CASE Commit
  BY <1>8, CommitMoves DEF Commit, Raise, Committing
<1>9. CASE Analyze
  BY <1>9 DEF Analyze, Raise, wvars, disk, counts, writer, Completed
<1>10. CASE EmitSample
  BY <1>10 DEF EmitSample, Accept, Raise, wvars, disk, counts, writer, Completed
<1>11. CASE Overrun
  BY <1>11 DEF Overrun, AddOverrun, Accept, Raise, disk, counts, writer, Completed
<1>12. CASE InTime \/ WaitDeadline
  BY <1>12 DEF InTime, WaitDeadline, Goto, wvars, disk, counts, writer, Completed
<1>13. CASE Complete
  BY <1>13 DEF Complete, FinalizeCompleted, Finalize, Raise, counts
<1>14. CASE EmitStopped
  BY <1>14 DEF EmitStopped, Accept, Raise, wvars, disk, counts, writer, Completed
<1>15. CASE MarkFailed
  BY <1>15 DEF MarkFailed, FinalizeFailed, Finalize, Goto, counts
<1>16. CASE EmitFailed
  BY <1>16 DEF EmitFailed, Accept, Goto, wvars, disk, counts, writer, Completed
<1>17. CASE Return
  BY <1>17 DEF Return, DropWriter, Goto, counts, Completed, Ended
<1>18. CASE RequestCancel
  BY <1>18 DEF RequestCancel, wvars, disk, counts, writer, Completed
<1>19. CASE Crash
  <2>1. wpc' = "dead" /\ UNCHANGED counts /\ (manifests = <<>> => manifests' = <<>>)
    <3>1. CASE Kill
      BY <3>1 DEF Kill, disk
    <3>2. CASE PowerLoss
      BY <3>2 DEF PowerLoss
    <3>3. QED BY <1>19, <3>1, <3>2 DEF Crash
  <2>2. QED BY <1>19, <2>1 DEF Crash, Ended, counts, Completed, Creating, Committing
<1>20. CASE Elsewhere
  BY <1>20 DEF Elsewhere, ForeignDir, engine, writer, counts, Completed
<1>21. CASE UNCHANGED evars
  BY <1>21 DEF evars, wvars, disk, counts, writer, engine, Completed
<1>22. QED
  BY <1>1, <1>2, <1>3, <1>4, <1>5, <1>6, <1>7, <1>8, <1>9, <1>10, <1>11, <1>12, <1>13,
     <1>14, <1>15, <1>16, <1>17, <1>18, <1>19, <1>20, <1>21 DEF ENext, EngineStep

-----------------------------------------------------------------------------
(* One event more: what changes and how the counts follow                    *)

LEMMA NewEvent ==
  ASSUME EngineTypeOK
  PROVE  /\ \A t \in EventTypes : Event(t) \in EventRecord /\ Event(t).type = t
                                   /\ Event(t).committed = committed
         /\ committed \in Nat /\ overruns \in Nat /\ Len(events) \in Nat
<1>1. committed \in Nat /\ overruns \in Nat
  BY BoundsAssumption DEF EngineTypeOK, TypeOK, CountsOK
<1>2. Len(events) \in Nat
  BY LenProperties DEF EngineTypeOK
<1> QED BY <1>1, <1>2 DEF Event, EventRecord

LEMMA AcceptedFacts ==
  ASSUME EngineTypeOK, NEW t
  PROVE  /\ Accepted(t) = {i \in 1 .. Len(events) : events[i].type = t}
         /\ IsFiniteSet(Accepted(t)) /\ Count(t) \in Nat
<1>1. Len(events) \in Nat /\ DOMAIN events = 1 .. Len(events)
  BY LenProperties DEF EngineTypeOK
<1>2. IsFiniteSet(1 .. Len(events))
  BY <1>1, FS_Interval
<1>3. Accepted(t) \subseteq 1 .. Len(events)
  BY <1>1 DEF Accepted
<1>4. IsFiniteSet(Accepted(t))
  BY <1>2, <1>3, FS_Subset
<1>5. Count(t) \in Nat
  BY <1>4, FS_CardinalityType DEF Count
<1> QED BY <1>1, <1>4, <1>5 DEF Accepted

LEMMA OneMore ==
  ASSUME EngineTypeOK, NEW e \in EventRecord, Accept(e)
  PROVE  /\ events' \in Seq(EventRecord)
         /\ Len(events) \in Nat /\ Len(events') = Len(events) + 1
         /\ \A i \in 1 .. Len(events) : events'[i] = events[i]
         /\ events'[Len(events) + 1] = e
         /\ Accepted(e.type)' = Accepted(e.type) \cup {Len(events) + 1}
         /\ Count(e.type)' = Count(e.type) + 1
         /\ \A t : t # e.type => Accepted(t)' = Accepted(t) /\ Count(t)' = Count(t)
<1>1. /\ events' \in Seq(EventRecord)
      /\ Len(events) \in Nat /\ Len(events') = Len(events) + 1
      /\ \A i \in 1 .. Len(events) : events'[i] = events[i]
      /\ events'[Len(events) + 1] = e
  BY AppendProperties, LenProperties DEF Accept, EngineTypeOK
<1>2. DOMAIN events' = 1 .. Len(events) + 1 /\ DOMAIN events = 1 .. Len(events)
  BY <1>1, LenProperties DEF EngineTypeOK
<1>3. 1 .. Len(events) + 1 = (1 .. Len(events)) \cup {Len(events) + 1}
  BY <1>1
<1>4. Accepted(e.type)' = Accepted(e.type) \cup {Len(events) + 1}
  BY <1>1, <1>2, <1>3 DEF Accepted
<1>5. Len(events) + 1 \notin Accepted(e.type)
  BY <1>1, <1>2 DEF Accepted
<1>6. IsFiniteSet(Accepted(e.type))
  BY AcceptedFacts
<1>7. Count(e.type)' = Count(e.type) + 1
  BY <1>4, <1>5, <1>6, FS_AddElement DEF Count
<1>8. ASSUME NEW t, t # e.type PROVE Accepted(t)' = Accepted(t)
  BY <1>1, <1>2, <1>3, <1>8 DEF Accepted
<1> QED BY <1>1, <1>4, <1>7, <1>8 DEF Count

LEMMA EngineTypeInit == EInit => EngineTypeOK
<1>1. EInit => TypeOK
  BY TypeInit DEF EInit
<1>2. EInit => events \in Seq(EventRecord)
  BY EmptySeq DEF EInit
<1>3. NoOutcome \in [kind : Reasons \cup {"none", "stopped"}, samples : Nat]
  BY DEF NoOutcome
<1>4. ASSUME EInit PROVE EngineTypeOK
  BY <1>1, <1>2, <1>3, <1>4 DEF EInit, EngineTypeOK
<1> QED BY <1>4

LEMMA EngineTypeStep == EngineTypeOK /\ [ENext]_evars => EngineTypeOK'
<1> SUFFICES ASSUME EngineTypeOK, [ENext]_evars PROVE EngineTypeOK'
  OBVIOUS
<1>t. TypeOK'
  BY EngineStepsWriter, TypeStep DEF EngineTypeOK
<1>e. \A t \in EventTypes : Accept(Event(t)) => events' \in Seq(EventRecord)
  BY NewEvent, OneMore
<1>c. committed \in Nat
  BY NewEvent
<1>r. Reasons = {"source", "recording", "analysis", "sink"}
  BY DEF Reasons
<1> USE <1>t, <1>e, <1>r DEF EngineTypeOK, EventTypes
<1>1. CASE RejectConfig \/ CreateWriter
  BY <1>1 DEF RejectConfig, CreateWriter, Goto, ErrorOf
<1>2. CASE EmitStarted \/ EmitSample \/ EmitStopped
  BY <1>2 DEF EmitStarted, EmitSample, EmitStopped, Raise
<1>3. CASE LoopTop \/ AfterSample \/ WaitCheck \/ InTime \/ WaitDeadline \/ RequestCancel
  BY <1>3 DEF LoopTop, AfterSample, WaitCheck, CheckCancel, InTime, WaitDeadline, Goto,
              RequestCancel
<1>4. CASE ReadBits \/ Commit \/ Analyze \/ Complete \/ MarkFailed \/ EmitFailed
  BY <1>4 DEF ReadBits, Commit, Analyze, Complete, MarkFailed, EmitFailed, Raise, Goto
<1>5. CASE Overrun
  <2>1. overruns' \in Nat
    BY BoundsAssumption DEF TypeOK, CountsOK
  <2>2. [Event("overrun") EXCEPT !.overruns = overruns'] \in EventRecord
    BY <2>1, NewEvent DEF EventRecord
  <2>3. Accept([Event("overrun") EXCEPT !.overruns = overruns']) => events' \in Seq(EventRecord)
    BY <2>2, OneMore
  <2> QED BY <1>5, <2>3 DEF Overrun, Raise
<1>6. CASE Return
  BY <1>6, <1>c DEF Return, Goto, Completed, ErrorOf
<1>7. CASE Crash
  BY <1>7 DEF Crash
<1>8. CASE Elsewhere \/ UNCHANGED evars
  BY <1>8 DEF Elsewhere, engine, evars
<1> QED
  BY <1>1, <1>2, <1>3, <1>4, <1>5, <1>6, <1>7, <1>8 DEF ENext, EngineStep

-----------------------------------------------------------------------------
(* The order of the events *)

Over == {"return", "done", "crashed"}

InOrder ==
  /\ events # <<>> => events[1].type \in {"started", "failed"}
  /\ \A i \in 1 .. Len(events) :
       /\ i # 1 => events[i].type # "started"
       /\ events[i].type \in {"stopped", "failed"} => i = Len(events) /\ pc \in Over

LEMMA TellOne ==
  ASSUME EngineTypeOK, ToldInOrder, pc \notin Over,
         NEW e \in EventRecord, Accept(e),
         events = <<>> => e.type \in {"started", "failed"},
         events # <<>> => e.type # "started",
         e.type \in {"stopped", "failed"} => pc' \in Over
  PROVE  /\ InOrder'
         /\ events' # <<>>
         /\ events # <<>> => events'[1] = events[1]
         /\ events = <<>> => events'[1] = e
<1>1. /\ Len(events) \in Nat /\ Len(events') = Len(events) + 1
      /\ \A i \in 1 .. Len(events) : events'[i] = events[i]
      /\ events'[Len(events) + 1] = e
      /\ events' \in Seq(EventRecord)
  BY OneMore
<1>2. /\ events = <<>> <=> Len(events) = 0
      /\ events' = <<>> <=> Len(events') = 0
  BY <1>1, EmptySeq DEF EngineTypeOK
<1>3. events' # <<>>
  BY <1>1, <1>2
<1>4. (events # <<>> => events'[1] = events[1]) /\ (events = <<>> => events'[1] = e)
  BY <1>1, <1>2
<1>5. events' # <<>> => events'[1].type \in {"started", "failed"}
  BY <1>4 DEF ToldInOrder
<1>6. ASSUME NEW i \in 1 .. Len(events')
      PROVE  /\ i # 1 => events'[i].type # "started"
             /\ events'[i].type \in {"stopped", "failed"} => i = Len(events') /\ pc' \in Over
  <2>1. CASE i \in 1 .. Len(events)
    BY <1>1, <2>1 DEF ToldInOrder, Over
  <2>2. CASE i = Len(events) + 1
    BY <1>1, <1>2, <2>2
  <2> QED BY <1>1, <2>1, <2>2
<1> QED BY <1>3, <1>4, <1>5, <1>6 DEF InOrder

LEMMA ToldStep == EngineTypeOK /\ Places /\ ToldInOrder /\ [ENext]_evars => ToldInOrder'
<1> SUFFICES ASSUME EngineTypeOK, Places, ToldInOrder, [ENext]_evars PROVE ToldInOrder'
  OBVIOUS
<1> USE DEF Working
<1>1. ASSUME UNCHANGED events, pc \in Over => pc' \in Over,
             pc' \in {"create", "emitStarted"} => pc \in {"create", "emitStarted"},
             pc' \in Working \cup {"stop", "emitStopped"} \/ (pc' = "return" /\ err' = "none") =>
               pc \in Working \cup {"stop", "emitStopped"} \/ (pc = "return" /\ err = "none")
      PROVE  ToldInOrder'
  BY <1>1 DEF ToldInOrder, Over
<1>2. ASSUME NEW e \in EventRecord, Accept(e), pc \notin Over,
             events = <<>> => e.type \in {"started", "failed"},
             events # <<>> => e.type # "started",
             e.type \in {"stopped", "failed"} => pc' \in Over,
             pc' \notin {"create", "emitStarted"},
             pc' \in Working \cup {"stop", "emitStopped"} \/ (pc' = "return" /\ err' = "none") =>
               IF events = <<>> THEN e.type = "started" ELSE events[1].type = "started"
      PROVE  ToldInOrder'
  <2>1. /\ InOrder'
        /\ events' # <<>>
        /\ events # <<>> => events'[1] = events[1]
        /\ events = <<>> => events'[1] = e
    BY <1>2, TellOne
  <2> QED BY <1>2, <2>1 DEF ToldInOrder, InOrder, Over
<1>3. CASE RejectConfig \/ CreateWriter
  BY <1>1, <1>3 DEF RejectConfig, CreateWriter, Goto, Over
<1>4. \A t \in EventTypes : Event(t) \in EventRecord /\ Event(t).type = t
  BY NewEvent
<1>5. CASE EmitStarted
  <2>1. CASE Accept(Event("started")) /\ pc' = "loop"
    BY <1>2, <1>4, <1>5, <2>1 DEF EmitStarted, ToldInOrder, Over, EventTypes
  <2>2. CASE UNCHANGED events /\ pc' = "fail"
    BY <1>1, <1>5, <2>2 DEF EmitStarted, Over
  <2> QED BY <1>5, <2>1, <2>2 DEF EmitStarted, Raise
<1>6. CASE EmitSample
  <2>1. CASE Accept(Event("sample")) /\ pc' = "check"
    BY <1>2, <1>4, <1>6, <2>1 DEF EmitSample, ToldInOrder, Over, EventTypes
  <2>2. CASE UNCHANGED events /\ pc' = "fail"
    BY <1>1, <1>6, <2>2 DEF EmitSample, Over
  <2> QED BY <1>6, <2>1, <2>2 DEF EmitSample, Raise
<1>7. CASE Overrun
  <2>1. CASE Accept([Event("overrun") EXCEPT !.overruns = overruns']) /\ pc' = "loop"
    <3> DEFINE e == [Event("overrun") EXCEPT !.overruns = overruns']
    <3>1. TypeOK'
      BY EngineStepsWriter, TypeStep DEF EngineTypeOK
    <3>2. overruns' \in Nat
      BY <3>1, BoundsAssumption DEF TypeOK, CountsOK
    <3>3. e \in EventRecord /\ e.type = "overrun"
      BY <1>4, <3>2 DEF EventRecord, EventTypes, Event
    <3> QED BY <1>2, <1>7, <2>1, <3>3 DEF Overrun, ToldInOrder, Over
  <2>2. CASE UNCHANGED events /\ pc' = "fail"
    BY <1>1, <1>7, <2>2 DEF Overrun, Over
  <2> QED BY <1>7, <2>1, <2>2 DEF Overrun, Raise
<1>8. CASE EmitStopped
  <2>1. CASE Accept(Event("stopped")) /\ pc' = "return"
    BY <1>2, <1>4, <1>8, <2>1 DEF EmitStopped, ToldInOrder, Over, EventTypes
  <2>2. CASE UNCHANGED events /\ pc' = "fail"
    BY <1>1, <1>8, <2>2 DEF EmitStopped, Over
  <2> QED BY <1>8, <2>1, <2>2 DEF EmitStopped, Raise
<1>9. CASE EmitFailed
  <2>0. pc' = "return" /\ err' # "none"
    BY <1>9 DEF EmitFailed, Goto, Places
  <2>1. CASE Accept(Event("failed"))
    BY <1>2, <1>4, <1>9, <2>0, <2>1 DEF EmitFailed, Goto, Over, EventTypes
  <2>2. CASE UNCHANGED events
    BY <1>1, <1>9, <2>0, <2>2 DEF EmitFailed, Goto, Over
  <2> QED BY <1>9, <2>1, <2>2 DEF EmitFailed
<1>10. CASE LoopTop \/ AfterSample \/ WaitCheck \/ InTime \/ WaitDeadline \/ RequestCancel
  BY <1>1, <1>10 DEF LoopTop, AfterSample, WaitCheck, CheckCancel, InTime, WaitDeadline, Goto,
              RequestCancel, Over
<1>11. CASE ReadBits \/ Commit \/ Analyze \/ Complete \/ MarkFailed
  BY <1>1, <1>11 DEF ReadBits, Commit, Analyze, Complete, MarkFailed, Raise, Goto, Over
<1>12. CASE Return \/ Crash
  BY <1>1, <1>12 DEF Return, Crash, Goto, Over
<1>13. CASE Elsewhere \/ UNCHANGED evars
  BY <1>1, <1>13 DEF Elsewhere, engine, evars
<1> QED
  BY <1>3, <1>5, <1>6, <1>7, <1>8, <1>9, <1>10, <1>11, <1>12, <1>13 DEF ENext, EngineStep

-----------------------------------------------------------------------------
(* The numbers of the samples announced *)

LEMMA AckedFacts ==
  ASSUME WriterInv
  PROVE  /\ Len(acked) \in Nat /\ committed = Len(acked)
         /\ \A s \in Capture : Len(Append(acked, s)) = Len(acked) + 1
<1>1. acked \in Seq(Capture)
  BY DEF WriterInv, TypeOK, CountsOK
<1> QED BY <1>1, AppendProperties, LenProperties DEF WriterInv, Core, Memory

LEMMA AnotherSample ==
  ASSUME EngineTypeOK, WriterInv, Numbered, NEW e \in EventRecord, Accept(e),
         e.type = "sample", e.committed = Len(acked), Count("sample") = Len(acked) - 1
  PROVE  /\ {events'[i].committed : i \in Accepted("sample")'} = 1 .. Count("sample")'
         /\ \A i, j \in Accepted("sample")' :
              i < j => events'[i].committed < events'[j].committed
         /\ Count("sample")' = Len(acked) /\ Count("overrun")' = Count("overrun")
<1>1. /\ Len(events) \in Nat /\ events'[Len(events) + 1] = e
      /\ \A i \in 1 .. Len(events) : events'[i] = events[i]
      /\ Accepted("sample")' = Accepted("sample") \cup {Len(events) + 1}
      /\ Count("sample")' = Count("sample") + 1
      /\ Count("overrun")' = Count("overrun")
  BY OneMore
<1>2. Len(acked) \in Nat /\ Count("sample") \in Nat
  BY AckedFacts, AcceptedFacts
<1>3. \A i \in Accepted("sample") : i \in 1 .. Len(events)
  BY AcceptedFacts
<1>4. \A i \in Accepted("sample") : events'[i] = events[i]
  BY <1>1, <1>3
<1>5. {events[i].committed : i \in Accepted("sample")} = 1 .. Count("sample")
  BY DEF Numbered
<1>6. {events'[i].committed : i \in Accepted("sample")'}
        = {events[i].committed : i \in Accepted("sample")} \cup {Len(acked)}
  BY <1>1, <1>4
<1>7. 1 .. Len(acked) = (1 .. Count("sample")) \cup {Len(acked)}
  BY <1>2
<1>8. Count("sample")' = Len(acked)
  BY <1>1, <1>2
<1>9. {events'[i].committed : i \in Accepted("sample")'} = 1 .. Count("sample")'
  BY <1>5, <1>6, <1>7, <1>8
<1>10. ASSUME NEW i \in Accepted("sample")', NEW j \in Accepted("sample")', i < j
       PROVE  events'[i].committed < events'[j].committed
  <2>1. CASE i \in Accepted("sample") /\ j \in Accepted("sample")
    BY <1>4, <1>10, <2>1 DEF Numbered
  <2>2. CASE i \in Accepted("sample") /\ j = Len(events) + 1
    <3>1. events[i].committed \in 1 .. Count("sample")
      BY <1>5, <2>2
    <3>2. events'[j].committed = Len(acked)
      BY <1>1, <2>2
    <3> QED BY <1>2, <1>4, <2>2, <3>1, <3>2
  <2>3. CASE i = Len(events) + 1
    <3>1. j \in Accepted("sample") \/ j = Len(events) + 1
      BY <1>1
    <3> QED BY <1>1, <1>3, <1>10, <2>3, <3>1
  <2> QED BY <1>1, <2>1, <2>2, <2>3
<1> QED BY <1>1, <1>8, <1>9, <1>10

Open   == Unfinished \cup {"emitStopped"}
Behind == {"analyze", "emitSample"}

LEMMA NumberedStep ==
  EngineTypeOK /\ WriterInv /\ Places /\ Numbered /\ [ENext]_evars => Numbered'
<1> SUFFICES ASSUME EngineTypeOK, WriterInv, Places, Numbered, [ENext]_evars
             PROVE  Numbered'
  OBVIOUS
<1> USE DEF Open, Behind, Unfinished, Working
<1>0. /\ Len(acked) \in Nat /\ committed = Len(acked)
      /\ Count("sample") \in Nat /\ Count("overrun") \in Nat
  BY AckedFacts, AcceptedFacts
<1>1. ASSUME UNCHANGED <<events, acked, overruns>>,
             pc' \in Behind => pc \in Behind,
             pc' \in Open \ Behind => pc \in Open \ Behind
      PROVE  Numbered'
  <2>1. \A t : Accepted(t)' = Accepted(t) /\ Count(t)' = Count(t)
    BY <1>1 DEF Accepted, Count
  <2> QED BY <1>1, <2>1 DEF Numbered
<1>2. ASSUME NEW e \in EventRecord, Accept(e), e.type \notin {"sample", "overrun"},
             UNCHANGED <<acked, overruns>>, pc \in Open \ Behind \/ pc' \notin Open,
             pc' \notin Behind
      PROVE  Numbered'
  <2>1. /\ Accepted("sample")' = Accepted("sample") /\ Count("sample")' = Count("sample")
        /\ Count("overrun")' = Count("overrun")
    BY <1>2, OneMore
  <2>2. \A i \in Accepted("sample") : events'[i] = events[i]
    BY <1>2, OneMore, AcceptedFacts
  <2>3. {events'[i].committed : i \in Accepted("sample")'} = 1 .. Count("sample")'
    BY <2>1, <2>2 DEF Numbered
  <2>4. \A i, j \in Accepted("sample")' : i < j => events'[i].committed < events'[j].committed
    BY <2>1, <2>2 DEF Numbered
  <2> QED BY <1>2, <2>1, <2>3, <2>4 DEF Numbered
<1>3. \A t \in EventTypes : Event(t) \in EventRecord /\ Event(t).type = t
                            /\ Event(t).committed = committed
  BY NewEvent
<1>4. CASE RejectConfig \/ CreateWriter
  BY <1>1, <1>4, CreateMoves DEF RejectConfig, CreateWriter, Goto, counts
<1>5. CASE EmitStarted
  <2>1. CASE Accept(Event("started")) /\ pc' = "loop"
    BY <1>2, <1>3, <1>5, <2>1 DEF EmitStarted, EventTypes, wvars, counts
  <2>2. CASE UNCHANGED events /\ pc' = "fail"
    BY <1>1, <1>5, <2>2 DEF EmitStarted, wvars, counts
  <2> QED BY <1>5, <2>1, <2>2 DEF EmitStarted, Raise
<1>6. CASE EmitSample
  <2>1. CASE Accept(Event("sample")) /\ pc' = "check"
    <3>1. UNCHANGED <<acked, overruns>> /\ pc = "emitSample"
      BY <1>6 DEF EmitSample, wvars, counts
    <3>2. Count("sample") = Len(acked) - 1 /\ overruns <= Count("overrun")
      BY <3>1 DEF Numbered
    <3>3. /\ {events'[i].committed : i \in Accepted("sample")'} = 1 .. Count("sample")'
          /\ \A i, j \in Accepted("sample")' :
               i < j => events'[i].committed < events'[j].committed
          /\ Count("sample")' = Len(acked) /\ Count("overrun")' = Count("overrun")
      BY <1>0, <1>3, <2>1, <3>2, AnotherSample DEF EventTypes
    <3> QED BY <2>1, <3>1, <3>2, <3>3 DEF Numbered
  <2>2. CASE UNCHANGED events /\ pc' = "fail"
    BY <1>1, <1>6, <2>2 DEF EmitSample, wvars, counts
  <2> QED BY <1>6, <2>1, <2>2 DEF EmitSample, Raise
<1>7. CASE Overrun
  <2>0. pc = "timing" /\ UNCHANGED acked
    BY <1>7 DEF Overrun, AddOverrun
  <2>1. CASE Accept([Event("overrun") EXCEPT !.overruns = overruns']) /\ pc' = "loop"
    <3> DEFINE e == [Event("overrun") EXCEPT !.overruns = overruns']
    <3>1. TypeOK'
      BY EngineStepsWriter, TypeStep DEF EngineTypeOK
    <3>2. overruns' \in Nat /\ overruns \in Nat /\ overruns' <= overruns + 1
      BY <1>7, <3>1, BoundsAssumption DEF EngineTypeOK, TypeOK, CountsOK, Overrun, AddOverrun
    <3>3. e \in EventRecord /\ e.type = "overrun"
      BY <1>3, <3>2 DEF EventRecord, EventTypes, Event
    <3>4. /\ Accepted("sample")' = Accepted("sample") /\ Count("sample")' = Count("sample")
          /\ Count("overrun")' = Count("overrun") + 1
          /\ \A i \in 1 .. Len(events) : events'[i] = events[i]
      BY <2>1, <3>3, OneMore
    <3>5. \A i \in Accepted("sample") : events'[i] = events[i]
      BY <3>4, AcceptedFacts
    <3>6. {events'[i].committed : i \in Accepted("sample")'} = 1 .. Count("sample")'
      BY <3>4, <3>5 DEF Numbered
    <3>7. \A i, j \in Accepted("sample")' : i < j => events'[i].committed < events'[j].committed
      BY <3>4, <3>5 DEF Numbered
    <3>8. overruns <= Count("overrun") /\ Count("sample") = Len(acked)
      BY <2>0 DEF Numbered
    <3>9. overruns' <= Count("overrun")'
      BY <1>0, <3>2, <3>4, <3>8
    <3> QED BY <2>0, <2>1, <3>4, <3>6, <3>7, <3>8, <3>9 DEF Numbered
  <2>2. CASE UNCHANGED events /\ pc' = "fail"
    BY <2>0, <2>2 DEF Numbered, Accepted, Count
  <2> QED BY <1>7, <2>1, <2>2 DEF Overrun, Raise
<1>8. CASE EmitStopped
  <2>1. CASE Accept(Event("stopped")) /\ pc' = "return"
    BY <1>2, <1>3, <1>8, <2>1 DEF EmitStopped, EventTypes, wvars, counts
  <2>2. CASE UNCHANGED events /\ pc' = "fail"
    BY <1>1, <1>8, <2>2 DEF EmitStopped, wvars, counts
  <2> QED BY <1>8, <2>1, <2>2 DEF EmitStopped, Raise
<1>9. CASE EmitFailed
  <2>1. CASE Accept(Event("failed"))
    BY <1>2, <1>3, <1>9, <2>1 DEF EmitFailed, Goto, EventTypes, wvars, counts
  <2>2. CASE UNCHANGED events
    BY <1>1, <1>9, <2>2 DEF EmitFailed, Goto, wvars, counts
  <2> QED BY <1>9, <2>1, <2>2 DEF EmitFailed
<1>10. CASE Commit
  <2>1. pc = "commit" /\ UNCHANGED <<events, overruns>>
    BY <1>10, CommitMoves DEF Commit
  <2>2. CASE pc' = "analyze" /\ wpc' = "idle" /\ ret' = "ok"
    <3>1. wpc = "syncCsv" /\ acked' = Append(acked, sample)
      BY <1>10, <2>2, CommitMoves DEF Commit
    <3>2. sample \in Capture
      BY <3>1 DEF WriterInv, Core, Progress, Committing
    <3>3. Len(acked') = Len(acked) + 1
      BY <3>1, <3>2, AckedFacts
    <3>4. Count("sample")' = Len(acked') - 1
      BY <1>0, <2>1, <3>3 DEF Numbered, Count, Accepted
    <3> QED BY <2>1, <2>2, <3>4 DEF Numbered, Count, Accepted
  <2>3. CASE ~(wpc' = "idle" /\ ret' = "ok") /\ pc' \in {"commit", "fail"}
    <3>1. UNCHANGED acked
      BY <1>10, <2>3, CommitMoves DEF Commit
    <3> QED BY <1>1, <2>1, <2>3, <3>1
  <2> QED BY <1>10, <2>1, <2>2, <2>3 DEF Commit, Raise
<1>11. CASE LoopTop \/ AfterSample \/ WaitCheck \/ InTime \/ WaitDeadline \/ RequestCancel
  BY <1>1, <1>11 DEF LoopTop, AfterSample, WaitCheck, CheckCancel, InTime, WaitDeadline, Goto,
              RequestCancel, wvars, counts
<1>12. CASE ReadBits \/ Analyze
  BY <1>1, <1>12 DEF ReadBits, BeginCommit, Analyze, Raise, wvars, counts
<1>13. CASE Complete \/ MarkFailed
  BY <1>1, <1>13 DEF Complete, MarkFailed, FinalizeCompleted, FinalizeFailed, Finalize, Raise,
              Goto, counts
<1>14. CASE Return
  BY <1>1, <1>14 DEF Return, DropWriter, Goto, counts
<1>15. CASE Crash
  BY <1>1, <1>15 DEF Crash, Kill, PowerLoss, counts
<1>16. CASE Elsewhere \/ UNCHANGED evars
  BY <1>1, <1>16 DEF Elsewhere, ForeignDir, engine, evars, wvars, counts
<1> QED
  BY <1>4, <1>5, <1>6, <1>7, <1>8, <1>9, <1>10, <1>11, <1>12, <1>13, <1>14, <1>15, <1>16
     DEF ENext, EngineStep

-----------------------------------------------------------------------------
(* What is on disk *)

LEMMA CleanFacts ==
  ASSUME WriterInv
  PROVE  /\ Clean <=> /\ Len(bin) = Len(acked) /\ binTail = "clean"
                     /\ Len(csv) = Len(acked) /\ csvTail = "clean" /\ buffer = <<>>
         /\ next.offset = Len(acked)
BY DEF WriterInv, Core, Memory, Clean, AtExpectedOffset, Even

(* with nothing left behind, nothing can be lost or written late *)
LEMMA CleanStays ==
  ASSUME WriterInv, Clean, PowerLoss \/ Kill \/ DropWriter
  PROVE  Clean'
<1>1. /\ Len(bin) = Len(acked) /\ binTail = "clean"
      /\ Len(csv) = Len(acked) /\ csvTail = "clean" /\ buffer = <<>>
      /\ next.offset = Len(acked)
  BY CleanFacts
<1>2. /\ Len(csv) = csvSynced /\ Len(bin) = binSynced
      /\ bin \in Seq(Capture) /\ csv \in Seq(Row)
  <2>1. TypeOK /\ CsvIsBacked /\ Len(acked) <= csvSynced
    BY DEF WriterInv, Core, AckedIsDurable
  <2> QED BY <1>1, <2>1, Lengths, RowsSynced DEF TypeOK, BinOK, CsvOK
<1>3. CASE PowerLoss
  <2>1. PICK b \in binSynced .. Len(bin) :
          bin' = SubSeq(bin, 1, b) /\ binTail' \in Remains(binTail, b < Len(bin))
    BY <1>3 DEF PowerLoss
  <2>2. PICK c \in csvSynced .. Len(csv) :
          csv' = SubSeq(csv, 1, c) /\ csvTail' \in Remains(csvTail, c < Len(csv))
    BY <1>3 DEF PowerLoss
  <2>3. b = Len(bin) /\ c = Len(csv) /\ Len(bin) \in Nat /\ Len(csv) \in Nat
    BY <1>2, <2>1, <2>2, LenProperties
  <2>4. bin' = bin /\ csv' = csv
    BY <1>2, <2>1, <2>2, <2>3, SubSeqFull
  <2>5. binTail' = "clean" /\ csvTail' = "clean"
    BY <1>1, <2>1, <2>2, <2>3 DEF Remains
  <2> QED BY <1>1, <1>3, <2>4, <2>5 DEF PowerLoss, counts, Clean, AtExpectedOffset, Even
<1>4. CASE Kill
  BY <1>1, <1>4 DEF Kill, disk, counts, Clean, AtExpectedOffset, Even
<1>5. CASE DropWriter
  <2>1. csv \o buffer = csv
    BY <1>1, <1>2, ConcatEmptySeq
  <2> QED BY <1>1, <1>5, <2>1 DEF DropWriter, counts, Clean, AtExpectedOffset, Even
<1> QED BY <1>3, <1>4, <1>5

LEMMA CommitCleans ==
  ASSUME WriterInv, Recorded, CommitStep
  PROVE  /\ wpc' = "syncCsv" => Ahead'
         /\ wpc' = "idle" /\ ret' = "ok" => Clean'
<1>1. CASE FlushCsv
  BY <1>1 DEF FlushCsv, GoOn, ReturnErr, counts, WriterInv, Core, Progress, Ahead
<1>2. CASE SyncCsv
  <2>1. Ahead /\ Len(csv) = Len(acked) + 1 /\ buffer = <<>> /\ csvTail = "clean"
    BY <1>2 DEF SyncCsv, Recorded, WriterInv, Core, Progress
  <2>2. next.offset = Len(acked) /\ sample \in Capture
    BY <1>2 DEF SyncCsv, WriterInv, Core, Memory, Progress, Committing
  <2>3. Len(Append(acked, sample)) = Len(acked) + 1
    BY <2>2, AckedFacts
  <2>4. CASE wpc' = "idle" /\ ret' = "ok"
    <3>1. next'.offset = next.offset + 1 /\ acked' = Append(acked, sample)
      BY <1>2, <2>4 DEF SyncCsv, ReturnErr
    <3> QED BY <1>2, <2>1, <2>2, <2>3, <3>1 DEF SyncCsv, Clean, AtExpectedOffset, Even, Ahead
  <2> QED BY <1>2, <2>4 DEF SyncCsv, ReturnErr
<1>3. CASE Validate \/ AppendBin \/ SyncBin \/ AppendCsv
  BY <1>3 DEF Validate, AppendBin, SyncBin, AppendCsv, GoOn, ReturnErr
<1> QED BY <1>1, <1>2, <1>3 DEF CommitStep

(* where nothing may be left behind the last reported sample *)
CleanAt == (Between \cap Unfinished) \cup {"emitStopped"}

AllRecording == \A i \in 1 .. Len(manifests) : manifests[i].status = "recording"

Whole(manifest) ==
  /\ cancel /\ Clean
  /\ Count("sample") = Len(acked)
  /\ manifest.committed = Len(acked)
  /\ manifest.overruns <= Count("overrun")

LEMMA RecordedParts ==
  Recorded <=> /\ pc \in CleanAt => Clean
               /\ pc = "commit" /\ wpc = "validate" => Clean
               /\ wpc = "syncCsv" => Ahead
               /\ pc \in Unfinished => AllRecording
               /\ \A i \in 1 .. Len(manifests) :
                    manifests[i].status = "completed" => Whole(manifests[i])
BY DEF Recorded, CleanAt, AllRecording, Whole

LEMMA PublishedFacts ==
  ASSUME WriterInv, NEW st \in Status, manifests' = Append(manifests, Version(st))
  PROVE  /\ Len(manifests) \in Nat /\ Len(manifests') = Len(manifests) + 1
         /\ \A i \in 1 .. Len(manifests) : manifests'[i] = manifests[i]
         /\ manifests'[Len(manifests) + 1] = Version(st)
<1>1. manifests \in Seq(Manifest) /\ Version(st) \in Manifest
  BY BoundsAssumption DEF WriterInv, TypeOK, ManifestsOK, CountsOK, Version, Manifest
<1> QED BY <1>1, AppendProperties, LenProperties

LEMMA RecordedStep ==
  EngineTypeOK /\ WriterInv /\ Places /\ Numbered /\ Recorded /\ [ENext]_evars => Recorded'
<1> SUFFICES ASSUME EngineTypeOK, WriterInv, Places, Numbered, Recorded, [ENext]_evars
             PROVE  Recorded'
  OBVIOUS
<1> DEFINE Files == <<bin, binTail, csv, csvTail, buffer, next, acked>>
<1>a. /\ pc \in CleanAt => Clean
      /\ pc = "commit" /\ wpc = "validate" => Clean
      /\ wpc = "syncCsv" => Ahead
      /\ pc \in Unfinished => AllRecording
      /\ \A i \in 1 .. Len(manifests) :
           manifests[i].status = "completed" => Whole(manifests[i])
  BY RecordedParts
<1>b. ASSUME /\ pc' \in CleanAt => Clean'
             /\ pc' = "commit" /\ wpc' = "validate" => Clean'
             /\ wpc' = "syncCsv" => Ahead'
             /\ pc' \in Unfinished => AllRecording'
             /\ \A i \in 1 .. Len(manifests') :
                  manifests'[i].status = "completed" => Whole(manifests[i])'
      PROVE  Recorded'
  BY <1>b DEF Recorded, CleanAt, AllRecording, Whole
<1>c. UNCHANGED events => Count("sample")' = Count("sample") /\ Count("overrun")' = Count("overrun")
  BY DEF Count, Accepted
<1>d. UNCHANGED Files => Clean' = Clean /\ Ahead' = Ahead
  BY DEF Clean, AtExpectedOffset, Even, Ahead
<1>e. ASSUME UNCHANGED Files, UNCHANGED manifests, cancel => cancel',
             pc \in Unfinished \/ (/\ Count("sample")' = Count("sample")
                                  /\ Count("overrun")' = Count("overrun")),
             pc' \in CleanAt => Clean, pc' = "commit" /\ wpc' = "validate" => Clean,
             pc' \in Unfinished => pc \in Unfinished, wpc' = "syncCsv" => wpc = "syncCsv"
      PROVE  Recorded'
  <2>1. ASSUME NEW i \in 1 .. Len(manifests'), manifests'[i].status = "completed"
        PROVE  Whole(manifests[i])'
    <3>1. i \in 1 .. Len(manifests) /\ manifests[i].status = "completed"
      BY <1>e, <2>1
    <3>2. pc \notin Unfinished
      BY <1>a, <3>1 DEF AllRecording
    <3>3. Whole(manifests[i])
      BY <1>a, <3>1
    <3> QED BY <1>d, <1>e, <3>2, <3>3 DEF Whole
  <2>2. AllRecording' = AllRecording
    BY <1>e DEF AllRecording
  <2> QED BY <1>a, <1>b, <1>d, <1>e, <2>1, <2>2
<1> HIDE DEF Files
<1>f. UNCHANGED <<disk, counts>> /\ UNCHANGED buffer => UNCHANGED Files /\ UNCHANGED manifests
  BY DEF Files, disk, counts
<1> USE DEF CleanAt, Between, Unfinished, Working
<1>g. UNCHANGED wvars => UNCHANGED Files /\ UNCHANGED manifests /\ UNCHANGED wpc
  BY DEF Files, wvars, disk, counts, writer
<1>1. CASE RejectConfig
  <2>1. UNCHANGED Files /\ UNCHANGED manifests
    BY <1>f, <1>1 DEF RejectConfig
  <2> QED BY <1>c, <1>e, <1>1, <2>1 DEF RejectConfig, Goto, CreateFails
<1>2. CASE CreateWriter
  <2>0. UNCHANGED events /\ pc = "create"
    BY <1>2 DEF CreateWriter
  <2>1. /\ \/ wpc' \in Creating /\ UNCHANGED pc
           \/ wpc' = "idle" /\ pc' = "emitStarted"
           \/ wpc' = "closed" /\ pc' = "done"
        /\ manifests' = manifests \/ manifests' = Append(manifests, Version("recording"))
        /\ manifests = <<>> /\ Clean /\ UNCHANGED Files
    <3>1. Create
      BY <1>2 DEF CreateWriter
    <3>2. UNCHANGED Files
      BY <3>1, CreateMoves DEF Files, counts
    <3>3. \/ wpc' \in Creating \/ wpc' = "closed" \/ wpc' = "idle"
      BY <3>1, CreateMoves
    <3>4. manifests = <<>> /\ Clean
      BY <3>1, CreateMoves
    <3>5. manifests' = manifests \/ manifests' = Append(manifests, Version("recording"))
      BY <3>1, <3>3, <3>4, CreateMoves DEF Creating
    <3> QED BY <1>2, <3>2, <3>4, <3>5 DEF CreateWriter
  <2>2. AllRecording'
    <3>1. CASE manifests' = manifests
      BY <1>a, <2>0, <3>1 DEF AllRecording
    <3>2. CASE manifests' = Append(manifests, Version("recording"))
      BY <1>a, <2>0, <3>2, PublishedFacts DEF AllRecording, Version, Status
    <3> QED BY <2>1, <3>1, <3>2
  <2>3. \A i \in 1 .. Len(manifests') : manifests'[i].status # "completed"
    BY <2>2 DEF AllRecording
  <2> QED BY <1>b, <1>d, <2>0, <2>1, <2>2, <2>3 DEF Creating
<1>3. CASE Commit
  <2>1. pc = "commit" /\ UNCHANGED manifests /\ wpc' # "validate"
    BY <1>3, CommitMoves DEF Commit, Committing
  <2>2. AllRecording'
    BY <1>a, <2>1 DEF AllRecording
  <2>3. \A i \in 1 .. Len(manifests') : manifests'[i].status # "completed"
    BY <2>2 DEF AllRecording
  <2>4. pc' \in {"commit", "fail"} \/ (pc' = "analyze" /\ wpc' = "idle" /\ ret' = "ok")
    BY <1>3 DEF Commit, Raise
  <2>5. wpc' = "syncCsv" => Ahead'
    BY <1>3, CommitCleans DEF Commit
  <2>6. pc' = "analyze" => Clean'
    BY <1>3, <2>4, CommitCleans DEF Commit
  <2> QED BY <1>b, <2>1, <2>2, <2>3, <2>4, <2>5, <2>6
<1>4. CASE ReadBits
  <2>1. UNCHANGED Files /\ UNCHANGED manifests /\ pc = "read" /\ Clean
    BY <1>a, <1>4, <1>f, <1>g DEF ReadBits, BeginCommit
  <2> QED BY <1>e, <1>4, <2>1 DEF ReadBits, BeginCommit, Raise, wvars, writer
<1>5. CASE EmitStarted \/ Analyze \/ EmitSample \/ LoopTop \/ AfterSample \/ InTime
           \/ WaitCheck \/ WaitDeadline
  <2>1. UNCHANGED wvars /\ UNCHANGED cancel /\ pc \in CleanAt \cap Unfinished
    BY <1>5 DEF EmitStarted, Analyze, EmitSample, LoopTop, AfterSample, InTime, WaitCheck,
                WaitDeadline, CheckCancel, Goto
  <2>2. pc' # "commit" /\ pc' \in Unfinished \cup {"fail"}
    BY <1>5 DEF EmitStarted, Analyze, EmitSample, LoopTop, AfterSample, InTime, WaitCheck,
                WaitDeadline, CheckCancel, Goto, Raise
  <2> QED BY <1>a, <1>e, <1>g, <2>1, <2>2
<1>6. CASE Overrun
  <2>1. /\ UNCHANGED Files /\ UNCHANGED manifests /\ UNCHANGED <<wpc, cancel>>
        /\ pc = "timing" /\ pc' \in {"loop", "fail"}
    BY <1>6 DEF Overrun, AddOverrun, Raise, disk, writer, Files
  <2> QED BY <1>a, <1>e, <2>1
<1>7. CASE Complete
  <2>1. /\ UNCHANGED Files /\ UNCHANGED <<wpc, cancel, events, counts>> /\ wpc = "idle"
        /\ pc = "stop" /\ Clean /\ AllRecording
    BY <1>a, <1>7 DEF Complete, FinalizeCompleted, Finalize, counts, Files
  <2>2. CASE pc' = "fail" /\ UNCHANGED manifests
    BY <1>c, <1>e, <2>1, <2>2
  <2>3. CASE pc' = "emitStopped" /\ manifests' = Append(manifests, Version("completed"))
    <3>1. /\ Len(manifests) \in Nat /\ Len(manifests') = Len(manifests) + 1
          /\ \A i \in 1 .. Len(manifests) : manifests'[i] = manifests[i]
          /\ manifests'[Len(manifests) + 1] = Version("completed")
      BY <2>3, PublishedFacts DEF Status
    <3>2. Count("sample") = Len(acked) /\ overruns <= Count("overrun") /\ cancel
      BY <2>1 DEF Numbered, Places
    <3>3. ASSUME NEW i \in 1 .. Len(manifests'), manifests'[i].status = "completed"
          PROVE  Whole(manifests[i])'
      <4>1. CASE i \in 1 .. Len(manifests)
        BY <2>1, <3>1, <3>3, <4>1 DEF AllRecording
      <4>2. CASE i = Len(manifests) + 1
        <5>1. manifests'[i].committed = Len(acked) /\ manifests'[i].overruns = overruns
          BY <3>1, <4>2, AckedFacts DEF Version
        <5> QED BY <1>c, <1>d, <2>1, <3>2, <5>1 DEF Whole, counts
      <4> QED BY <3>1, <4>1, <4>2
    <3> QED BY <1>b, <1>d, <2>1, <2>3, <3>3
  <2> QED BY <1>7, <2>2, <2>3 DEF Complete, FinalizeCompleted, Finalize, Publish, Raise
<1>8. CASE MarkFailed
  <2>1. /\ UNCHANGED Files /\ UNCHANGED <<wpc, cancel, events>> /\ wpc = "idle"
        /\ pc = "fail" /\ pc' = "emitFailed"
    BY <1>8 DEF MarkFailed, FinalizeFailed, Finalize, counts, Files, Goto
  <2>2. CASE UNCHANGED manifests
    BY <1>c, <1>e, <2>1, <2>2
  <2>3. CASE manifests' = Append(manifests, Version("failed"))
    <3>1. /\ Len(manifests) \in Nat /\ Len(manifests') = Len(manifests) + 1
          /\ \A i \in 1 .. Len(manifests) : manifests'[i] = manifests[i]
          /\ manifests'[Len(manifests) + 1] = Version("failed")
      BY <2>3, PublishedFacts DEF Status
    <3>2. ASSUME NEW i \in 1 .. Len(manifests'), manifests'[i].status = "completed"
          PROVE  Whole(manifests[i])'
      <4>1. i \in 1 .. Len(manifests)
        BY <3>1, <3>2 DEF Version
      <4>2. Whole(manifests[i]) /\ manifests'[i] = manifests[i]
        BY <1>a, <3>1, <3>2, <4>1
      <4> QED BY <1>c, <1>d, <2>1, <4>2 DEF Whole, Files
    <3> QED BY <1>b, <1>d, <2>1, <2>3, <3>2
  <2> QED BY <1>8, <2>2, <2>3 DEF MarkFailed, FinalizeFailed, Finalize, Publish
<1>9. CASE EmitStopped \/ EmitFailed
  <2>1. /\ UNCHANGED wvars /\ UNCHANGED cancel /\ pc' \in {"return", "fail"}
        /\ \/ UNCHANGED events
           \/ \E t \in {"stopped", "failed"} : Accept(Event(t))
    BY <1>9 DEF EmitStopped, EmitFailed, Goto, Raise
  <2>2. Count("sample")' = Count("sample") /\ Count("overrun")' = Count("overrun")
    <3>1. \A t \in {"stopped", "failed"} : Event(t) \in EventRecord /\ Event(t).type = t
      BY NewEvent DEF EventTypes
    <3> QED BY <1>c, <2>1, <3>1, OneMore
  <2> QED BY <1>e, <1>g, <2>1, <2>2
<1>10. CASE Return
  <2>1. wpc' = "closed" /\ pc' = "done" /\ UNCHANGED <<manifests, cancel, events, acked>>
    BY <1>10 DEF Return, DropWriter, Goto, counts
  <2>2. ASSUME NEW i \in 1 .. Len(manifests'), manifests'[i].status = "completed"
        PROVE  Whole(manifests[i])'
    <3>1. Whole(manifests[i])
      BY <1>a, <2>1, <2>2
    <3>2. Clean'
      BY <1>10, <3>1, CleanStays DEF Return, Whole
    <3> QED BY <1>c, <2>1, <3>1, <3>2 DEF Whole
  <2> QED BY <1>b, <2>1, <2>2
<1>11. CASE Crash
  <2>1. wpc' = "dead" /\ pc' \in {"done", "crashed"} /\ UNCHANGED <<cancel, events, acked>>
    BY <1>11 DEF Crash, Kill, PowerLoss, counts
  <2>2. \E m \in 0 .. Len(manifests) : /\ Len(manifests') = m
                                      /\ \A i \in 1 .. m : manifests'[i] = manifests[i]
    <3>1. /\ manifests \in Seq(Manifest) /\ Len(manifests) \in Nat
          /\ manifestsSynced \in 0 .. Len(manifests)
      BY Lengths DEF WriterInv, TypeOK, ManifestsOK
    <3>2. CASE Kill
      BY <3>1, <3>2 DEF Kill, disk
    <3>3. CASE PowerLoss
      <4>1. PICK m \in manifestsSynced .. Len(manifests) : manifests' = SubSeq(manifests, 1, m)
        BY <3>3 DEF PowerLoss
      <4>2. m \in 0 .. Len(manifests)
        BY <3>1, <4>1
      <4> QED BY <3>1, <4>1, <4>2, PrefixFacts
    <3> QED BY <1>11, <3>2, <3>3 DEF Crash
  <2>3. ASSUME NEW i \in 1 .. Len(manifests'), manifests'[i].status = "completed"
        PROVE  Whole(manifests[i])'
    <3>1. i \in 1 .. Len(manifests) /\ manifests'[i] = manifests[i]
      BY <2>2
    <3>2. Whole(manifests[i])
      BY <1>a, <2>3, <3>1
    <3>3. Clean'
      BY <1>11, <3>2, CleanStays DEF Crash, Whole
    <3> QED BY <1>c, <2>1, <3>1, <3>2, <3>3 DEF Whole
  <2> QED BY <1>b, <2>1, <2>3
<1>12. CASE RequestCancel
  BY <1>a, <1>c, <1>e, <1>g, <1>12 DEF RequestCancel
<1>13. CASE Elsewhere \/ UNCHANGED evars
  <2>1. UNCHANGED Files /\ UNCHANGED manifests /\ UNCHANGED <<wpc, pc, cancel, events>>
    BY <1>g, <1>13 DEF Elsewhere, ForeignDir, counts, writer, engine, evars, Files
  <2> QED BY <1>a, <1>c, <1>e, <2>1
<1> QED
  BY <1>1, <1>2, <1>3, <1>4, <1>5, <1>6, <1>7, <1>8, <1>9, <1>10, <1>11, <1>12, <1>13
     DEF ENext, EngineStep

-----------------------------------------------------------------------------
(* The manifest a reader sees, and what the caller is told *)

LEMMA PublishedVisible ==
  ASSUME WriterInv, NEW st \in Status, manifests' = Append(manifests, Version(st))
  PROVE  Visible' = Version(st) /\ manifests' # <<>>
<1>1. /\ Len(manifests) \in Nat /\ Len(manifests') = Len(manifests) + 1
      /\ manifests'[Len(manifests) + 1] = Version(st)
  BY PublishedFacts
<1>2. manifests' # <<>>
  BY <1>1, EmptySeq
<1> QED BY <1>1, <1>2 DEF Visible

LEMMA VisibleRecording ==
  ASSUME WriterInv, AllRecording, manifests # <<>>
  PROVE  Visible.status = "recording"
<1>1. manifests \in Seq(Manifest)
  BY DEF WriterInv, TypeOK, ManifestsOK
<1>2. Len(manifests) \in Nat /\ Len(manifests) # 0
  BY <1>1, LenProperties, EmptySeq
<1> QED BY <1>2 DEF AllRecording, Visible

LEMMA ShownStep ==
  EngineTypeOK /\ WriterInv /\ Places /\ Recorded /\ Shown /\ [ENext]_evars => Shown'
<1> SUFFICES ASSUME EngineTypeOK, WriterInv, Places, Recorded, Shown, [ENext]_evars PROVE Shown'
  OBVIOUS
<1> USE DEF Between, Unfinished, Working
<1>a. pc \in Between \cup {"commit"} => manifests # <<>>
  BY DEF Shown
<1>b. pc \in Unfinished /\ manifests # <<>> => Visible.status = "recording"
  <2>1. pc \in Unfinished => AllRecording
    BY RecordedParts
  <2> QED BY <2>1, VisibleRecording
<1>c. UNCHANGED manifests => Visible' = Visible
  BY DEF Visible
<1>d. UNCHANGED counts => \A st : Version(st)' = Version(st)
  BY DEF Version, counts
<1>w. UNCHANGED wvars => UNCHANGED <<manifests, ret>> /\ UNCHANGED counts
  BY DEF wvars, disk, writer
<1>1. ASSUME UNCHANGED manifests, pc \in Unfinished, pc' \in Unfinished \cup {"fail"},
             pc' \in Between \cup {"commit"} => manifests # <<>>
      PROVE  Shown'
  BY <1>b, <1>c, <1>1 DEF Shown
<1>2. CASE RejectConfig
  BY <1>2 DEF RejectConfig, Goto, Shown
<1>3. CASE CreateWriter
  <2>1. pc = "create" /\ Create
    BY <1>3 DEF CreateWriter
  <2>2. CASE wpc' = "idle" /\ pc' = "emitStarted"
    <3>1. manifests' = Append(manifests, Version("recording"))
      BY <2>1, <2>2, CreateMoves DEF Creating
    <3> QED BY <2>2, <3>1, PublishedVisible DEF Shown, Status
  <2>3. CASE pc' \in {"create", "done"}
    BY <2>3 DEF Shown
  <2> QED BY <1>3, <2>1, <2>2, <2>3 DEF CreateWriter
<1>4. CASE Commit
  <2>1. UNCHANGED manifests /\ pc = "commit" /\ pc' \in {"commit", "analyze", "fail"}
    BY <1>4, CommitMoves DEF Commit, Raise
  <2> QED BY <1>1, <1>a, <2>1
<1>5. CASE ReadBits
  <2>1. UNCHANGED manifests /\ pc = "read" /\ pc' \in {"commit", "fail"}
    BY <1>5 DEF ReadBits, BeginCommit, Raise, wvars, disk
  <2> QED BY <1>1, <1>a, <2>1
<1>6. CASE EmitStarted \/ Analyze \/ EmitSample \/ LoopTop \/ AfterSample \/ InTime
           \/ WaitCheck \/ WaitDeadline
  <2>1. UNCHANGED wvars /\ pc \in Between \cap Unfinished
    BY <1>6 DEF EmitStarted, Analyze, EmitSample, LoopTop, AfterSample, InTime, WaitCheck,
                WaitDeadline, CheckCancel, Goto
  <2>2. pc' \in Unfinished \cup {"fail"}
    BY <1>6 DEF EmitStarted, Analyze, EmitSample, LoopTop, AfterSample, InTime, WaitCheck,
                WaitDeadline, CheckCancel, Goto, Raise
  <2> QED BY <1>1, <1>a, <1>w, <2>1, <2>2
<1>7. CASE Overrun
  <2>1. UNCHANGED manifests /\ pc = "timing" /\ pc' \in {"loop", "fail"}
    BY <1>7 DEF Overrun, AddOverrun, Raise, disk
  <2> QED BY <1>1, <1>a, <2>1
<1>8. CASE Complete
  <2>0. pc = "stop" /\ UNCHANGED counts
    BY <1>8 DEF Complete, FinalizeCompleted, Finalize
  <2>1. CASE pc' = "fail" /\ UNCHANGED manifests
    BY <1>1, <1>a, <2>0, <2>1
  <2>2. CASE pc' = "emitStopped" /\ manifests' = Append(manifests, Version("completed"))
    <3>1. Visible' = Version("completed") /\ manifests' # <<>>
      BY <2>2, PublishedVisible DEF Status
    <3> QED BY <1>d, <2>0, <2>2, <3>1 DEF Shown
  <2> QED BY <1>8, <2>1, <2>2 DEF Complete, FinalizeCompleted, Finalize, Publish, Raise
<1>9. CASE EmitStopped
  <2>0. /\ pc = "emitStopped" /\ UNCHANGED manifests /\ UNCHANGED counts
        /\ Visible = Version("completed") /\ err = "none" /\ manifests # <<>>
    BY <1>9, <1>a, <1>w DEF EmitStopped, Shown, Places
  <2>1. CASE pc' = "return" /\ err' = err
    BY <1>c, <1>d, <2>0, <2>1 DEF Shown
  <2>2. CASE pc' = "fail" /\ err' = "sink"
    BY <1>c, <1>d, <2>0, <2>2 DEF Shown, Version
  <2> QED BY <1>9, <2>1, <2>2 DEF EmitStopped, Raise
<1>10. CASE MarkFailed
  <2>0. /\ pc = "fail" /\ pc' = "emitFailed" /\ UNCHANGED counts /\ UNCHANGED err
        /\ Visible.status = "recording" \/ (Visible.status = "completed" /\ err = "sink")
    BY <1>10 DEF MarkFailed, FinalizeFailed, Finalize, Goto, Shown
  <2>1. CASE UNCHANGED manifests /\ ret' = "err"
    BY <1>a, <1>c, <2>0, <2>1 DEF Shown
  <2>2. CASE manifests' = Append(manifests, Version("failed"))
    <3>1. Visible' = Version("failed") /\ manifests' # <<>>
      BY <2>2, PublishedVisible DEF Status
    <3> QED BY <1>d, <2>0, <3>1 DEF Shown
  <2> QED BY <1>10, <2>1, <2>2 DEF MarkFailed, FinalizeFailed, Finalize, Publish
<1>11. CASE EmitFailed
  <2>0. /\ pc = "emitFailed" /\ pc' = "return" /\ UNCHANGED err /\ err # "none"
        /\ UNCHANGED <<manifests, ret>> /\ UNCHANGED counts
    BY <1>11, <1>w DEF EmitFailed, Goto, Places
  <2> QED BY <1>a, <1>c, <1>d, <2>0 DEF Shown
<1>12. CASE Return \/ Crash
  BY <1>12 DEF Return, Crash, Goto, Shown
<1>13. CASE RequestCancel \/ Elsewhere \/ UNCHANGED evars
  <2>1. UNCHANGED <<manifests, ret, pc, err>> /\ UNCHANGED counts
    BY <1>w, <1>13 DEF RequestCancel, Elsewhere, ForeignDir, engine, evars, counts, writer
  <2> QED BY <1>c, <1>d, <2>1 DEF Shown
<1> QED
  BY <1>2, <1>3, <1>4, <1>5, <1>6, <1>7, <1>8, <1>9, <1>10, <1>11, <1>12, <1>13
     DEF ENext, EngineStep

(* One event more, which is not the last of a session that stopped           *)
LEMMA FarewellStep ==
  EngineTypeOK /\ WriterInv /\ Places /\ ToldInOrder /\ Farewell /\ [ENext]_evars => Farewell'
<1> SUFFICES ASSUME EngineTypeOK, WriterInv, Places, ToldInOrder, Farewell, [ENext]_evars
             PROVE  Farewell'
  OBVIOUS
<1>a. pc \notin Over => \A i \in 1 .. Len(events) : events[i].type # "stopped"
  BY DEF ToldInOrder, Over
<1>b. pc = "fail" \/ pc = "emitFailed" => err # "none"
  BY DEF Places
<1>c. \A t \in EventTypes : Event(t) \in EventRecord /\ Event(t).type = t
  BY NewEvent
<1>1. ASSUME UNCHANGED events, pc \notin Over \/ UNCHANGED err, pc' # "return" \/ err' # "none"
      PROVE  Farewell'
  BY <1>a, <1>1 DEF Farewell
<1>2. ASSUME NEW e \in EventRecord, Accept(e), e.type # "stopped", pc \notin Over,
             pc' # "return" \/ err' # "none"
      PROVE  Farewell'
  <2>1. /\ Len(events) \in Nat /\ Len(events') = Len(events) + 1
        /\ \A i \in 1 .. Len(events) : events'[i] = events[i]
        /\ events'[Len(events) + 1] = e
    BY <1>2, OneMore
  <2>2. ASSUME NEW i \in 1 .. Len(events')
        PROVE  events'[i].type # "stopped"
    <3>1. CASE i \in 1 .. Len(events)
      BY <1>a, <1>2, <2>1, <3>1
    <3>2. CASE i = Len(events) + 1
      BY <1>2, <2>1, <3>2
    <3> QED BY <2>1, <3>1, <3>2
  <2> QED BY <1>2, <2>2 DEF Farewell
<1>3. CASE RejectConfig \/ CreateWriter
  BY <1>1, <1>3 DEF RejectConfig, CreateWriter, Goto, Over
<1>4. CASE EmitStarted
  <2>1. CASE Accept(Event("started")) /\ pc' = "loop"
    BY <1>2, <1>c, <1>4, <2>1 DEF EmitStarted, Over, EventTypes
  <2>2. CASE UNCHANGED events /\ pc' = "fail"
    BY <1>1, <1>4, <2>2 DEF EmitStarted, Over
  <2> QED BY <1>4, <2>1, <2>2 DEF EmitStarted, Raise
<1>5. CASE EmitSample
  <2>1. CASE Accept(Event("sample")) /\ pc' = "check"
    BY <1>2, <1>c, <1>5, <2>1 DEF EmitSample, Over, EventTypes
  <2>2. CASE UNCHANGED events /\ pc' = "fail"
    BY <1>1, <1>5, <2>2 DEF EmitSample, Over
  <2> QED BY <1>5, <2>1, <2>2 DEF EmitSample, Raise
<1>6. CASE Overrun
  <2>1. CASE Accept([Event("overrun") EXCEPT !.overruns = overruns']) /\ pc' = "loop"
    <3> DEFINE e == [Event("overrun") EXCEPT !.overruns = overruns']
    <3>1. TypeOK'
      BY EngineStepsWriter, TypeStep DEF EngineTypeOK
    <3>2. overruns' \in Nat
      BY <3>1, BoundsAssumption DEF TypeOK, CountsOK
    <3>3. e \in EventRecord /\ e.type = "overrun"
      BY <1>c, <3>2 DEF EventRecord, EventTypes, Event
    <3> QED BY <1>2, <1>6, <2>1, <3>3 DEF Overrun, Over
  <2>2. CASE UNCHANGED events /\ pc' = "fail"
    BY <1>1, <1>6, <2>2 DEF Overrun, Over
  <2> QED BY <1>6, <2>1, <2>2 DEF Overrun, Raise
<1>7. CASE EmitStopped
  <2>0. pc = "emitStopped" /\ err = "none" /\ UNCHANGED counts
    BY <1>7 DEF EmitStopped, Places, wvars
  <2>1. CASE Accept(Event("stopped")) /\ pc' = "return" /\ UNCHANGED err
    <3>1. /\ Len(events) \in Nat /\ Len(events') = Len(events) + 1
          /\ events'[Len(events) + 1] = Event("stopped") /\ events' \in Seq(EventRecord)
      BY <1>c, <2>1, OneMore DEF EventTypes
    <3>2. events' # <<>>
      BY <3>1, EmptySeq
    <3>3. Event("stopped")' = Event("stopped")
      BY <2>0 DEF Event, counts
    <3> QED BY <2>0, <2>1, <3>1, <3>2, <3>3 DEF Farewell
  <2>2. CASE UNCHANGED events /\ pc' = "fail"
    BY <1>1, <2>0, <2>2 DEF Over
  <2> QED BY <1>7, <2>1, <2>2 DEF EmitStopped, Raise
<1>8. CASE EmitFailed
  <2>0. pc = "emitFailed" /\ err' # "none"
    BY <1>8, <1>b DEF EmitFailed, Goto
  <2>1. CASE Accept(Event("failed"))
    BY <1>2, <1>c, <2>0, <2>1 DEF Over, EventTypes
  <2>2. CASE UNCHANGED events
    BY <1>1, <2>0, <2>2 DEF Over
  <2> QED BY <1>8, <2>1, <2>2 DEF EmitFailed
<1>9. CASE LoopTop \/ AfterSample \/ WaitCheck \/ InTime \/ WaitDeadline
  BY <1>1, <1>9 DEF LoopTop, AfterSample, WaitCheck, CheckCancel, InTime, WaitDeadline, Goto
<1>10. CASE ReadBits \/ Commit \/ Analyze \/ Complete \/ MarkFailed
  BY <1>1, <1>10 DEF ReadBits, Commit, Analyze, Complete, MarkFailed, Raise, Goto, Over
<1>11. CASE Return \/ Crash
  BY <1>1, <1>11 DEF Return, Crash, Goto
<1>12. CASE RequestCancel \/ Elsewhere \/ UNCHANGED evars
  <2>1. UNCHANGED <<events, err, pc>> /\ UNCHANGED counts
    BY <1>12 DEF RequestCancel, Elsewhere, ForeignDir, engine, evars, wvars
  <2> QED BY <2>1 DEF Farewell, Event, counts
<1> QED
  BY <1>3, <1>4, <1>5, <1>6, <1>7, <1>8, <1>9, <1>10, <1>11, <1>12 DEF ENext, EngineStep

LEMMA AgreesStep ==
  /\ EngineTypeOK /\ WriterInv /\ Places /\ ToldInOrder /\ Recorded /\ Shown /\ Farewell
  /\ OutcomeAgrees /\ [ENext]_evars
  => OutcomeAgrees'
<1> SUFFICES ASSUME EngineTypeOK, WriterInv, Places, ToldInOrder, Recorded, Shown, Farewell,
                    OutcomeAgrees, [ENext]_evars, pc' = "done", wpc' = "closed"
             PROVE  OutcomeAgrees'
  BY DEF OutcomeAgrees
<1>1. CASE pc = "done"
  <2>1. UNCHANGED <<manifests, overruns, acked, wpc, pc, err, outcome, ret, csv, events>>
    <3>1. CASE Crash
      BY <3>1 DEF Crash, Kill, PowerLoss
    <3>2. CASE RequestCancel \/ Elsewhere \/ UNCHANGED evars
      BY <3>2 DEF RequestCancel, Elsewhere, ForeignDir, engine, evars, wvars, disk, counts, writer
    <3> QED
      BY <1>1, <3>1, <3>2
         DEF ENext, EngineStep, RejectConfig, CreateWriter, EmitStarted, LoopTop, ReadBits,
             Commit, Analyze, EmitSample, AfterSample, Overrun, InTime, WaitCheck,
             WaitDeadline, Complete, EmitStopped, MarkFailed, EmitFailed, Return, Goto,
             CheckCancel
  <2>2. Accepted("stopped")' = Accepted("stopped") /\ Visible' = Visible
    BY <2>1 DEF Accepted, Visible
  <2> QED BY <1>1, <2>1, <2>2 DEF OutcomeAgrees
<1>2. CASE RejectConfig \/ CreateWriter
  <2>1. outcome' = ErrorOf("recording") /\ manifests' = <<>>
    <3>1. CASE RejectConfig
      BY <3>1 DEF RejectConfig, Creating, disk, WriterInv, Core, Progress, Nothing
    <3>2. CASE CreateWriter
      BY <3>2, <1>2, CreateMoves DEF CreateWriter, Creating
    <3> QED BY <1>2, <3>1, <3>2
  <2>2. events' = <<>>
    BY <1>2 DEF RejectConfig, CreateWriter, Goto, ToldInOrder
  <2>3. Accepted("stopped")' = {}
    BY <2>2 DEF Accepted
  <2> QED BY <2>1, <2>3 DEF OutcomeAgrees, ErrorOf
<1>3. CASE Return
  <2>1. /\ pc = "return" /\ UNCHANGED <<manifests, ret, err, events>> /\ UNCHANGED counts
        /\ outcome' = IF err = "none" THEN Completed ELSE ErrorOf(err)
    BY <1>3 DEF Return, DropWriter, Goto
  <2>2. committed = Len(acked) /\ Visible' = Visible
    BY <2>1, AckedFacts DEF Visible
  <2>3. CASE err = "none"
    <3>1. /\ Visible = Version("completed") /\ manifests # <<>>
          /\ events # <<>> /\ events[Len(events)] = Event("stopped")
      BY <2>1, <2>3 DEF Shown, Farewell, Between
    <3>2. outcome' = Completed /\ outcome'.kind = "stopped" /\ outcome'.samples = committed
      BY <2>1, <2>3 DEF Completed
    <3>3. Clean
      <4>1. Len(manifests) \in 1 .. Len(manifests)
        BY <3>1, LenProperties, EmptySeq DEF WriterInv, TypeOK, ManifestsOK
      <4>2. manifests[Len(manifests)].status = "completed"
        BY <3>1 DEF Visible, Version
      <4> QED BY <4>1, <4>2, RecordedParts DEF Whole
    <3>4. Len(csv') = committed
      <4>1. Len(csv) = Len(acked) /\ buffer = <<>>
        BY <3>3, CleanFacts
      <4>2. csv \o buffer = csv
        BY <4>1, ConcatEmptySeq DEF WriterInv, TypeOK, CsvOK
      <4>3. csv' = csv
        BY <1>3, <4>1, <4>2 DEF Return, DropWriter
      <4> QED BY <2>2, <4>1, <4>3
    <3> QED BY <2>1, <2>2, <3>1, <3>2, <3>4 DEF OutcomeAgrees, Version, Event, counts, Reasons
  <2>4. CASE err # "none"
    <3>1. err \in Reasons /\ outcome'.kind = err
      BY <2>1, <2>4 DEF EngineTypeOK, ErrorOf
    <3>2. Accepted("stopped")' = {}
      <4>1. \A i \in 1 .. Len(events) : events[i].type # "stopped"
        BY <2>4 DEF Farewell
      <4>2. Accepted("stopped") = {}
        BY <4>1, AcceptedFacts
      <4> QED BY <2>1, <4>2 DEF Accepted
    <3>3. \/ Visible = Version("failed")
          \/ ret = "err" /\ Visible.status = "recording"
          \/ ret = "err" /\ Visible.status = "completed" /\ err = "sink"
      BY <2>1, <2>4 DEF Shown
    <3> QED BY <2>1, <2>2, <3>1, <3>2, <3>3 DEF OutcomeAgrees, Version, counts, Reasons
  <2> QED BY <2>3, <2>4
<1>4. pc # "done" => RejectConfig \/ CreateWriter \/ Return
  BY DEF ENext, EngineStep, EmitStarted, LoopTop, ReadBits,
         Commit, Analyze, EmitSample, AfterSample, Overrun, InTime, WaitCheck,
         WaitDeadline, Complete, EmitStopped, MarkFailed, EmitFailed, Goto,
         CheckCancel, Raise, RequestCancel, Crash, Elsewhere, engine, evars
<1> QED BY <1>1, <1>2, <1>3, <1>4

-----------------------------------------------------------------------------
LEMMA EngineInvInit == EInit => EngineInv
<1> SUFFICES ASSUME EInit PROVE EngineInv
  OBVIOUS
<1>1. EngineTypeOK /\ WriterInv
  BY EngineTypeInit, InvInit DEF EInit
<1>2. Len(events) = 0 /\ Len(acked) = 0 /\ Len(manifests) = 0
  BY EmptySeq DEF EInit, WInit
<1>3. \A t : Accepted(t) = {} /\ Count(t) = 0
  <2>1. \A t : Accepted(t) = {}
    BY <1>1, <1>2, AcceptedFacts
  <2> QED BY <2>1, FS_EmptySet DEF Count
<1>4. Numbered
  <2>1. {events[i].committed : i \in Accepted("sample")} = 1 .. Count("sample")
    BY <1>3
  <2>2. overruns = 0
    BY DEF EInit, WInit
  <2> QED BY <1>2, <1>3, <2>1, <2>2 DEF Numbered, EInit
<1>5. Places
  BY DEF EInit, WInit, Places, Creating, Between, Working
<1>6. ToldInOrder
  BY <1>2 DEF EInit, ToldInOrder, Working
<1>7. Recorded
  BY <1>2 DEF EInit, WInit, Recorded, Between, Working
<1>8. Shown /\ Farewell /\ OutcomeAgrees
  BY <1>2 DEF EInit, Shown, Farewell, OutcomeAgrees, Between, Working
<1> QED BY <1>1, <1>4, <1>5, <1>6, <1>7, <1>8 DEF EngineInv

LEMMA EngineInvStep == EngineInv /\ [ENext]_evars => EngineInv'
<1> SUFFICES ASSUME EngineInv, [ENext]_evars PROVE EngineInv'
  OBVIOUS
<1>1. WriterInv'
  BY EngineStepsWriter, InvStep DEF EngineInv
<1> QED
  BY <1>1, EngineTypeStep, PlacesStep, ToldStep, NumberedStep, RecordedStep, ShownStep,
     FarewellStep, AgreesStep DEF EngineInv

LEMMA EngineInvariant == ESpec => []EngineInv
BY EngineInvInit, EngineInvStep, PTL DEF ESpec

(* The state of every session is well typed, whatever the bounds.            *)
THEOREM EngineTypesAreRight == ESpec => []EngineTypeOK
<1>1. EngineInv => EngineTypeOK
  BY DEF EngineInv
<1> QED BY <1>1, EngineInvariant, PTL

(* SessionStarted is told first and once, SessionStopped or SessionFailed    *)
(* last, in a session of any length.                                         *)
THEOREM EventsInOrder == ESpec => []EventOrder
<1>1. EngineInv => EventOrder
  <2> SUFFICES ASSUME EngineInv, NEW i \in 1 .. Len(events)
               PROVE  /\ events[i].type = "started" <=> i = 1 /\ events[1].type # "failed"
                      /\ events[i].type \in {"stopped", "failed"} => i = Len(events)
    BY DEF EventOrder
  <2>1. events # <<>>
    BY EmptySeq
  <2>2. events[1].type \in {"started", "failed"}
    BY <2>1 DEF EngineInv, ToldInOrder
  <2>3. i # 1 => events[i].type # "started"
    BY DEF EngineInv, ToldInOrder
  <2>4. events[i].type \in {"stopped", "failed"} => i = Len(events)
    BY DEF EngineInv, ToldInOrder
  <2>5. events[i].type = "started" => i = 1 /\ events[1].type # "failed"
    BY <2>3
  <2>6. i = 1 /\ events[1].type # "failed" => events[i].type = "started"
    BY <2>2
  <2> QED BY <2>4, <2>5, <2>6
<1> QED BY <1>1, EngineInvariant, PTL

(* The samples announced are the first ones committed, in order and without  *)
(* gaps, all durable; at most the newest is not announced.                   *)
THEOREM AnnouncedSamplesLast == ESpec => []AnnouncedIsDurable
<1>1. EngineInv => AnnouncedIsDurable
  <2> SUFFICES ASSUME EngineInv PROVE AnnouncedIsDurable
    OBVIOUS
  <2>1. Len(acked) <= csvSynced /\ Len(acked) \in Nat /\ csvSynced \in Nat
    BY AckedFacts, Lengths DEF EngineInv, WriterInv, Core, AckedIsDurable, TypeOK, CsvOK
  <2>2. Count("sample") \in {Len(acked), Len(acked) - 1}
    BY DEF EngineInv, Numbered
  <2>3. Count("sample") <= csvSynced
    BY <2>1, <2>2
  <2> QED BY <2>2, <2>3 DEF EngineInv, Numbered, AnnouncedIsDurable
<1> QED BY <1>1, EngineInvariant, PTL

(* A manifest that says completed tells the whole truth, for good: no crash  *)
(* takes a row from under it and no later write adds one.                    *)
THEOREM CompletedForGood == ESpec => []CompletedIsComplete
<1>1. EngineInv => CompletedIsComplete
  <2> SUFFICES ASSUME EngineInv, NEW i \in 1 .. Len(manifests),
                      manifests[i].status = "completed"
               PROVE  /\ cancel
                      /\ manifests[i].committed = Len(csv)
                      /\ csvTail = "clean" /\ binTail = "clean" /\ Len(bin) = Len(csv)
                      /\ Count("sample") = Len(csv)
                      /\ Count("overrun") >= manifests[i].overruns
    BY DEF CompletedIsComplete
  <2>1. Whole(manifests[i])
    BY RecordedParts DEF EngineInv
  <2>2. Count("overrun") \in Nat /\ manifests[i].overruns \in Nat
    <3>1. manifests[i] \in Manifest
      BY ElementOfSeq DEF EngineInv, WriterInv, TypeOK, ManifestsOK
    <3> QED BY <3>1, AcceptedFacts DEF EngineInv, Manifest
  <2>3. Count("overrun") >= manifests[i].overruns
    BY <2>1, <2>2 DEF Whole
  <2> QED BY <2>1, <2>3, CleanFacts DEF EngineInv, Whole
<1> QED BY <1>1, EngineInvariant, PTL

(* What the caller is told agrees with the manifest a reader sees, the rows  *)
(* and what the sink was told; a manifest that still says recording or       *)
(* completed after an error was left by a recorder that failed.              *)
THEOREM OutcomeIsTrue == ESpec => []OutcomeAgrees
<1>1. EngineInv => OutcomeAgrees
  BY DEF EngineInv
<1> QED BY <1>1, EngineInvariant, PTL

(* Neither the update of the manifest nor SessionFailed replaces the first   *)
(* error, and nothing is committed after it.                                 *)
THEOREM FirstErrorWins == ESpec => PrimaryErrorKept
<1>1. EngineInv /\ [ENext]_evars =>
        [err # "none" => /\ err' = err
                         /\ calls' = calls
                         /\ outcome' # outcome => outcome'.kind = err]_evars
  <2> SUFFICES ASSUME EngineInv, [ENext]_evars, err # "none"
               PROVE  /\ err' = err
                      /\ calls' = calls
                      /\ outcome' # outcome => outcome'.kind = err
    OBVIOUS
  <2>1. pc \in {"fail", "emitFailed", "return", "done", "crashed"}
    BY DEF EngineInv, EngineTypeOK, Places, Unfinished, Working
  <2>2. CASE MarkFailed
    BY <2>2 DEF MarkFailed, FinalizeFailed, Finalize
  <2>3. CASE EmitFailed
    BY <2>3 DEF EmitFailed, wvars, writer
  <2>4. CASE Return
    BY <2>4 DEF Return, DropWriter, ErrorOf
  <2>5. CASE Crash
    BY <2>5 DEF Crash, Kill, PowerLoss
  <2>6. CASE RequestCancel \/ Elsewhere \/ UNCHANGED evars
    BY <2>6 DEF RequestCancel, Elsewhere, ForeignDir, engine, evars, wvars, writer
  <2> QED
    BY <2>1, <2>2, <2>3, <2>4, <2>5, <2>6
       DEF ENext, EngineStep, RejectConfig, CreateWriter, EmitStarted, LoopTop, ReadBits,
           Commit, Analyze, EmitSample, AfterSample, Overrun, InTime, WaitCheck,
           WaitDeadline, Complete, EmitStopped, Goto, CheckCancel
<1> QED BY <1>1, EngineInvariant, PTL DEF ESpec, PrimaryErrorKept

-----------------------------------------------------------------------------
(* run_session implements the session protocol *)

Begun == events # <<>> /\ events[1].type = "started"

Phase == IF outcome # NoOutcome THEN "ended" ELSE IF Begun THEN "running" ELSE "starting"

(* what a step changes that the protocol knows of *)
ProtocolStep ==
  \/ UNCHANGED <<Begun, Count("sample"), cancel, afterCancel, outcome>>
  \/ /\ outcome = NoOutcome /\ ~Begun /\ Begun'
     /\ UNCHANGED <<Count("sample"), cancel, afterCancel, outcome>>
  \/ /\ ~cancel /\ cancel' = TRUE
     /\ UNCHANGED <<Begun, Count("sample"), afterCancel, outcome>>
  \/ /\ outcome = NoOutcome /\ Begun /\ Begun' /\ afterCancel = 0
     /\ Count("sample")' = Count("sample") + 1
     /\ afterCancel' = IF cancel THEN 1 ELSE 0
     /\ UNCHANGED <<cancel, outcome>>
  \/ /\ outcome = NoOutcome /\ Begun /\ cancel
     /\ outcome' = [kind |-> "stopped", samples |-> Count("sample")]
     /\ UNCHANGED <<events, cancel, afterCancel>>
  \/ /\ outcome = NoOutcome
     /\ \E r \in Reasons : outcome' = ErrorOf(r)
     /\ UNCHANGED <<events, cancel, afterCancel>>

LEMMA ProtocolSteps == EngineInv /\ [ENext]_evars => ProtocolStep
<1> SUFFICES ASSUME EngineInv, [ENext]_evars PROVE ProtocolStep
  OBVIOUS
<1> USE DEF Working
<1>a. EngineTypeOK /\ WriterInv /\ Places /\ ToldInOrder /\ Numbered /\ Recorded /\ Shown
  BY DEF EngineInv
<1>b. UNCHANGED events => UNCHANGED <<Begun, Count("sample")>>
  BY DEF Begun, Count, Accepted
<1>c. ASSUME NEW e \in EventRecord, Accept(e)
      PROVE  /\ events' # <<>>
             /\ events # <<>> => events'[1] = events[1]
             /\ events = <<>> => events'[1] = e
             /\ Count("sample")' = IF e.type = "sample" THEN Count("sample") + 1
                                   ELSE Count("sample")
  <2>1. /\ events' \in Seq(EventRecord)
        /\ Len(events) \in Nat /\ Len(events') = Len(events) + 1
        /\ \A i \in 1 .. Len(events) : events'[i] = events[i]
        /\ events'[Len(events) + 1] = e
    BY <1>a, <1>c, OneMore
  <2>2. /\ events = <<>> <=> Len(events) = 0
        /\ events' # <<>>
    BY <1>a, <2>1, EmptySeq DEF EngineTypeOK
  <2>3. Count("sample")' = IF e.type = "sample" THEN Count("sample") + 1 ELSE Count("sample")
    BY <1>a, <1>c, OneMore
  <2> QED BY <2>1, <2>2, <2>3
<1>d. \A t \in EventTypes : Event(t) \in EventRecord /\ Event(t).type = t
  BY <1>a, NewEvent
<1>e. \A r \in Reasons : r # "none"
  BY DEF Reasons
<1>1. CASE RejectConfig \/ CreateWriter
  <2>1. pc = "create" /\ outcome = NoOutcome /\ UNCHANGED <<events, cancel, afterCancel>>
    BY <1>1, <1>a DEF RejectConfig, CreateWriter, Goto, Places
  <2>2. UNCHANGED outcome \/ outcome' = ErrorOf("recording")
    BY <1>1 DEF RejectConfig, CreateWriter
  <2> QED BY <1>b, <2>1, <2>2 DEF ProtocolStep, Reasons
<1>2. CASE EmitStarted
  <2>1. events = <<>> /\ outcome = NoOutcome /\ UNCHANGED <<cancel, afterCancel, outcome>>
    BY <1>2, <1>a DEF EmitStarted, ToldInOrder, Places
  <2>2. CASE Accept(Event("started"))
    BY <1>c, <1>d, <2>1, <2>2 DEF ProtocolStep, Begun, EventTypes
  <2> QED BY <1>2, <1>b, <2>1, <2>2 DEF EmitStarted, ProtocolStep
<1>3. CASE EmitSample
  <2>1. /\ events # <<>> /\ events[1].type = "started" /\ outcome = NoOutcome
        /\ afterCancel = 0 /\ UNCHANGED <<cancel, outcome>>
    BY <1>3, <1>a DEF EmitSample, ToldInOrder, Places
  <2>2. CASE Accept(Event("sample")) /\ afterCancel' = afterCancel + (IF cancel THEN 1 ELSE 0)
    <3>1. Begun /\ Begun' /\ Count("sample")' = Count("sample") + 1
      BY <1>c, <1>d, <2>1, <2>2 DEF Begun, EventTypes
    <3>2. afterCancel' = IF cancel THEN 1 ELSE 0
      BY <2>1, <2>2
    <3> QED BY <2>1, <3>1, <3>2 DEF ProtocolStep
  <2>3. CASE UNCHANGED <<events, afterCancel>>
    BY <1>b, <2>1, <2>3 DEF ProtocolStep
  <2> QED BY <1>3, <2>2, <2>3 DEF EmitSample
<1>4. CASE Overrun
  <2>1. /\ events # <<>> /\ events[1].type = "started"
        /\ UNCHANGED <<cancel, outcome, afterCancel>>
    BY <1>4, <1>a DEF Overrun, ToldInOrder
  <2>2. CASE Accept([Event("overrun") EXCEPT !.overruns = overruns'])
    <3> DEFINE e == [Event("overrun") EXCEPT !.overruns = overruns']
    <3>1. TypeOK'
      BY <1>a, EngineStepsWriter, TypeStep DEF EngineTypeOK
    <3>2. overruns' \in Nat
      BY <3>1, BoundsAssumption DEF TypeOK, CountsOK
    <3>3. e \in EventRecord /\ e.type = "overrun"
      BY <1>d, <3>2 DEF EventRecord, EventTypes, Event
    <3>4. UNCHANGED <<Begun, Count("sample")>>
      BY <1>c, <2>1, <2>2, <3>3 DEF Begun
    <3> QED BY <2>1, <3>4 DEF ProtocolStep
  <2> QED BY <1>4, <1>b, <2>1, <2>2 DEF Overrun, ProtocolStep
<1>5. CASE EmitStopped
  <2>1. /\ events # <<>> /\ events[1].type = "started"
        /\ UNCHANGED <<cancel, outcome, afterCancel>>
    BY <1>5, <1>a DEF EmitStopped, ToldInOrder
  <2>2. CASE Accept(Event("stopped"))
    BY <1>c, <1>d, <2>1, <2>2 DEF Begun, EventTypes, ProtocolStep
  <2> QED BY <1>5, <1>b, <2>1, <2>2 DEF EmitStopped, ProtocolStep
<1>6. CASE EmitFailed
  <2>1. UNCHANGED <<cancel, outcome, afterCancel>>
    BY <1>6 DEF EmitFailed
  <2>2. CASE Accept(Event("failed"))
    BY <1>c, <1>d, <2>1, <2>2 DEF Begun, EventTypes, ProtocolStep
  <2> QED BY <1>6, <1>b, <2>1, <2>2 DEF EmitFailed, ProtocolStep
<1>7. CASE Return
  <2>1. /\ pc = "return" /\ outcome = NoOutcome
        /\ UNCHANGED <<events, cancel, afterCancel>>
        /\ outcome' = IF err = "none" THEN Completed ELSE ErrorOf(err)
    BY <1>7, <1>a DEF Return, Goto, Places
  <2>2. CASE err = "none"
    <3>1. Begun /\ cancel
      BY <1>a, <2>1, <2>2 DEF ToldInOrder, Places, Begun
    <3>2. manifests # <<>> /\ Visible.status = "completed"
      BY <1>a, <2>1, <2>2 DEF Shown, Between, Version
    <3>3. Len(manifests) \in 1 .. Len(manifests)
      BY <1>a, <3>2, LenProperties, EmptySeq DEF WriterInv, TypeOK, ManifestsOK
    <3>4. Count("sample") = Len(acked)
      BY <1>a, <3>2, <3>3 DEF Recorded, Visible
    <3>5. committed = Count("sample")
      BY <1>a, <3>4, AckedFacts
    <3> QED BY <2>1, <2>2, <3>1, <3>5 DEF ProtocolStep, Completed
  <2>3. CASE err # "none"
    <3>1. err \in Reasons
      BY <1>a, <2>3 DEF EngineTypeOK
    <3> QED BY <2>1, <2>3, <3>1 DEF ProtocolStep
  <2> QED BY <2>2, <2>3
<1>8. CASE RequestCancel
  BY <1>8, <1>b DEF RequestCancel, ProtocolStep
<1>9. CASE LoopTop \/ AfterSample \/ WaitCheck \/ InTime \/ WaitDeadline \/ ReadBits
           \/ Commit \/ Analyze \/ Complete \/ MarkFailed
  BY <1>9, <1>b DEF LoopTop, AfterSample, WaitCheck, InTime, WaitDeadline, ReadBits, Commit,
                    Analyze, Complete, MarkFailed, CheckCancel, ProtocolStep
<1>10. CASE Crash \/ Elsewhere \/ UNCHANGED evars
  BY <1>10, <1>b DEF Crash, Elsewhere, engine, evars, ProtocolStep
<1> QED
  BY <1>1, <1>2, <1>3, <1>4, <1>5, <1>6, <1>7, <1>8, <1>9, <1>10 DEF ENext, EngineStep

LEMMA ProtocolMoves == EngineInv /\ [ENext]_evars => [Protocol!PNext]_(Protocol!pvars)
<1> SUFFICES ASSUME EngineInv, ProtocolStep PROVE [Protocol!PNext]_(Protocol!pvars)
  BY ProtocolSteps
<1>a. /\ outcome # NoOutcome => Phase = "ended"
      /\ outcome = NoOutcome /\ Begun => Phase = "running"
      /\ outcome = NoOutcome /\ ~Begun => Phase = "starting"
  BY DEF Phase
<1>b. /\ outcome' # NoOutcome => Phase' = "ended"
      /\ outcome' = NoOutcome /\ Begun' => Phase' = "running"
      /\ outcome' = NoOutcome /\ ~Begun' => Phase' = "starting"
  BY DEF Phase
<1>c. UNCHANGED afterCancel => (afterCancel = 0)' = (afterCancel = 0)
  OBVIOUS
<1>d. UNCHANGED events => UNCHANGED Count("sample")
  BY DEF Count, Accepted
<1>e. \A r \in Reasons : ErrorOf(r) # NoOutcome
  BY DEF Reasons, ErrorOf, NoOutcome
<1>f. UNCHANGED <<Begun, outcome>> => UNCHANGED Phase
  BY <1>a, <1>b
<1>1. CASE UNCHANGED <<Begun, Count("sample"), cancel, afterCancel, outcome>>
  <2>1. UNCHANGED Phase /\ UNCHANGED Count("sample") /\ UNCHANGED cancel /\ UNCHANGED outcome
    BY <1>1, <1>f
  <2> QED BY <1>1, <1>c, <2>1, Zenon DEF Protocol!pvars, Phase, Begun
<1>2. CASE /\ outcome = NoOutcome /\ ~Begun /\ Begun'
           /\ UNCHANGED <<Count("sample"), cancel, afterCancel, outcome>>
  <2>1. Phase = "starting" /\ Phase' = "running"
    BY <1>2, <1>a, <1>b
  <2>2. UNCHANGED Count("sample") /\ UNCHANGED cancel /\ UNCHANGED outcome
    BY <1>2
  <2>3. Protocol!Start
    BY <1>2, <1>c, <2>1, <2>2, Zenon DEF Protocol!Start, Phase, Begun
  <2> QED BY <2>3 DEF Protocol!PNext
<1>3. CASE /\ ~cancel /\ cancel' = TRUE
           /\ UNCHANGED <<Begun, Count("sample"), afterCancel, outcome>>
  <2>1. UNCHANGED Phase /\ UNCHANGED Count("sample") /\ UNCHANGED outcome
    BY <1>3, <1>f
  <2>2. Protocol!Ask
    BY <1>3, <1>c, <2>1, Zenon DEF Protocol!Ask, Phase, Begun
  <2> QED BY <2>2 DEF Protocol!PNext
<1>4. CASE /\ outcome = NoOutcome /\ Begun /\ Begun' /\ afterCancel = 0
           /\ Count("sample")' = Count("sample") + 1
           /\ afterCancel' = IF cancel THEN 1 ELSE 0
           /\ UNCHANGED <<cancel, outcome>>
  <2>1. Phase = "running" /\ UNCHANGED Phase /\ UNCHANGED cancel /\ UNCHANGED outcome
    BY <1>4, <1>a, <1>b
  <2>2. (afterCancel = 0)' = ~cancel
    <3>1. CASE cancel
      BY <1>4, <3>1
    <3>2. CASE ~cancel
      BY <1>4, <3>2
    <3> QED BY <3>1, <3>2
  <2>3. Protocol!Sample
    BY <1>4, <2>1, <2>2, Zenon DEF Protocol!Sample, Phase, Begun
  <2> QED BY <2>3 DEF Protocol!PNext
<1>5. CASE /\ outcome = NoOutcome /\ Begun /\ cancel
           /\ outcome' = [kind |-> "stopped", samples |-> Count("sample")]
           /\ UNCHANGED <<events, cancel, afterCancel>>
  <2>1. outcome' # NoOutcome
    BY <1>5 DEF NoOutcome
  <2>2. Phase = "running" /\ Phase' = "ended"
    BY <1>5, <1>a, <1>b, <2>1
  <2>3. UNCHANGED Count("sample") /\ UNCHANGED cancel
    BY <1>5, <1>d
  <2>4. outcome' = Protocol!Stopped(Count("sample"))
    BY <1>5 DEF Protocol!Stopped
  <2>5. Protocol!Stop
    BY <1>5, <1>c, <2>2, <2>3, <2>4, Zenon DEF Protocol!Stop, Phase, Begun
  <2> QED BY <2>5 DEF Protocol!PNext
<1>6. CASE /\ outcome = NoOutcome
           /\ \E r \in Reasons : outcome' = ErrorOf(r)
           /\ UNCHANGED <<events, cancel, afterCancel>>
  <2>1. outcome' # NoOutcome
    BY <1>6, <1>e
  <2>2. Phase # "ended" /\ Phase' = "ended"
    BY <1>6, <1>a, <1>b, <2>1
  <2>3. UNCHANGED Count("sample") /\ UNCHANGED cancel
    BY <1>6, <1>d
  <2>4. \E r \in Reasons : outcome' = Protocol!Failed(r)
    BY <1>6 DEF Protocol!Failed, ErrorOf
  <2>5. Protocol!Fail
    BY <1>6, <1>c, <2>2, <2>3, <2>4, Zenon DEF Protocol!Fail, Phase, Begun
  <2> QED BY <2>5 DEF Protocol!PNext
<1> QED BY <1>1, <1>2, <1>3, <1>4, <1>5, <1>6 DEF ProtocolStep

LEMMA ProtocolInit == EInit => Protocol!PInit
<1> SUFFICES ASSUME EInit PROVE Protocol!PInit
  OBVIOUS
<1>1. outcome = NoOutcome /\ events = <<>> /\ cancel = FALSE /\ afterCancel = 0
  BY DEF EInit
<1>2. Count("sample") = 0
  <2>1. Len(events) = 0 /\ EngineTypeOK
    BY <1>1, EmptySeq, EngineTypeInit
  <2>2. Accepted("sample") = {}
    BY <2>1, AcceptedFacts
  <2> QED BY <2>2, FS_EmptySet DEF Count
<1>3. outcome = Protocol!NoOutcome
  BY <1>1 DEF NoOutcome, Protocol!NoOutcome
<1>4. (afterCancel = 0) = TRUE
  BY <1>1
<1> QED BY <1>1, <1>2, <1>3, <1>4, Zenon DEF Protocol!PInit

(* What a caller sees of a session is what the protocol promises; after the  *)
(* stop request one more sample is announced at most.                        *)
THEOREM SessionImplementsProtocol == ESpec => ImplementsProtocol
BY ProtocolInit, ProtocolMoves, EngineInvariant, PTL DEF ESpec, ImplementsProtocol, Protocol!PSpec

-----------------------------------------------------------------------------
(* How a stop request ends a session: a bound on the steps of the engine     *)
(* that are left once it was made, from each of its points and, within       *)
(* SessionWriter::create and commit_sample, from each of theirs.             *)
EngineLeft ==
  [done |-> 0, crashed |-> 0, return |-> 1, emitFailed |-> 2, fail |-> 3,
   emitStopped |-> 4, stop |-> 5, loop |-> 6, check |-> 6, wait |-> 6,
   deadline |-> 7, timing |-> 7, emitStarted |-> 7, emitSample |-> 7,
   analyze |-> 8, create |-> 7, commit |-> 8, read |-> 15]

WriterLeft ==
  [check |-> 4, mkdir |-> 3, artifacts |-> 2, manifest |-> 1,
   validate |-> 6, append |-> 5, syncBin |-> 4, appendCsv |-> 3, flushCsv |-> 2,
   syncCsv |-> 1]

StepsLeft ==
  IF pc \in {"create", "commit"} THEN EngineLeft[pc] + WriterLeft[wpc] ELSE EngineLeft[pc]

MostSteps == 15

(* each step of the engine uses one of them up, and no step of the world     *)
(* around it adds one                                                        *)
CancelRunsDown ==
  [][cancel => /\ cancel'
               /\ StepsLeft' <= StepsLeft
               /\ EngineStep => StepsLeft' < StepsLeft]_evars

LEMMA LeftFacts ==
  ASSUME EngineInv
  PROVE  /\ StepsLeft \in 0 .. MostSteps
         /\ StepsLeft = 0 <=> pc \in {"done", "crashed"}
<1>1. /\ pc \in DOMAIN EngineLeft
      /\ pc = "create" => wpc \in Creating
      /\ pc = "commit" => wpc \in Committing
  BY DEF EngineInv, EngineTypeOK, Places, EngineLeft
<1>2. CASE pc = "create"
  BY <1>1, <1>2 DEF StepsLeft, MostSteps, EngineLeft, WriterLeft, Creating
<1>3. CASE pc = "commit"
  BY <1>1, <1>3 DEF StepsLeft, MostSteps, EngineLeft, WriterLeft, Committing
<1>4. CASE pc \notin {"create", "commit"}
  BY <1>1, <1>4 DEF StepsLeft, MostSteps, EngineLeft
<1> QED
  BY <1>2, <1>3, <1>4

(* The steps of the engine, one by one.                                      *)
LEMMA EngineRunsDown ==
  ASSUME EngineInv, EngineStep, cancel
  PROVE  cancel' /\ StepsLeft' < StepsLeft
<1>1. CASE RejectConfig
  BY <1>1 DEF RejectConfig, Goto, StepsLeft, EngineLeft, WriterLeft
<1>2. CASE CreateWriter
  <2>1. /\ pc = "create" /\ wpc \in Creating /\ Create /\ UNCHANGED cancel
        /\ \/ wpc' \in Creating /\ pc' = "create"
           \/ pc' \in {"emitStarted", "done"}
    BY <1>2 DEF CreateWriter, EngineInv, Places
  <2>2. CASE wpc' \in Creating /\ pc' = "create"
    <3>1. WriterLeft[wpc'] < WriterLeft[wpc]
      BY <2>1, <2>2 DEF Create, CheckAbsent, MakeDir, CreateArtifacts, CreateManifest,
                        CreateFails, Creating, WriterLeft
    <3>2. WriterLeft[wpc] \in Nat /\ WriterLeft[wpc'] \in Nat
      BY <2>1, <2>2 DEF Creating, WriterLeft
    <3> QED
      BY <2>1, <2>2, <3>1, <3>2 DEF StepsLeft, EngineLeft
  <2>3. CASE pc' \in {"emitStarted", "done"}
    BY <2>1, <2>3 DEF StepsLeft, EngineLeft, WriterLeft, Creating
  <2> QED
    BY <2>1, <2>2, <2>3
<1>3. CASE EmitStarted
  BY <1>3 DEF EmitStarted, Raise, StepsLeft, EngineLeft
<1>4. CASE LoopTop
  BY <1>4 DEF LoopTop, CheckCancel, Goto, StepsLeft, EngineLeft
<1>5. CASE AfterSample
  BY <1>5 DEF AfterSample, CheckCancel, Goto, StepsLeft, EngineLeft
<1>6. CASE WaitCheck
  BY <1>6 DEF WaitCheck, CheckCancel, Goto, StepsLeft, EngineLeft
<1>7. CASE ReadBits
  BY <1>7 DEF ReadBits, BeginCommit, Raise, StepsLeft, EngineLeft, WriterLeft
<1>8. CASE Commit
  <2>1. /\ pc = "commit" /\ wpc \in Committing /\ CommitStep /\ UNCHANGED cancel
        /\ \/ wpc' # "idle" /\ pc' = "commit"
           \/ pc' \in {"analyze", "fail"}
    BY <1>8 DEF Commit, Raise, EngineInv, Places
  <2>2. CASE wpc' # "idle" /\ pc' = "commit"
    <3>1. /\ wpc' \in Committing
          /\ WriterLeft[wpc'] < WriterLeft[wpc]
      BY <2>1, <2>2 DEF CommitStep, Validate, AppendBin, SyncBin, AppendCsv, FlushCsv,
                        SyncCsv, GoOn, ReturnErr, Committing, WriterLeft
    <3>2. WriterLeft[wpc] \in Nat /\ WriterLeft[wpc'] \in Nat
      BY <2>1, <3>1 DEF Committing, WriterLeft
    <3> QED
      BY <2>1, <2>2, <3>1, <3>2 DEF StepsLeft, EngineLeft
  <2>3. CASE pc' \in {"analyze", "fail"}
    BY <2>1, <2>3 DEF StepsLeft, EngineLeft, WriterLeft, Committing
  <2> QED
    BY <2>1, <2>2, <2>3
<1>9. CASE Analyze
  BY <1>9 DEF Analyze, Raise, StepsLeft, EngineLeft
<1>10. CASE EmitSample
  BY <1>10 DEF EmitSample, Raise, StepsLeft, EngineLeft
<1>11. CASE Overrun
  BY <1>11 DEF Overrun, Raise, StepsLeft, EngineLeft
<1>12. CASE InTime
  BY <1>12 DEF InTime, Goto, StepsLeft, EngineLeft
<1>13. CASE WaitDeadline
  BY <1>13 DEF WaitDeadline, Goto, StepsLeft, EngineLeft
<1>14. CASE Complete
  BY <1>14 DEF Complete, Raise, StepsLeft, EngineLeft
<1>15. CASE EmitStopped
  BY <1>15 DEF EmitStopped, Raise, StepsLeft, EngineLeft
<1>16. CASE MarkFailed
  BY <1>16 DEF MarkFailed, Goto, StepsLeft, EngineLeft
<1>17. CASE EmitFailed
  BY <1>17 DEF EmitFailed, Goto, StepsLeft, EngineLeft
<1>18. CASE Return
  BY <1>18 DEF Return, Goto, StepsLeft, EngineLeft
<1> QED
  BY <1>1, <1>2, <1>3, <1>4, <1>5, <1>6, <1>7, <1>8, <1>9,
     <1>10, <1>11, <1>12, <1>13, <1>14, <1>15, <1>16, <1>17, <1>18
     DEF EngineStep

(* A stop request ends the session in at most MostSteps steps of the engine: *)
(* whatever the source, the sink, the clock and the disk do, and however     *)
(* many samples there were, no path of run_session leads back to another     *)
(* read.  What is left to fairness is that the engine does take its steps.   *)
THEOREM StopIsBounded ==
  ESpec => /\ [](/\ StepsLeft \in 0 .. MostSteps
                 /\ StepsLeft = 0 <=> pc \in {"done", "crashed"})
           /\ CancelRunsDown
<1>1. EngineInv => /\ StepsLeft \in 0 .. MostSteps
                   /\ StepsLeft = 0 <=> pc \in {"done", "crashed"}
  BY LeftFacts
<1>2. EngineInv' => (/\ StepsLeft \in 0 .. MostSteps
                     /\ StepsLeft = 0 <=> pc \in {"done", "crashed"})'
  BY <1>1, PTL
<1>3. EngineInv /\ [ENext]_evars =>
        [cancel => /\ cancel'
                   /\ StepsLeft' <= StepsLeft
                   /\ EngineStep => StepsLeft' < StepsLeft]_evars
  <2> SUFFICES ASSUME EngineInv, ENext, cancel
               PROVE  /\ cancel'
                      /\ StepsLeft' <= StepsLeft
                      /\ EngineStep => StepsLeft' < StepsLeft
    BY DEF ENext
  <2>1. StepsLeft \in Nat /\ StepsLeft >= 0
    BY LeftFacts DEF MostSteps
  <2>2. CASE EngineStep
    <3>1. EngineInv'
      BY EngineInvStep
    <3>2. StepsLeft' \in Nat
      BY <3>1, <1>2 DEF MostSteps
    <3> QED
      BY <2>1, <2>2, <3>2, EngineRunsDown
  <2>3. CASE ~EngineStep /\ Crash
    <3>1. StepsLeft' = 0 /\ cancel'
      BY <2>3 DEF Crash, StepsLeft, EngineLeft
    <3> QED
      BY <2>1, <2>3, <3>1
  <2>4. CASE ~EngineStep /\ Elsewhere
    <3>1. StepsLeft' = StepsLeft /\ cancel'
      BY <2>4 DEF Elsewhere, ForeignDir, engine, writer, StepsLeft
    <3> QED
      BY <2>1, <2>4, <3>1
  <2> QED
    BY <2>2, <2>3, <2>4 DEF ENext, RequestCancel
<1> QED
  BY <1>1, <1>3, EngineInvariant, PTL DEF ESpec, CancelRunsDown

=============================================================================
