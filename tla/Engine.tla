-------------------------------- MODULE Engine --------------------------------
(***************************************************************************)
(* The collection loop: rngkit_engine::run_session driving one             *)
(* SessionWriter, an entropy source, the analysis accumulator and an event *)
(* sink, while another thread may set the cancellation token at any moment *)
(* and the process may be killed or lose power.                            *)
(*                                                                         *)
(* pc is the point of run_session_inner, stop or fail that is about to     *)
(* run; during "create" and "commit" the writer's own wpc advances.  The   *)
(* clock is abstracted to its two decisions: did the cycle overrun the     *)
(* interval, has the deadline of the wait passed.                          *)
(***************************************************************************)
EXTENDS SessionWriter, FiniteSets

VARIABLES
  pc,          (* where the engine thread is                             *)
  cancel,      (* the token                                              *)
  events,      (* events the sink accepted                               *)
  err,         (* terminal error being handled                           *)
  outcome,     (* what run_session returned                              *)
  afterCancel  (* history: samples the sink accepted after the request   *)

engine == <<pc, cancel, events, err, outcome, afterCancel>>
evars  == <<wvars, engine>>

(* "sink" stands for whatever error the sink chose to return *)
Reasons == {"source", "recording", "analysis", "sink"}

Event(type) == [type |-> type, committed |-> committed, overruns |-> overruns]

NoOutcome   == [kind |-> "none", samples |-> 0]
Completed   == [kind |-> "stopped", samples |-> committed]
ErrorOf(r)  == [kind |-> r, samples |-> 0]

EInit ==
  /\ WInit
  /\ pc = "create"
  /\ cancel = FALSE
  /\ events = <<>>
  /\ err = "none"
  /\ outcome = NoOutcome
  /\ afterCancel = 0

Goto(from, to) ==
  /\ pc = from
  /\ pc' = to

(* sink.emit: the event is accepted, or its error is terminal *)
Accept(event) == events' = Append(events, event)

Raise(reason) ==
  /\ pc' = "fail"
  /\ err' = reason

-----------------------------------------------------------------------------
(* now_local or SessionStem::new fails: nothing was created *)
RejectConfig ==
  /\ wpc = "check"
  /\ Goto("create", "done")
  /\ outcome' = ErrorOf("recording")
  /\ CreateFails
  /\ UNCHANGED <<disk, counts, sample, buffer, calls, cancel, events, err,
                 afterCancel>>

CreateWriter ==
  /\ pc = "create"
  /\ Create
  /\ \/ wpc' \in Creating /\ UNCHANGED <<pc, outcome>>
     \/ wpc' = "idle" /\ pc' = "emitStarted" /\ UNCHANGED outcome
     \/ wpc' = "closed" /\ pc' = "done" /\ outcome' = ErrorOf("recording")
  /\ UNCHANGED <<cancel, events, err, afterCancel>>

(* mutated: the sink's first error is ignored *)
EmitStartedBestEffort ==
  /\ Goto("emitStarted", "loop")
  /\ Accept(Event("started")) \/ UNCHANGED events
  /\ UNCHANGED <<wvars, cancel, err, outcome, afterCancel>>

EmitStarted ==
  /\ pc = "emitStarted"
  /\ \/ Accept(Event("started")) /\ pc' = "loop" /\ UNCHANGED err
     \/ Raise("sink") /\ UNCHANGED events
  /\ UNCHANGED <<wvars, cancel, outcome, afterCancel>>

(* mutated: the token is not read *)
CheckCancelNever(from, to) ==
  /\ Goto(from, to)
  /\ UNCHANGED <<wvars, cancel, events, err, outcome, afterCancel>>

(* cancel.is_cancelled() before the read, and again after the sample *)
CheckCancel(from, to) ==
  /\ pc = from
  /\ pc' = IF cancel THEN "stop" ELSE to
  /\ UNCHANGED <<wvars, cancel, events, err, outcome, afterCancel>>

LoopTop     == CheckCancel("loop", "read")
AfterSample == CheckCancel("check", "timing")

(* source.read_bits: a whole sample, handed to commit_sample, or an error *)
ReadBits ==
  /\ pc = "read"
  /\ \/ BeginCommit /\ pc' = "commit" /\ UNCHANGED err
     \/ Raise("source") /\ UNCHANGED wvars
  /\ UNCHANGED <<cancel, events, outcome, afterCancel>>

(* mutated: the result of commit_sample is not looked at *)
CommitUnchecked ==
  /\ pc = "commit"
  /\ CommitStep
  /\ pc' = IF wpc' = "idle" THEN "analyze" ELSE pc
  /\ UNCHANGED <<cancel, events, err, outcome, afterCancel>>

Commit ==
  /\ pc = "commit"
  /\ CommitStep
  /\ \/ wpc' # "idle" /\ UNCHANGED <<pc, err>>
     \/ wpc' = "idle" /\ ret' = "ok" /\ pc' = "analyze" /\ UNCHANGED err
     \/ wpc' = "idle" /\ ret' = "err" /\ Raise("recording")
  /\ UNCHANGED <<cancel, events, outcome, afterCancel>>

Analyze ==
  /\ pc = "analyze"
  /\ \/ pc' = "emitSample" /\ UNCHANGED err
     \/ Raise("analysis")
  /\ UNCHANGED <<wvars, cancel, events, outcome, afterCancel>>

EmitSample ==
  /\ pc = "emitSample"
  /\ \/ /\ Accept(Event("sample"))
        /\ afterCancel' = afterCancel + (IF cancel THEN 1 ELSE 0)
        /\ pc' = "check"
        /\ UNCHANGED err
     \/ Raise("sink") /\ UNCHANGED <<events, afterCancel>>
  /\ UNCHANGED <<wvars, cancel, outcome>>

(* cycle >= interval: count, emit, start the next read at once *)
Overrun ==
  /\ pc = "timing"
  /\ AddOverrun
  /\ \/ /\ Accept([Event("overrun") EXCEPT !.overruns = overruns'])
        /\ pc' = "loop"
        /\ UNCHANGED err
     \/ Raise("sink") /\ UNCHANGED events
  /\ UNCHANGED <<cancel, outcome, afterCancel>>

InTime ==
  /\ Goto("timing", "wait")
  /\ UNCHANGED <<wvars, cancel, events, err, outcome, afterCancel>>

(* mutated: only the deadline ends the wait *)
WaitCheckBlind ==
  /\ Goto("wait", "deadline")
  /\ UNCHANGED <<wvars, cancel, events, err, outcome, afterCancel>>

(* StdClock::wait: look at the token, then at the deadline, sleep, again *)
WaitCheck == CheckCancel("wait", "deadline")

WaitDeadline ==
  /\ pc = "deadline"
  /\ pc' \in {"loop", "wait"}
  /\ UNCHANGED <<wvars, cancel, events, err, outcome, afterCancel>>

(* mutated: a manifest that could not be written is ignored *)
CompleteUnchecked ==
  /\ Goto("stop", "emitStopped")
  /\ FinalizeCompleted
  /\ UNCHANGED <<cancel, events, err, outcome, afterCancel>>

(* stop *)
Complete ==
  /\ pc = "stop"
  /\ FinalizeCompleted
  /\ \/ ret' = "ok" /\ pc' = "emitStopped" /\ UNCHANGED err
     \/ ret' = "err" /\ Raise("recording")
  /\ UNCHANGED <<cancel, events, outcome, afterCancel>>

EmitStopped ==
  /\ pc = "emitStopped"
  /\ \/ Accept(Event("stopped")) /\ pc' = "return" /\ UNCHANGED err
     \/ Raise("sink") /\ UNCHANGED events
  /\ UNCHANGED <<wvars, cancel, outcome, afterCancel>>

(* mutated: finalize_completed on the error path *)
MarkCompleted ==
  /\ Goto("fail", "emitFailed")
  /\ FinalizeCompleted
  /\ UNCHANGED <<cancel, events, err, outcome, afterCancel>>

(* mutated: a failing update of the manifest replaces the first error *)
MarkFailedLoud ==
  /\ Goto("fail", "emitFailed")
  /\ FinalizeFailed
  /\ err' = IF ret' = "err" THEN "recording" ELSE err
  /\ UNCHANGED <<cancel, events, outcome, afterCancel>>

(* mutated: the session ends without an update of the manifest *)
MarkNothing ==
  /\ Goto("fail", "emitFailed")
  /\ UNCHANGED <<wvars, cancel, events, err, outcome, afterCancel>>

(* fail: both attempts are best effort *)
MarkFailed ==
  /\ Goto("fail", "emitFailed")
  /\ FinalizeFailed
  /\ UNCHANGED <<cancel, events, err, outcome, afterCancel>>

EmitFailed ==
  /\ Goto("emitFailed", "return")
  /\ Accept(Event("failed")) \/ UNCHANGED events
  /\ UNCHANGED <<wvars, cancel, err, outcome, afterCancel>>

(* the writer is dropped before the caller sees the result *)
Return ==
  /\ Goto("return", "done")
  /\ DropWriter
  /\ outcome' = IF err = "none" THEN Completed ELSE ErrorOf(err)
  /\ UNCHANGED <<cancel, events, err, afterCancel>>

-----------------------------------------------------------------------------
RequestCancel ==
  /\ ~cancel
  /\ cancel' = TRUE
  /\ UNCHANGED <<wvars, pc, events, err, outcome, afterCancel>>

Crash ==
  /\ Kill \/ PowerLoss
  /\ pc' = IF pc = "done" THEN "done" ELSE "crashed"
  /\ UNCHANGED <<cancel, events, err, outcome, afterCancel>>

Elsewhere == ForeignDir /\ UNCHANGED engine

EngineStep ==
  \/ RejectConfig \/ CreateWriter \/ EmitStarted
  \/ LoopTop \/ ReadBits \/ Commit \/ Analyze \/ EmitSample \/ AfterSample
  \/ Overrun \/ InTime \/ WaitCheck \/ WaitDeadline
  \/ Complete \/ EmitStopped \/ MarkFailed \/ EmitFailed \/ Return

ENext == EngineStep \/ RequestCancel \/ Crash \/ Elsewhere

ESpec == EInit /\ [][ENext]_evars

(* The engine thread keeps running; the source returns from every read, with *)
(* a sample or an error; nothing forces a cancellation, a crash or even the  *)
(* end of an interval.                                                       *)
EFairSpec == ESpec /\ WF_evars(EngineStep)

-----------------------------------------------------------------------------
(* Properties *)

EventTypes == {"started", "sample", "overrun", "stopped", "failed"}

EventRecord == [type : EventTypes, committed : Nat, overruns : Nat]

(* The type of the engine's own state; the recorder's is TypeOK. *)
EngineTypeOK ==
  /\ TypeOK
  /\ pc \in {"create", "emitStarted", "loop", "read", "commit", "analyze",
             "emitSample", "check", "timing", "wait", "deadline", "stop",
             "emitStopped", "fail", "emitFailed", "return", "done", "crashed"}
  /\ cancel \in BOOLEAN
  /\ events \in Seq(EventRecord)
  /\ err \in Reasons \cup {"none"}
  /\ outcome \in [kind : Reasons \cup {"none", "stopped"}, samples : Nat]
  /\ afterCancel \in Nat

(* where the accepted events of a type are, and how many *)
Accepted(type) == {i \in DOMAIN events : events[i].type = type}
Count(type)    == Cardinality(Accepted(type))

(* The k-th SampleCommitted the sink accepted announced sample k, which is   *)
(* durable then and stays so; at most the newest sample is not announced.    *)
AnnouncedIsDurable ==
  /\ {events[i].committed : i \in Accepted("sample")} = 1 .. Count("sample")
  /\ \A i, j \in Accepted("sample") :
       i < j => events[i].committed < events[j].committed
  /\ Count("sample") \in {Len(acked), Len(acked) - 1}
  /\ Count("sample") <= csvSynced

(* SessionStarted comes first, and nothing follows SessionStopped or         *)
(* SessionFailed: a session the sink was told stopped is not also failed.    *)
EventOrder ==
  \A i \in 1 .. Len(events) :
    /\ events[i].type = "started" <=> i = 1 /\ events[1].type # "failed"
    /\ events[i].type \in {"stopped", "failed"} => i = Len(events)

(* A manifest that says completed tells the whole truth, after a crash too:  *)
(* a stop was requested, every row of the CSV is counted and was announced,  *)
(* and no fragment follows them.                                             *)
CompletedIsComplete ==
  \A i \in 1 .. Len(manifests) :
    manifests[i].status = "completed" =>
      /\ cancel
      /\ manifests[i].committed = Len(csv)
      /\ csvTail = "clean" /\ binTail = "clean" /\ Len(bin) = Len(csv)
      /\ Count("sample") = Len(csv)
      /\ Count("overrun") >= manifests[i].overruns

(* What run_session returned agrees with the visible manifest, the rows and  *)
(* the events.  After Ok the manifest is completed, the sink was told of it  *)
(* last, and both have the counts returned and the CSV as many rows.  After  *)
(* an error the sink was not told that the session stopped, and the manifest *)
(* is failed, with the samples the engine was told are committed; or it is   *)
(* the version before, but only if the recorder's last call failed - after   *)
(* an error of source, analysis or sink that call is the update itself.      *)
Visible == manifests[Len(manifests)]

OutcomeAgrees ==
  pc = "done" /\ wpc = "closed" =>
    /\ outcome.kind = "stopped" =>
         /\ Visible = [status |-> "completed", committed |-> outcome.samples,
                       overruns |-> overruns]
         /\ Len(csv) = outcome.samples
         /\ events # <<>>
         /\ events[Len(events)] = [type |-> "stopped", committed |-> outcome.samples,
                                   overruns |-> overruns]
    /\ outcome.kind \in Reasons =>
         /\ Accepted("stopped") = {}
         /\ manifests # <<>> =>
              \/ Visible = [status |-> "failed", committed |-> Len(acked),
                            overruns |-> overruns]
              \/ ret = "err" /\ Visible.status = "recording"
              \/ ret = "err" /\ Visible.status = "completed" /\ err = "sink"

(* The first terminal error is the one reported: neither the failed-manifest *)
(* update nor the delivery of SessionFailed replaces it, and after it the    *)
(* source is not read and the recorder not asked to commit again.            *)
PrimaryErrorKept ==
  [][err # "none" => /\ err' = err
                     /\ calls' = calls
                     /\ outcome' # outcome => outcome'.kind = err]_evars

(* run_session is the session protocol; in particular at most one sample is  *)
(* announced after the stop request, the one being read when it came.        *)
Protocol == INSTANCE SessionProtocol
  WITH Reason  <- Reasons,
       phase   <- IF outcome # NoOutcome THEN "ended"
                  ELSE IF events # <<>> /\ events[1].type = "started" THEN "running"
                  ELSE "starting",
       samples <- Count("sample"),
       asked   <- cancel,
       grace   <- afterCancel = 0

ImplementsProtocol == Protocol!PSpec

(* A stop request ends the session, even if no interval ever elapses.        *)
CancelEndsSession == cancel ~> (pc \in {"done", "crashed"})

=============================================================================
