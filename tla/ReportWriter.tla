------------------------------- MODULE ReportWriter -------------------------------
(***************************************************************************)
(* XLSX reports: callers of rngkit_xlsx::write_report, in one process or   *)
(* several, that write to the same destination, as built for Unix or for   *)
(* Windows.  Calls race with each other and with programs that create the  *)
(* destination; every file operation may fail, processes are killed, power *)
(* is lost.                                                                *)
(*                                                                         *)
(* Data abstraction.  A workbook is how much of it is in its file; a file  *)
(* is known by the call that created it.  Temporary names are the value of *)
(* the process-wide counter: the rest of the name, process id and clock,   *)
(* may be equal in all processes (a restart may get the id again, a clock  *)
(* before 1970 counts as 0).  Directory entries follow the order of a      *)
(* journal, as in SessionWriter: a sync of any file makes the earlier ones *)
(* durable.  What the calls of Windows do is taken from how report.rs uses *)
(* them: MoveFileExW writes through and does not replace; ReplaceFileW,    *)
(* without a backup, may fail with the replaced file gone.                 *)
(***************************************************************************)
EXTENDS Naturals, Sequences

CONSTANTS
  Writers,     (* the calls                                             *)
  Processes,
  ProcessOf,   (* of a call                                             *)
  Overwrite,   (* of a call: ErrorIfExists or Replace                   *)
  Names,       (* bound on the temporary names: values of the counter   *)
  Planted,     (* those that other programs have taken before           *)
  Attempts     (* how many names a call tries: 1024 in the code         *)

Nobody   == "nobody"
Stranger == "stranger"

ASSUME WritersAssumption ==
  /\ ProcessOf \in [Writers -> Processes]
  /\ Overwrite \in [Writers -> {"ErrorIfExists", "Replace"}]
  /\ Nobody \notin Writers /\ Stranger \notin Writers

ASSUME NamesAssumption ==
  /\ Names \subseteq Nat
  /\ Planted \subseteq Names
  /\ Attempts \in Nat \ {0}

VARIABLES
  windows,     (* cfg(windows): a constant of the build                           *)
  journal,     (* states of the directory: the first is durable, the last visible *)
  data,        (* of a call's file: how much of the workbook it holds             *)
  counter,     (* TEMP_COUNTER of each process                                    *)
  job,         (* of a call: its local variables                                  *)
  told,        (* what each call returned                                         *)
  published    (* history: calls whose workbook got the destination's name        *)

rvars == <<windows, journal, data, counter, job, told, published>>

dir == journal[Len(journal)]

Free(owner) == owner = Nobody

(* a call without local variables: not begun, or left *)
Call(pc) == [pc |-> pc, name |-> 0, handle |-> Nobody, tries |-> 0, error |-> "none"]

(* a report that is there before any call is one that Occupy makes first *)
RInit ==
  /\ windows \in BOOLEAN
  /\ journal = <<[temp |-> [n \in Names |-> IF n \in Planted THEN Stranger ELSE Nobody],
                   dest |-> Nobody]>>
  /\ data = [w \in Writers |-> "none"]
  /\ counter = [p \in Processes |-> 0]
  /\ job = [w \in Writers |-> Call("check")]
  /\ told = [w \in Writers |-> "nothing"]
  /\ published = {}

-----------------------------------------------------------------------------
(* write_report_with_options *)

Writing == {"check", "temp", "write", "sync", "promote", "remove", "discard"}
Over    == {"done", "dead"}

At(w, pc) == job[w].pc = pc

GoTo(w, pc) == job' = [job EXCEPT ![w].pc = pc]

Record(entries) == journal' = Append(journal, entries)

(* the same, written through *)
RecordSynced(entries) == journal' = <<entries>>

Return(w, verdict) ==
  /\ job' = [job EXCEPT ![w] = Call("done")]
  /\ told' = [told EXCEPT ![w] = verdict]

(* an error once the temporary file exists: it is removed first *)
Abort(w, error) ==
  /\ job' = [job EXCEPT ![w].pc = "discard", ![w].error = error]
  /\ UNCHANGED told

(* the row limit, dest.exists(), the analysis of the rows *)
Check(w) ==
  /\ At(w, "check")
  /\ \/ Return(w, "rejected")
     \/ ~Free(dir.dest) /\ Overwrite[w] = "ErrorIfExists" /\ Return(w, "exists")
     \/ (Free(dir.dest) \/ Overwrite[w] = "Replace") /\ GoTo(w, "temp") /\ UNCHANGED told
  /\ UNCHANGED <<journal, data, counter, published>>

(* mutated: one attempt too many *)
MayTryAgain(w) == job[w].tries <= Attempts

MayTry(w) == job[w].tries < Attempts

(* mutated: what is there is opened *)
OpenTemp(w) ==
  LET n      == counter[ProcessOf[w]]
      opened == IF Free(dir.temp[n]) THEN w ELSE dir.temp[n]
  IN  /\ At(w, "temp")
      /\ n \in Names
      /\ opened # Stranger
      /\ counter' = [counter EXCEPT ![ProcessOf[w]] = n + 1]
      /\ Record([dir EXCEPT !.temp[n] = opened])
      /\ data' = [data EXCEPT ![opened] = "partial"]
      /\ job' = [job EXCEPT ![w].pc = "write", ![w].name = n, ![w].handle = opened]
      /\ UNCHANGED <<told, published>>

(* create_owned_temp: the next name; create_new refuses one that is taken *)
CreateTemp(w) ==
  LET n == counter[ProcessOf[w]]
  IN  /\ At(w, "temp")
      /\ n \in Names
      /\ MayTry(w)
      /\ counter' = [counter EXCEPT ![ProcessOf[w]] = n + 1]
      /\ \/ /\ Free(dir.temp[n])
            /\ Record([dir EXCEPT !.temp[n] = w])
            /\ data' = [data EXCEPT ![w] = "partial"]
            /\ job' = [job EXCEPT ![w].pc = "write", ![w].name = n, ![w].handle = w]
            /\ UNCHANGED told
         \/ /\ ~Free(dir.temp[n])
            /\ job' = [job EXCEPT ![w].tries = @ + 1]
            /\ UNCHANGED <<journal, data, told>>
         \/ Return(w, "io") /\ UNCHANGED <<journal, data>>
      /\ UNCHANGED published

OutOfNames(w) ==
  /\ At(w, "temp")
  /\ ~MayTry(w)
  /\ Return(w, "io")
  /\ UNCHANGED <<journal, data, counter, published>>

(* the workbook goes to whatever file the call has open *)
Fill(w, amount) == data' = [data EXCEPT ![job[w].handle] = amount]

WriteWorkbook(w) ==
  /\ At(w, "write")
  /\ \/ Fill(w, "whole") /\ GoTo(w, "sync") /\ UNCHANGED told
     \/ Abort(w, "other") /\ UNCHANGED data
  /\ UNCHANGED <<journal, counter, published>>

(* mutated: flushed, not synced *)
FlushWorkbook(w) ==
  /\ At(w, "sync")
  /\ GoTo(w, "promote")
  /\ UNCHANGED <<journal, data, counter, told, published>>

SyncWorkbook(w) ==
  /\ At(w, "sync")
  /\ \/ Fill(w, "durable") /\ journal' = <<dir>> /\ GoTo(w, "promote") /\ UNCHANGED told
     \/ Abort(w, "other") /\ UNCHANGED <<data, journal>>
  /\ UNCHANGED <<counter, published>>

(* mutated: a rename, after Check has seen no destination *)
LinkByRename(w) ==
  /\ At(w, "promote") /\ ~windows
  /\ Overwrite[w] = "ErrorIfExists"
  /\ Record([dir EXCEPT !.dest = w, !.temp[job[w].name] = Nobody])
  /\ published' = published \cup {w}
  /\ Return(w, "ok")
  /\ UNCHANGED <<data, counter>>

(* promote_noclobber: hard_link refuses a destination that is there ... *)
Link(w) ==
  /\ At(w, "promote") /\ ~windows
  /\ Overwrite[w] = "ErrorIfExists"
  /\ \/ /\ Free(dir.dest)
        /\ Record([dir EXCEPT !.dest = dir.temp[job[w].name]])
        /\ published' = published \cup {w}
        /\ GoTo(w, "remove")
        /\ UNCHANGED told
     \/ ~Free(dir.dest) /\ Abort(w, "taken") /\ UNCHANGED <<journal, published>>
     \/ Abort(w, "promotion") /\ UNCHANGED <<journal, published>>
  /\ UNCHANGED <<data, counter>>

(* ... then the temporary name is removed; an error of that counts, too *)
RemoveTemp(w) ==
  /\ At(w, "remove")
  /\ \/ Record([dir EXCEPT !.temp[job[w].name] = Nobody]) /\ Return(w, "ok")
     \/ Abort(w, "promotion") /\ UNCHANGED journal
  /\ UNCHANGED <<data, counter, published>>

(* the workbook gets the destination's name in one step, and loses its own *)
Renamed(w) == [dir EXCEPT !.dest = dir.temp[job[w].name], !.temp[job[w].name] = Nobody]

(* mutated: MOVEFILE_REPLACE_EXISTING *)
MoveOver(w) ==
  /\ At(w, "promote") /\ windows
  /\ Overwrite[w] = "ErrorIfExists"
  /\ RecordSynced(Renamed(w))
  /\ published' = published \cup {w}
  /\ Return(w, "ok")
  /\ UNCHANGED <<data, counter>>

(* promote_noclobber_windows *)
Move(w) ==
  /\ At(w, "promote") /\ windows
  /\ Overwrite[w] = "ErrorIfExists"
  /\ \/ /\ Free(dir.dest)
        /\ RecordSynced(Renamed(w))
        /\ published' = published \cup {w}
        /\ Return(w, "ok")
     \/ ~Free(dir.dest) /\ Abort(w, "taken") /\ UNCHANGED <<journal, published>>
     \/ Abort(w, "promotion") /\ UNCHANGED <<journal, published>>
  /\ UNCHANGED <<data, counter>>

(* replace_file: a rename; if it fails and the destination is there, another *)
(* rename or ReplaceFileW, of which nothing else is seen when it succeeds    *)
Replace(w) ==
  /\ At(w, "promote")
  /\ Overwrite[w] = "Replace"
  /\ \/ /\ Record(Renamed(w))
        /\ published' = published \cup {w}
        /\ Return(w, "ok")
     \/ Abort(w, "promotion") /\ UNCHANGED <<journal, published>>
  /\ UNCHANGED <<data, counter>>

(* replace_existing on Windows, failing half-way *)
ReplaceHalf(w) ==
  /\ At(w, "promote") /\ windows
  /\ Overwrite[w] = "Replace"
  /\ ~Free(dir.dest)
  /\ Record([dir EXCEPT !.dest = Nobody])
  /\ Abort(w, "promotion")
  /\ UNCHANGED <<data, counter, published>>

(* mutated: only the error itself is looked at *)
VerdictByKind(w) == IF job[w].error = "taken" THEN "exists" ELSE "io"

(* a failed promotion without overwriting is a conflict if the destination   *)
(* is there by now                                                           *)
Verdict(w) ==
  IF /\ Overwrite[w] = "ErrorIfExists"
     /\ \/ job[w].error = "taken"
        \/ job[w].error = "promotion" /\ ~Free(dir.dest)
  THEN "exists"
  ELSE "io"

(* remove_file by name; its error is ignored *)
Discard(w) ==
  /\ At(w, "discard")
  /\ \/ Record([dir EXCEPT !.temp[job[w].name] = Nobody])
     \/ UNCHANGED journal
  /\ Return(w, Verdict(w))
  /\ UNCHANGED <<data, counter, published>>

WriteReport(w) ==
  \/ Check(w) \/ CreateTemp(w) \/ OutOfNames(w) \/ WriteWorkbook(w) \/ SyncWorkbook(w)
  \/ Link(w) \/ RemoveTemp(w) \/ Move(w) \/ Replace(w) \/ ReplaceHalf(w) \/ Discard(w)

-----------------------------------------------------------------------------
(* The environment *)

(* another program creates the destination, as long as a call runs *)
Occupy ==
  /\ \E w \in Writers : job[w].pc \notin Over
  /\ Free(dir.dest)
  /\ Record([dir EXCEPT !.dest = Stranger])
  /\ UNCHANGED <<data, counter, job, told, published>>

End(ended) ==
  job' = [w \in Writers |->
            IF w \in ended /\ ~At(w, "done") THEN Call("dead") ELSE job[w]]

(* the process that takes its place starts with a new counter *)
Running(p) == {w \in Writers : ProcessOf[w] = p /\ job[w].pc \in Writing \ {"check"}}

Kill(p) ==
  /\ Running(p) # {}
  /\ End(Running(p))
  /\ counter' = [counter EXCEPT ![p] = 0]
  /\ UNCHANGED <<journal, data, told, published>>

(* the directory goes back to some state since the last sync; a file that   *)
(* was not synced may have lost a part                                       *)
PowerLoss ==
  /\ \E k \in DOMAIN journal : journal' = <<journal[k]>>
  /\ data' \in {after \in [Writers -> {"none", "partial", "whole", "durable"}] :
                  \A w \in Writers :
                    \/ after[w] = data[w]
                    \/ data[w] = "whole" /\ after[w] = "partial"}
  /\ End(Writers)
  /\ counter' = [p \in Processes |-> 0]
  /\ UNCHANGED <<told, published>>

RNext ==
  /\ \/ \E w \in Writers : WriteReport(w)
     \/ \E p \in Processes : Kill(p)
     \/ Occupy
     \/ PowerLoss
  /\ UNCHANGED windows

RSpec == RInit /\ [][RNext]_rvars

-----------------------------------------------------------------------------
(* Properties *)

Owner == Writers \cup {Nobody, Stranger}

Directory == [temp : [Names -> Owner], dest : Owner]

Job ==
  [pc : Writing \cup Over, name : Names \cup {0}, handle : Writers \cup {Nobody},
   tries : 0 .. Attempts, error : {"none", "other", "taken", "promotion"}]

StateOK ==
  /\ journal \in Seq(Directory) /\ journal # <<>>
  /\ data \in [Writers -> {"none", "partial", "whole", "durable"}]
  /\ counter \in [Processes -> Nat]
  /\ job \in [Writers -> Job]
  /\ told \in [Writers -> {"nothing", "ok", "exists", "rejected", "io"}]
  /\ published \in SUBSET Writers

(* The type of the directory's and the calls' state. *)
ReportTypeOK == windows \in BOOLEAN /\ StateOK

(* "A failure leaves no partial final workbook": whoever fails, is killed or *)
(* loses power, the destination holds a whole, synced workbook or what was   *)
(* there before.                                                             *)
DestIsWhole ==
  dir.dest \in Writers => data[dir.dest] = "durable"

(* A report that has the destination's name loses it to a call that asked    *)
(* for Replace and put its own in its place, or to a power loss that ends    *)
(* every call - never to an ErrorIfExists call, although both look before    *)
(* they act, and to a Replace that fails on Windows only, by no report.      *)
NoClobber ==
  [][dir'.dest # dir.dest =>
       \/ Free(dir.dest)
       \/ \E w \in Writers :
            /\ Overwrite[w] = "Replace"
            /\ \/ dir'.dest = w /\ told'[w] = "ok"
               \/ windows /\ Free(dir'.dest) /\ At(w, "promote")
       \/ \A w \in Writers : job'[w].pc = "dead" \/ (At(w, "done") /\ UNCHANGED job[w])]_rvars

(* No call takes away, links or fills a temporary file that is not its own,  *)
(* although names are guessable and may be taken, left behind by a killed    *)
(* call, or used again.                                                      *)
Acts(w) == job'[w] # job[w]

OthersTempsKept ==
  [][\A w \in Writers : Acts(w) /\ job'[w].pc # "dead" =>
       /\ \A n \in Names : dir'.temp[n] # dir.temp[n] => dir.temp[n] \in {Nobody, w}
       /\ \A v \in Writers \ {w} : data'[v] = data[v]
       /\ dir'.dest # dir.dest => dir'.dest = w \/ (windows /\ Free(dir'.dest))]_rvars

(* What a call returns agrees with the destination's history: "ok" means the *)
(* workbook got the name, an error other than the conflict that it did not.  *)
(* Hence a failed Replace on Windows has published nothing.                  *)
VerdictAgrees ==
  \A w \in Writers :
    /\ told[w] = "ok" => w \in published
    /\ told[w] \in {"io", "rejected"} => w \notin published

(* crates/rngkit-xlsx/src/error.rs:15 on AlreadyExists: "Output already      *)
(* exists and overwrite was not selected" - existed before this call.        *)
ConflictIsWithAnother ==
  \A w \in Writers : told[w] = "exists" => w \notin published

=============================================================================
