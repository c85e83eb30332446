--------------------------- MODULE SessionProtocol ---------------------------
(***************************************************************************)
(* What the caller of run_session is promised, with no writer, clock or    *)
(* source in sight.  A session starts, reports samples one by one, and     *)
(* ends once: stopped, with all it reported, when it was asked to stop, or *)
(* failed for a reason.  A sample reported may miss the sink (then the     *)
(* session fails), and once a stop was requested at most one more sample   *)
(* is reported.                                                            *)
(***************************************************************************)
EXTENDS Naturals

CONSTANT Reason

VARIABLES
  phase,     (* "starting", "running", "ended" *)
  samples,   (* samples the sink accepted      *)
  asked,     (* stop requested                 *)
  grace,     (* may one more sample be reported after the request? *)
  outcome    (* what the caller got            *)

pvars == <<phase, samples, asked, grace, outcome>>

NoOutcome  == [kind |-> "none", samples |-> 0]
Stopped(n) == [kind |-> "stopped", samples |-> n]
Failed(r)  == [kind |-> r, samples |-> 0]

PInit ==
  /\ phase = "starting"
  /\ samples = 0
  /\ asked = FALSE
  /\ grace = TRUE
  /\ outcome = NoOutcome

Start ==
  /\ phase = "starting"
  /\ phase' = "running"
  /\ UNCHANGED <<samples, asked, grace, outcome>>

Ask ==
  /\ ~asked
  /\ asked' = TRUE
  /\ UNCHANGED <<phase, samples, grace, outcome>>

Sample ==
  /\ phase = "running"
  /\ asked => grace
  /\ samples' = samples + 1
  /\ grace' = ~asked
  /\ UNCHANGED <<phase, asked, outcome>>

Stop ==
  /\ phase = "running"
  /\ asked
  /\ phase' = "ended"
  /\ outcome' = Stopped(samples)
  /\ UNCHANGED <<samples, asked, grace>>

Fail ==
  /\ phase # "ended"
  /\ phase' = "ended"
  /\ \E r \in Reason : outcome' = Failed(r)
  /\ UNCHANGED <<samples, asked, grace>>

PNext == Start \/ Ask \/ Sample \/ Stop \/ Fail

PSpec == PInit /\ [][PNext]_pvars

=============================================================================
