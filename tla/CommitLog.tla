------------------------------ MODULE CommitLog ------------------------------
(***************************************************************************)
(* What the recorder promises about samples, with no file in sight: a log  *)
(* to which at most one sample is being added.  A sample is stored, then   *)
(* reported; a stored sample that is not reported may be lost again, a     *)
(* reported one never is.                                                  *)
(***************************************************************************)
EXTENDS Naturals, Sequences

CONSTANT Value

VARIABLES
  stored,    (* what a reader of the commit marker finds *)
  reported   (* what the owner was told is committed     *)

lvars == <<stored, reported>>

Settled == stored = reported

LInit ==
  /\ stored = <<>>
  /\ reported = <<>>

Store(v) ==
  /\ Settled
  /\ stored' = Append(stored, v)
  /\ UNCHANGED reported

Report ==
  /\ ~Settled
  /\ reported' = stored
  /\ UNCHANGED stored

Lose ==
  /\ ~Settled
  /\ stored' = reported
  /\ UNCHANGED reported

LNext ==
  \/ \E v \in Value : Store(v)
  \/ Report
  \/ Lose

LSpec == LInit /\ [][LNext]_lvars

=============================================================================
