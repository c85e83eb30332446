---------------------------- MODULE MCAccumulator -----------------------------
(* Counters a few samples fill, totals as wide as the assumption demands. *)
EXTENDS Accumulator
=============================================================================
