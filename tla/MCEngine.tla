------------------------------- MODULE MCEngine -------------------------------
(* One session, every interleaving with cancellation, I/O errors and crashes. *)
EXTENDS Engine
=============================================================================
