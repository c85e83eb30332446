--------------------------- MODULE MCSessionWriter ---------------------------
(* The recorder alone, under any client. *)
EXTENDS SessionWriter
=============================================================================
