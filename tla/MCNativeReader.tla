---------------------------- MODULE MCNativeReader ----------------------------
(* One reader beside one recorder under any client. *)
EXTENDS NativeReader
=============================================================================
