---------------------------- MODULE MCMediaRuntime ----------------------------
(* One Session; None is a string. *)
EXTENDS MediaRuntime
=============================================================================
