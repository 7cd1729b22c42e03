---------------------------- MODULE MCCoreSession ----------------------------
(* Instances of CoreSession for TLC. *)
EXTENDS CoreSession, TLC

=============================================================================
