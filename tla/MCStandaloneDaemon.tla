------------------------- MODULE MCStandaloneDaemon -------------------------
(* The instance of StandaloneDaemon for TLC: standalone.cfg gives its          *)
(* constants. It has no symmetry, as Settles is checked in the same run.       *)
EXTENDS StandaloneDaemon

=============================================================================
