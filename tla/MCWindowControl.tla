--------------------------- MODULE MCWindowControl ---------------------------
(* Instances of WindowControl for TLC. *)
EXTENDS WindowControl, TLC

AnyChild == Permutations(Children)
=============================================================================
