-------------------------- MODULE MCQualityControl --------------------------
(* One Publisher with three levels and windows of two samples. *)
EXTENDS QualityControl
=============================================================================
