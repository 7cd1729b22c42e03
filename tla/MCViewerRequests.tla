-------------------------- MODULE MCViewerRequests --------------------------
(* A few requests of each kind between Core and two successive Viewers. *)
EXTENDS ViewerRequests

CONSTANTS n1, n2, o1, v1, q1, q2
=============================================================================
