---------------------------- MODULE MCViewerClient ----------------------------
(* One Viewer against a network that may fail at any step. *)
EXTENDS ViewerClient
=============================================================================
