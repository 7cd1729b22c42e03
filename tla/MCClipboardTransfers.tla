------------------------ MODULE MCClipboardTransfers ------------------------
(* A write and a read in two chunks, each asked for by either of two Viewers. *)
EXTENDS ClipboardTransfers

CONSTANTS w1, r1
=============================================================================
