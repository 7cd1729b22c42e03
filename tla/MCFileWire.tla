----------------------------- MODULE MCFileWire -----------------------------
(* Small instances of FileWire. *)
EXTENDS FileWire

CONSTANTS u1, u2, d1

\* A chosen upload and a download of two chunks, and a dropped file of one.
MCChunks == [f \in {u1, u2, d1} |-> IF f = u2 THEN 1 ELSE 2]

=============================================================================
