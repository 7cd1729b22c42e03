--------------------------- MODULE MCFileTransfers ---------------------------
(* Instances of FileTransfers for TLC. *)
EXTENDS FileTransfers, TLC

\* An upload and a download fill the budget together, and each download alone.
OneByte == [o \in Offers |-> 1]
TwoBytes == [g \in Guids |-> 2]
=============================================================================
