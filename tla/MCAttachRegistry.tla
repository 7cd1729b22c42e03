--------------------------- MODULE MCAttachRegistry ---------------------------
(***************************************************************************)
(* Instances of AttachRegistry for TLC: p is open at the start and may     *)
(* open c, which may open d; n is a page Core creates, and opens e.        *)
(***************************************************************************)
EXTENDS AttachRegistry, TLC

CONSTANTS i1, i2, p, c, d, n, e

MCOpener == [t \in Targets |-> IF t = c THEN p ELSE IF t = d THEN c ELSE IF t = e THEN n ELSE None]
AnyId == Permutations(Ids)
=============================================================================
