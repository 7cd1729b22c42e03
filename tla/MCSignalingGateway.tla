------------------------- MODULE MCSignalingGateway -------------------------
(***************************************************************************)
(* An instance of SignalingGateway for TLC: one ticket, and two sockets    *)
(* that share an address.                                                  *)
(***************************************************************************)
EXTENDS SignalingGateway, TLC

CONSTANTS s1, s2, s3, k1, t1, a1, a2

MCTicketKeyOne == (t1 :> k1)
MCExpiryOne == (t1 :> 1)
MCAddressOf == [s \in Sockets |-> IF s = s1 THEN a1 ELSE a2]
=============================================================================
