-------------------------- MODULE MCOutboundQueue --------------------------
(* Two direct messages and one channel message on one link. *)
EXTENDS OutboundQueue, TLC
CONSTANTS d1, d2, c1, k1, k2

MCDirect == {d1, d2}
MCChannel == {c1}
MCNone == {}
MCCodes == {k1, k2}
MCCrc == (d1 :> k1) @@ (d2 :> k2)
===========================================================================
