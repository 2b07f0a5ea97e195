------------------------- MODULE MCInboundMessages -------------------------
(* Two contacts with the same prefix; frames name that prefix.             *)
EXTENDS InboundMessages

CONSTANTS r1, r2, f1, f2

MCHome   == [f \in Frames |-> IF f = f2 THEN r2 ELSE r1]
MCSender == [x \in Frames \cup Contacts |-> "p"]
=============================================================================
