---------------------------- MODULE MCAttention ----------------------------
(* Two senders with the same prefix would be a coincidence: one is enough.  *)
EXTENDS Attention
Senders == {<<1, 1>>, <<2, 1>>}
Own     == <<3, 1>>
===========================================================================
