----------------------------- MODULE MCRealign -----------------------------
(***************************************************************************)
(* Every payload of up to 9 bytes, at every offset and alignment; all the  *)
(* bytes of rx_data differ, so that each can be told where it goes.        *)
(***************************************************************************)
EXTENDS Realign

MCValues  == 0 .. 15
MCBuffers == {[b \in 0 .. 15 |-> b]}
MCBases   == 0 .. 3
=============================================================================
