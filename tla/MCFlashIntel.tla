---------------------------- MODULE MCFlashIntel ----------------------------
(***************************************************************************)
(* A flash of two parameter blocks of two words and one main block of four *)
(* words for TLC, with a write buffer of two words, so that a chunk takes  *)
(* one full round, one short one, or both.                                 *)
(***************************************************************************)
EXTENDS FlashIntel

MCBlockStarts == {0, 2, 4}
MCBits == {0, 7}

MCChunks == {<<{}>>, <<{0}, {7}>>, <<Erased, {7}>>, <<{0}, {}, {7}>>, <<{7}, Erased, {0}, {7}>>}

MCContents == {[a \in Addresses |-> {7}], [a \in Addresses |-> {}]}
=============================================================================
