----------------------------- MODULE MCFlashAmd -----------------------------
(***************************************************************************)
(* A flash of two parameter blocks of two words, one main block of four    *)
(* and two more parameter blocks for TLC; a page of the write buffer has   *)
(* two words.                                                              *)
(***************************************************************************)
EXTENDS FlashAmd

MCBlockStarts == {0, 2, 4, 8, 10}
MCBits == {0, 7}

(* Chunks of whole pages, and one that ends inside a page.                 *)
MCChunks  == {<<{0}, {7}>>, <<Erased, {}>>, <<{7}, Erased, {0}, {7}>>}
OddChunks == {<<{0}, {7}, {}>>}

MCContents == {[a \in Addresses |-> {7}], [a \in Addresses |-> {}]}
=============================================================================
