----------------------------- MODULE NorFlash -----------------------------
(***************************************************************************)
(* A NOR flash is a function from word addresses to words, and a word is   *)
(* the set of its bits that are 1: erasing a block sets every bit of its   *)
(* words, programming can only clear bits.                                 *)
(***************************************************************************)
EXTENDS Integers, Sequences

CONSTANTS
  Size,             \* words in the flash
  BlockStarts,      \* the addresses at which its erase blocks start
  Bits,             \* the bits of a word
  Contents,         \* what the flash may hold at first
  Chunks,           \* payloads of the host's BIN commands: sequences of words
  MaxMode           \* how often the host sends ERASE (bound of the model)

ASSUME FlashConstants ==
  /\ Size \in Nat /\ BlockStarts \subseteq 0 .. (Size - 1)
  /\ Contents \subseteq [0 .. (Size - 1) -> SUBSET Bits]
  /\ Chunks \subseteq Seq(SUBSET Bits) /\ MaxMode \in Nat

Addresses == 0 .. (Size - 1)
Words     == SUBSET Bits
Erased    == Bits                       \* 0xFFFF

(* HITAGI_CMDLET_ERASE_T                                                   *)
ERASE_NO           == 0
ERASE_WRITE_BLOCK  == 1
ERASE_WRITE_BUFFER == 2
ERASE_ONLY         == 3

(* The block that holds the word at a.                                     *)
Block(a) == {b \in Addresses : \A s \in BlockStarts : s <= a <=> s <= b}

Extent(a, ws) == a .. (a + Len(ws) - 1)

EraseAt(m, a) == [b \in Addresses |-> IF b \in Block(a) THEN Erased ELSE m[b]]

ProgramAt(m, a, ws) ==
  [b \in Addresses |-> IF b \in Extent(a, ws) THEN m[b] \cap ws[b - a + 1] ELSE m[b]]

Outcome(m, a, md, ws) ==
  LET ready == IF a \in BlockStarts THEN EraseAt(m, a) ELSE m
  IN IF md \in {ERASE_WRITE_BLOCK, ERASE_WRITE_BUFFER} THEN ProgramAt(ready, a, ws)
                                                       ELSE ready

(* A mode beyond the last one erases like the others and then gives up,    *)
(* without moving the address.                                             *)
NextAddress(a, md, ws) == IF md <= ERASE_ONLY THEN a + Len(ws) ELSE a
=============================================================================
