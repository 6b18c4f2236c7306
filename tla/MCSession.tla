----------------------------- MODULE MCSession -----------------------------
(***************************************************************************)
(* Uploads for TLC to a memory of two blocks of two words and one of four: *)
(* to RAM, to one block, and across blocks with several chunks in one; the *)
(* last block holds the version. The host reads back two words at once,    *)
(* which leaves one for the last READ of an odd image. The second phone    *)
(* hands over a byte of the OTP sector that it has not read.               *)
(***************************************************************************)
EXTENDS Session

MCBlockStarts == {0, 2, 4}
MCBits == {0}

A == <<{}, {0}>>
B == <<{0}, {}>>
C == <<{}>>
MCChunks == {A, B, C}

Upload(m, a, cs) ==
  [mode |-> m, image |-> FlattenSeq(cs),
   at |-> [n \in 1 .. (Len(cs) + 1) |-> a + Len(FlattenSeq(SubSeq(cs, 1, n - 1)))]]

MCPlans == {Upload(ERASE_NO, 1, <<A, C, B>>),
            Upload(ERASE_WRITE_BLOCK, 0, <<A>>),
            Upload(ERASE_WRITE_BLOCK, 2, <<B, A, B>>),
            Upload(ERASE_WRITE_BUFFER, 4, <<C, B, C>>)}

MCPhones == {[version |-> 41222, uid |-> <<1, 22, 333, 4444, 55555, 43981, 0, 65535>>,
              id |-> 8947732, otp |-> <<0, 171, 9, 255>>, unread |-> 0],
             [version |-> 9, uid |-> <<0, 0, 0, 0, 0, 0, 0, 0>>, id |-> 0, otp |-> <<16>>,
              unread |-> 1]}

MCValue == [w \in Words |-> IF w = {} THEN 4660 ELSE 65535]

MCContents == {[a \in Addresses |-> {}], [a \in Addresses |-> {0}]}
=============================================================================
