------------------------------- MODULE Texts -------------------------------
(***************************************************************************)
(* The texts in which the host and the loader name numbers: hexadecimal    *)
(* digits, most significant first. A handler puts its answer together in   *)
(* an array on the stack that holds anything before; the answer is what    *)
(* stands there up to the first NUL, and most of the NULs the conversions  *)
(* write are meant to be written over by the next piece.                   *)
(***************************************************************************)
EXTENDS ByteMemory, SequencesExt

CONSTANT MAX_READ_RESPONSE_SIZE         \* bytes of the array on the stack

ASSUME TextsConstants == MAX_READ_RESPONSE_SIZE \in Nat /\ MAX_READ_RESPONSE_SIZE > 33

CMD_32_SIZE == 8
CMD_16_SIZE == 4

Zero  == 48                             \* "0"
Comma == 44
Colon == 58

HexDigit(d) == IF d > 9 THEN d + 55 ELSE d + 48

(* util_u8_to_hexasc() and its kin for n = 2, 4 and 8: the digit n places  *)
(* from the end is the one of the n-th power of 16.                        *)
Power == <<1, 16, 256, 4096, 65536, 1048576, 16777216, 268435456>>

HexAsc(val, n) == [k \in 1 .. n |-> HexDigit((val \div Power[n - k + 1]) % 16)]

(* Whatever the character is, it counts as a digit.                        *)
DigitValue(c) == IF c >= 65 THEN c - 55 ELSE c - 48

(* util_hexasc_to_u32() shifts the u32 it has for every digit; it is used  *)
(* for four and for eight of them, found from index k of the data on.      *)
Shift(val, c)   == (val % Power[8]) * 16 + DigitValue(c)
Four(val, s, k) == Shift(Shift(Shift(Shift(val, s[k]), s[k + 1]), s[k + 2]), s[k + 3])

Number16(s, k) == Four(0, s, k)
Number32(s, k) == Four(Four(0, s, k), s, k + 4)

-----------------------------------------------------------------------------
(* The answers. Stale stands for what the array on the stack held before.  *)

Stale   == -1
OnStack == [k \in 0 .. (MAX_READ_RESPONSE_SIZE - 1) |-> Stale]

PutString(mem, at, s) == Store(mem, at, s \o <<NUL>>)

Zeros(n) == [k \in 1 .. n |-> Zero]

(* Numbers of n digits one behind the other: each takes the place of the   *)
(* NUL that the one before it has left.                                    *)
PutAll(vals, n) ==
  LET Upto[k \in 0 .. Len(vals)] ==
        IF k = 0 THEN OnStack ELSE PutString(Upto[k - 1], n * (k - 1), HexAsc(vals[k], n))
  IN Upto[Len(vals)]

RSHW(version) ==
  CString(PutString(Store(OnStack, 0, Zeros(16)), 12, HexAsc(version, CMD_16_SIZE)))

(* Mutant: the separator is put before the text it has to follow.          *)
RSVN_CommaFirst(version) ==
  LET number  == HexAsc(version, CMD_16_SIZE)
      comma   == Store(Store(OnStack, 0, Zeros(33)), 16, <<Comma>>)
  IN CString(PutString(PutString(comma, 12, number), 29, number))

(* The separator takes the place of the NUL of the first number, ...       *)
RSVN(version) ==
  LET number == HexAsc(version, CMD_16_SIZE)
      first  == PutString(Store(OnStack, 0, Zeros(33)), 12, number)
  IN CString(PutString(Store(first, 16, <<Comma>>), 29, number))

(* ... and each part of this answer that of the part before.               *)
SW   == [k \in 1 .. 14 |-> 83]          \* "Hitagi SW v1.0"
FLEX == [k \in 1 .. 16 |-> 70]          \* "Hitagi FLEX v1.0"
RSSW(sw, flex) ==
  CString(PutString(PutString(PutString(OnStack, 0, sw), 14, <<Colon>>), 15, flex))

(* The last register comes first.                                          *)
RSSN(uid) == CString(PutAll(Reverse(uid), CMD_16_SIZE))

RSFI(id) == CString(PutString(OnStack, 0, HexAsc(id, CMD_32_SIZE)))

OTP(bytes) == CString(PutAll(bytes, 2))

-----------------------------------------------------------------------------
(* The host finds the number val, of n digits, from index k of a text on.  *)

Reads(text, k, val, n) ==
  /\ k + n - 1 <= Len(text)
  /\ \A i \in 1 .. n :
       LET digit == (val \div Power[n - i + 1]) % 16
       IN text[k + i - 1] = IF digit < 10 THEN Zero + digit ELSE 55 + digit
=============================================================================
