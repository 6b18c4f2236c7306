--------------------------- MODULE NorFlashProofs ---------------------------
(***************************************************************************)
(* Lemmas about erasing and programming a flash, which the proofs about    *)
(* both drivers rest on, and about rounds of a write buffer.               *)
(***************************************************************************)
EXTENDS NorFlash, TLAPS

-----------------------------------------------------------------------------
(* Rounds of B words: r is where one starts, and the next starts B words   *)
(* later and nowhere in between.                                           *)

LEMMA Multiple ==
  ASSUME NEW B \in Nat \ {0}, NEW d \in Int, d >= 1
  PROVE  B * d >= B
BY SMT

LEMMA Euclid ==
  ASSUME NEW B \in Nat \ {0}, NEW x \in Nat
  PROVE  x = B * (x \div B) + (x % B) /\ x % B \in 0 .. (B - 1) /\ x \div B \in Int
BY SMT

LEMMA Unique ==
  ASSUME NEW B \in Nat \ {0}, NEW d \in Int, NEW e \in Int,
         NEW m \in 0 .. (B - 1), NEW n \in 0 .. (B - 1), B * d + m = B * e + n
  PROVE  m = n
<1>1. B * (d - e) = n - m /\ B * (e - d) = m - n
  BY SMT
<1>2. (d - e >= 1 => B * (d - e) >= B) /\ (e - d >= 1 => B * (e - d) >= B)
  BY SMT, Multiple
<1>3. d = e
  BY SMT, <1>1, <1>2
<1> QED
  BY SMT, <1>3, <1>1

LEMMA Remainder ==
  ASSUME NEW B \in Nat \ {0}, NEW q \in Int, NEW j \in 0 .. (B - 1), B * q + j \in Nat
  PROVE  (B * q + j) % B = j
<1> DEFINE x == B * q + j
<1> HIDE DEF x
<1>1. x \in Nat
  BY DEF x
<1>2. x = B * (x \div B) + (x % B) /\ x % B \in 0 .. (B - 1) /\ x \div B \in Int
  BY <1>1, Euclid
<1>3. B * (x \div B) + (x % B) = B * q + j
  BY <1>2, Zenon DEF x
<1>4. x % B = j
  BY <1>2, <1>3, Unique, Zenon
<1> QED
  BY <1>4 DEF x

LEMMA RoundsMeet ==
  ASSUME NEW B \in Nat \ {0}, NEW r \in Nat, r % B = 0
  PROVE  /\ \A j \in 0 .. (B - 1) : (r + j) % B = j
         /\ (r + B) % B = 0
<1>1. PICK q \in Int : r = B * q + 0
  <2>1. r = B * (r \div B) + (r % B) /\ r \div B \in Int
    BY Euclid
  <2> QED
    BY <2>1
<1>2. ASSUME NEW j \in 0 .. (B - 1) PROVE (r + j) % B = j
  <2>1. r + j = B * q + j /\ B * q + j \in Nat
    BY <1>1
  <2> QED
    BY <2>1, Remainder, Zenon
<1>3. (r + B) % B = 0
  <2>1. r + B = B * (q + 1) + 0 /\ B * (q + 1) + 0 \in Nat /\ q + 1 \in Int /\ 0 \in 0 .. (B - 1)
    BY <1>1
  <2> DEFINE p == q + 1
  <2> HIDE DEF p
  <2>2. (B * p + 0) % B = 0
    BY <2>1, Remainder DEF p
  <2> QED
    BY <2>1, <2>2, Zenon DEF p
<1> QED
  BY <1>2, <1>3

-----------------------------------------------------------------------------
(* Memories.                                                               *)

(* The memory once the block is erased, if it has to be, and once n words  *)
(* are written.                                                            *)
Cleared(m, a) == IF a \in BlockStarts THEN EraseAt(m, a) ELSE m

Written(m, a, ws, n) ==
  [b \in Addresses |-> IF b \in a .. (a + n - 1) THEN Cleared(m, a)[b] \cap ws[b - a + 1]
                                                 ELSE Cleared(m, a)[b]]

LEMMA EraseAtType ==
  ASSUME NEW m \in [Addresses -> Words], NEW a
  PROVE  EraseAt(m, a) \in [Addresses -> Words]
BY DEF EraseAt, Words, Erased

LEMMA ClearedType ==
  ASSUME NEW m \in [Addresses -> Words], NEW a
  PROVE  Cleared(m, a) \in [Addresses -> Words]
BY EraseAtType DEF Cleared

LEMMA WrittenType ==
  ASSUME NEW m \in [Addresses -> Words], NEW a, NEW ws, NEW n
  PROVE  Written(m, a, ws, n) \in [Addresses -> Words]
BY ClearedType DEF Written, Words

LEMMA WrittenNone ==
  ASSUME NEW m \in [Addresses -> Words], NEW a \in Nat, NEW ws
  PROVE  Written(m, a, ws, 0) = Cleared(m, a)
<1>1. \A b \in Addresses : b \notin a .. (a + 0 - 1)
  BY FlashConstants DEF Addresses
<1>2. Cleared(m, a) \in [Addresses -> Words]
  BY ClearedType
<1> QED
  BY <1>1, <1>2, Zenon DEF Written

(* Programming the next n words of a chunk.                                *)
LEMMA WrittenMore ==
  ASSUME NEW m \in [Addresses -> Words], NEW a \in Nat, NEW ws \in Seq(Words),
         NEW r \in Nat, NEW new \in Seq(Words), r + Len(new) <= Len(ws),
         \A i \in 1 .. Len(new) : new[i] = ws[r + i]
  PROVE  ProgramAt(Written(m, a, ws, r), a + r, new) = Written(m, a, ws, r + Len(new))
<1> DEFINE w == Written(m, a, ws, r)
           p == ProgramAt(w, a + r, new)
           q == Written(m, a, ws, r + Len(new))
<1> SUFFICES ASSUME NEW b \in Addresses PROVE p[b] = q[b]
  BY DEF ProgramAt, Written
<1>1. b \in Nat /\ Len(new) \in Nat
  BY FlashConstants DEF Addresses
<1>2. p[b] = IF b \in (a + r) .. (a + r + Len(new) - 1) THEN w[b] \cap new[b - (a + r) + 1] ELSE w[b]
  BY DEF ProgramAt, Extent
<1>3. /\ w[b] = IF b \in a .. (a + r - 1) THEN Cleared(m, a)[b] \cap ws[b - a + 1] ELSE Cleared(m, a)[b]
      /\ q[b] = IF b \in a .. (a + (r + Len(new)) - 1) THEN Cleared(m, a)[b] \cap ws[b - a + 1]
                                                       ELSE Cleared(m, a)[b]
  BY DEF Written
<1>4. CASE b \in (a + r) .. (a + r + Len(new) - 1)
  <2>1. new[b - (a + r) + 1] = ws[b - a + 1]
    <3>1. b - (a + r) + 1 \in 1 .. Len(new) /\ r + (b - (a + r) + 1) = b - a + 1
      BY <1>1, <1>4
    <3> QED
      BY <3>1
  <2>2. b \notin a .. (a + r - 1) /\ b \in a .. (a + (r + Len(new)) - 1)
    BY <1>1, <1>4
  <2> QED
    BY <1>2, <1>3, <1>4, <2>1, <2>2, Zenon
<1>5. CASE b \notin (a + r) .. (a + r + Len(new) - 1)
  <2>1. b \in a .. (a + r - 1) <=> b \in a .. (a + (r + Len(new)) - 1)
    BY <1>1, <1>5
  <2> QED
    BY <1>2, <1>3, <1>5, <2>1, Zenon
<1> QED
  BY <1>4, <1>5

(* A word with all its bits set changes nothing.                           *)
LEMMA WrittenErased ==
  ASSUME NEW m \in [Addresses -> Words], NEW a \in Nat, NEW ws, NEW n \in Nat,
         ws[n + 1] = Erased
  PROVE  Written(m, a, ws, n + 1) = Written(m, a, ws, n)
<1> DEFINE p == Written(m, a, ws, n + 1)
           q == Written(m, a, ws, n)
<1> SUFFICES ASSUME NEW b \in Addresses PROVE p[b] = q[b]
  BY DEF Written
<1>1. b \in Nat
  BY FlashConstants DEF Addresses
<1>2. Cleared(m, a)[b] \subseteq Erased
  BY ClearedType DEF Words, Erased
<1>3. CASE b = a + n
  <2>1. b - a + 1 = n + 1 /\ b \in a .. (a + (n + 1) - 1) /\ b \notin a .. (a + n - 1)
    BY <1>1, <1>3
  <2> QED
    BY <2>1, <1>2 DEF Written
<1>4. CASE b # a + n
  <2>1. b \in a .. (a + (n + 1) - 1) <=> b \in a .. (a + n - 1)
    BY <1>1, <1>4
  <2> QED
    BY <2>1, Zenon DEF Written
<1> QED
  BY <1>3, <1>4

(* The command's outcome is that its block is cleared and, with a write     *)
(* method, that all its words are written.                                 *)
LEMMA OutcomeWritten ==
  ASSUME NEW m \in [Addresses -> Words], NEW a \in Nat, NEW ws \in Chunks,
         NEW md \in {ERASE_WRITE_BLOCK, ERASE_WRITE_BUFFER}
  PROVE  Outcome(m, a, md, ws) = Written(m, a, ws, Len(ws))
<1>1. Outcome(m, a, md, ws) = ProgramAt(Cleared(m, a), a, ws)
  BY DEF Outcome, Cleared
<1> QED
  BY <1>1, Zenon DEF ProgramAt, Written, Extent

LEMMA OutcomeCleared ==
  ASSUME NEW m, NEW a, NEW ws, NEW md, md \notin {ERASE_WRITE_BLOCK, ERASE_WRITE_BUFFER}
  PROVE  Outcome(m, a, md, ws) = Cleared(m, a)
BY DEF Outcome, Cleared
=============================================================================
