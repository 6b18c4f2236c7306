--------------------------- MODULE SessionProofs ---------------------------
(***************************************************************************)
(* Proofs about Session, for every memory, upload, phone and number of     *)
(* power failures: the chunks go to their places, what the host is sure of *)
(* stays, the image is read back, and the answers to questions are true.   *)
(***************************************************************************)
EXTENDS Session, WellFoundedInduction, TLAPS

-----------------------------------------------------------------------------
(* A number written in upper-case digits is the number that is read again. *)

LEMMA Powers ==
  /\ Power[1] = 1 /\ Power[2] = 16 /\ Power[3] = 256 /\ Power[4] = 4096
  /\ Power[5] = 65536 /\ Power[6] = 1048576 /\ Power[7] = 16777216
  /\ Power[8] = 268435456
BY SMT DEF Power

(* The digit behind the ones of d comes to stand at the end of d.          *)
LEMMA DigitAppended ==
  ASSUME NEW d \in Nat, d \div 16 < 268435456
  PROVE  Shift(d \div 16, HexDigit(d % 16)) = d
<1>1. d % 16 \in 0 .. 15 /\ d = 16 * (d \div 16) + (d % 16) /\ d \div 16 \in Nat
  BY SMT
<1>2. DigitValue(HexDigit(d % 16)) = d % 16
  BY SMT, <1>1 DEF DigitValue, HexDigit
<1>3. (d \div 16) % 268435456 = d \div 16
  BY SMT, <1>1
<1> QED
  BY SMT, <1>1, <1>2, <1>3, Powers DEF Shift

(* The places of a number: the first digits of it form a number again.     *)
LEMMA Places ==
  ASSUME NEW x \in Nat
  PROVE  /\ x \div 1 = x
         /\ (x \div 1) \div 16 = x \div 16
         /\ (x \div 16) \div 16 = x \div 256
         /\ (x \div 256) \div 16 = x \div 4096
         /\ (x \div 4096) \div 16 = x \div 65536
         /\ (x \div 65536) \div 16 = x \div 1048576
         /\ (x \div 1048576) \div 16 = x \div 16777216
         /\ (x \div 16777216) \div 16 = x \div 268435456
<1>1. x \div 1 = x
  BY SMT
<1>2. (x \div 16) \div 16 = x \div 256
  BY SMT
<1>3. (x \div 256) \div 16 = x \div 4096
  BY SMT
<1>4. (x \div 4096) \div 16 = x \div 65536
  BY SMT
<1>5. (x \div 65536) \div 16 = x \div 1048576
  BY SMT
<1>6. (x \div 1048576) \div 16 = x \div 16777216
  BY SMT
<1>7. (x \div 16777216) \div 16 = x \div 268435456
  BY SMT
<1> QED
  BY SMT, <1>1, <1>2, <1>3, <1>4, <1>5, <1>6, <1>7

(* The characters of s from k on are the n digits of x.                    *)
Digits(s, k, x, n) ==
  \A i \in 0 .. (n - 1) : s[k + i] = HexDigit((x \div Power[n - i]) % 16)

(* What util_u16_to_hexasc() writes, util_hexasc_to_u32() reads.           *)
LEMMA ReadsNumber16 ==
  ASSUME NEW x \in Nat, x < 16 * Power[4], NEW s, NEW k \in Nat, Digits(s, k, x, 4)
  PROVE  Number16(s, k) = x
<1>1. /\ s[k] = HexDigit((x \div 4096) % 16) /\ s[k + 1] = HexDigit((x \div 256) % 16)
      /\ s[k + 2] = HexDigit((x \div 16) % 16) /\ s[k + 3] = HexDigit((x \div 1) % 16)
  BY SMT, Powers DEF Digits
<1>2. x \div 65536 = 0
  BY SMT, Powers
<1>3. \A d \in Nat : d \div 16 < 268435456 => Shift(d \div 16, HexDigit(d % 16)) = d
  BY SMT, DigitAppended
<1>4. /\ x \div 4096 \in Nat /\ x \div 256 \in Nat /\ x \div 16 \in Nat /\ x \div 1 \in Nat
      /\ x \div 4096 < 268435456 /\ x \div 256 < 268435456 /\ x \div 16 < 268435456
  BY SMT, Powers
<1>5. Shift(0, s[k]) = x \div 4096
  BY SMT, <1>1, <1>2, <1>3, <1>4, Places
<1>6. Shift(x \div 4096, s[k + 1]) = x \div 256
  BY SMT, <1>1, <1>3, <1>4, Places
<1>7. Shift(x \div 256, s[k + 2]) = x \div 16
  BY SMT, <1>1, <1>3, <1>4, Places
<1>8. Shift(x \div 16, s[k + 3]) = x
  BY SMT, <1>1, <1>3, <1>4, Places
<1> QED
  BY <1>5, <1>6, <1>7, <1>8 DEF Number16, Four

(* The same for util_u32_to_hexasc().                                      *)
LEMMA ReadsNumber32 ==
  ASSUME NEW x \in Nat, x \div 16 < Power[8], NEW s, NEW k \in Nat, Digits(s, k, x, 8)
  PROVE  Number32(s, k) = x
<1>1. /\ s[k] = HexDigit((x \div 268435456) % 16)
      /\ s[k + 1] = HexDigit((x \div 16777216) % 16)
      /\ s[k + 2] = HexDigit((x \div 1048576) % 16)
      /\ s[k + 3] = HexDigit((x \div 65536) % 16)
  BY SMT, Powers DEF Digits
<1>2. /\ s[k + 4] = HexDigit((x \div 4096) % 16) /\ s[k + 5] = HexDigit((x \div 256) % 16)
      /\ s[k + 6] = HexDigit((x \div 16) % 16) /\ s[k + 7] = HexDigit((x \div 1) % 16)
  BY SMT, Powers DEF Digits
<1>3. \A d \in Nat : d \div 16 < 268435456 => Shift(d \div 16, HexDigit(d % 16)) = d
  BY SMT, DigitAppended
<1>4. /\ x \div 16 < 268435456 /\ x \div 16 \in Nat
      /\ x \div 256 \in Nat /\ x \div 256 <= x \div 16
      /\ x \div 4096 \in Nat /\ x \div 4096 <= x \div 16
      /\ x \div 65536 \in Nat /\ x \div 65536 <= x \div 16
  BY SMT, Powers
<1>5. /\ x \div 1048576 \in Nat /\ x \div 1048576 <= x \div 16
      /\ x \div 16777216 \in Nat /\ x \div 16777216 <= x \div 16
      /\ x \div 268435456 \in Nat /\ x \div 268435456 <= x \div 16
      /\ (x \div 268435456) \div 16 = 0
  BY SMT, Powers
<1>6. /\ Shift(0, s[k]) = x \div 268435456
      /\ Shift(x \div 268435456, s[k + 1]) = x \div 16777216
      /\ Shift(x \div 16777216, s[k + 2]) = x \div 1048576
      /\ Shift(x \div 1048576, s[k + 3]) = x \div 65536
  <2>1. Shift((x \div 268435456) \div 16, s[k]) = x \div 268435456
    BY SMT, <1>1, <1>3, <1>4, <1>5
  <2>2. Shift((x \div 16777216) \div 16, s[k + 1]) = x \div 16777216
    BY SMT, <1>1, <1>3, <1>4, <1>5
  <2>3. Shift((x \div 1048576) \div 16, s[k + 2]) = x \div 1048576
    BY SMT, <1>1, <1>3, <1>4, <1>5
  <2>4. Shift((x \div 65536) \div 16, s[k + 3]) = x \div 65536
    BY SMT, <1>1, <1>3, <1>4, <1>5
  <2> QED
    BY SMT, <2>1, <2>2, <2>3, <2>4, <1>5, Places
<1>7. /\ Shift(x \div 65536, s[k + 4]) = x \div 4096
      /\ Shift(x \div 4096, s[k + 5]) = x \div 256
      /\ Shift(x \div 256, s[k + 6]) = x \div 16
      /\ Shift(x \div 16, s[k + 7]) = x
  BY SMT, <1>2, <1>3, <1>4, Places
<1>8. s[k + 4] = s[(k + 4) + 0] /\ s[k + 5] = s[(k + 4) + 1]
      /\ s[k + 6] = s[(k + 4) + 2] /\ s[k + 7] = s[(k + 4) + 3]
  BY SMT
<1>9. Four(0, s, k) = x \div 65536
  BY <1>6 DEF Four
<1>10. Four(x \div 65536, s, k + 4) = x
  BY SMT, <1>7, <1>8 DEF Four
<1> QED
  BY <1>9, <1>10 DEF Number32

(* The digits of a number are so many characters.                          *)
LEMMA HexAscType ==
  ASSUME NEW x \in Nat, NEW n \in 1 .. 8
  PROVE  /\ HexAsc(x, n) \in Seq(Nat) /\ Len(HexAsc(x, n)) = n
         /\ \A k \in 1 .. n : HexAsc(x, n)[k] = HexDigit((x \div Power[n - k + 1]) % 16)
<1>1. \A k \in 1 .. n : (x \div Power[n - k + 1]) % 16 \in 0 .. 15
  <2> SUFFICES ASSUME NEW k \in 1 .. n
               PROVE  (x \div Power[n - k + 1]) % 16 \in 0 .. 15
    OBVIOUS
  <2>1. Power[n - k + 1] \in Nat \ {0}
    BY SMT, Powers
  <2>2. \A p \in Nat \ {0} : x \div p \in Int
    BY SMT
  <2> QED
    BY SMT, <2>1, <2>2
<1>2. \A k \in 1 .. n : HexAsc(x, n)[k] \in Nat
  BY SMT, <1>1 DEF HexAsc, HexDigit
<1>3. HexAsc(x, n) \in [1 .. n -> Nat]
  BY <1>2 DEF HexAsc
<1> QED
  BY SMT, <1>3 DEF HexAsc

(* They are found again at their place in a longer text.                   *)
LEMMA DigitsBetween ==
  ASSUME NEW x \in Nat, NEW n \in 1 .. 8, NEW before \in Seq(Nat), NEW behind \in Seq(Nat)
  PROVE  Digits(before \o HexAsc(x, n) \o behind, Len(before) + 1, x, n)
<1> DEFINE h == HexAsc(x, n)
           s == before \o h \o behind
<1>1. h \in Seq(Nat) /\ Len(h) = n
  BY HexAscType
<1>2. \A k \in 1 .. n : s[Len(before) + k] = h[k]
  BY SMT, <1>1
<1>3. \A i \in 0 .. (n - 1) : s[(Len(before) + 1) + i] = HexDigit((x \div Power[n - i]) % 16)
  <2> SUFFICES ASSUME NEW i \in 0 .. (n - 1)
               PROVE  s[(Len(before) + 1) + i] = HexDigit((x \div Power[n - i]) % 16)
    OBVIOUS
  <2>1. i + 1 \in 1 .. n /\ n - (i + 1) + 1 = n - i
        /\ (Len(before) + 1) + i = Len(before) + (i + 1)
    BY SMT
  <2> HIDE DEF s, h
  <2>2. s[Len(before) + (i + 1)] = h[i + 1]
    BY <2>1, <1>2
  <2>3. h[i + 1] = HexDigit((x \div Power[n - (i + 1) + 1]) % 16)
    BY <2>1, HexAscType DEF h
  <2> QED
    BY <2>1, <2>2, <2>3
<1> QED
  BY <1>3 DEF Digits

LEMMA DigitsAlone ==
  ASSUME NEW x \in Nat, NEW n \in 1 .. 8
  PROVE  Digits(HexAsc(x, n), 1, x, n)
<1> DEFINE h == HexAsc(x, n)
<1>1. h \in Seq(Nat)
  BY HexAscType
<1>2. (<< >> \o h) \o << >> = h /\ Len(<< >>) + 1 = 1 /\ << >> \in Seq(Nat)
  BY SMT, <1>1
<1>3. Digits(<< >> \o h \o << >>, Len(<< >>) + 1, x, n)
  BY <1>2, DigitsBetween
<1> QED
  BY <1>2, <1>3

LEMMA DigitsKept ==
  ASSUME NEW x \in Nat, NEW n \in 1 .. 8, NEW s \in Seq(Nat), NEW t \in Seq(Nat),
         NEW k \in Nat \ {0}, k + n <= Len(s) + 1, Digits(s, k, x, n)
  PROVE  Digits(s \o t, k, x, n)
<1>1. \A i \in 0 .. (n - 1) : (s \o t)[k + i] = s[k + i]
  BY SMT
<1> QED
  BY <1>1 DEF Digits

LEMMA Joined ==
  ASSUME NEW s \in Seq(Nat), NEW t \in Seq(Nat)
  PROVE  s \o t \in Seq(Nat) /\ Len(s \o t) = Len(s) + Len(t) /\ Len(s) \in Nat /\ Len(t) \in Nat
BY SMT

(* Data of a command: an address of eight digits, a separator, a number of *)
(* n digits and the end of the frame.                                      *)
LEMMA TwoNumbers ==
  ASSUME NEW x \in Nat, NEW y \in Nat, NEW n \in 1 .. 8
  PROVE  LET data == HexAsc(x, 8) \o <<Comma>> \o HexAsc(y, n) \o <<ETX>>
         IN Digits(data, 1, x, 8) /\ Digits(data, 10, y, n)
<1> DEFINE h == HexAsc(x, 8)
           g == HexAsc(y, n)
<1>1. h \in Seq(Nat) /\ Len(h) = 8 /\ g \in Seq(Nat) /\ Len(g) = n /\ Digits(h, 1, x, 8)
  <2>1. 8 \in 1 .. 8
    BY SMT
  <2> QED
    BY <2>1, HexAscType, DigitsAlone
<1>2. <<Comma>> \in Seq(Nat) /\ Len(<<Comma>>) = 1 /\ <<ETX>> \in Seq(Nat)
  BY SMT DEF Comma, ETX
<1> HIDE DEF h
<1> DEFINE head == h \o <<Comma>>
<1>3. head \in Seq(Nat) /\ Len(head) = 9
  <2>1. head \in Seq(Nat) /\ Len(head) = Len(h) + Len(<<Comma>>)
    BY <1>1, <1>2, Joined
  <2>2. 8 + 1 = 9
    BY SMT
  <2> QED
    BY <1>1, <1>2, <2>1, <2>2
<1>4. 8 \in 1 .. 8 /\ 1 \in Nat \ {0} /\ 1 + 8 <= 8 + 1 /\ 1 + 8 <= 9 + 1 /\ 9 + 1 = 10
      /\ 1 + 8 <= (9 + n) + 1
  BY SMT
<1>5. Digits(head, 1, x, 8)
  BY <1>1, <1>2, <1>4, DigitsKept
<1> HIDE DEF head
<1>6. Digits(head \o g \o <<ETX>>, 10, y, n)
  BY <1>2, <1>3, <1>4, DigitsBetween
<1> HIDE DEF g
<1>7. head \o g \in Seq(Nat) /\ Len(head \o g) = 9 + n
  BY <1>1, <1>3, Joined
<1>8. Digits(head \o g, 1, x, 8)
  BY <1>1, <1>3, <1>4, <1>5, DigitsKept
<1>9. Digits(head \o g \o <<ETX>>, 1, x, 8)
  BY <1>2, <1>4, <1>7, <1>8, DigitsKept
<1> QED
  BY <1>6, <1>9 DEF head, g, h

(* What util_u16_to_hexasc() writes is what the host reads and no other.   *)
LEMMA ReadsIt ==
  ASSUME NEW x \in Nat, x < 16 * Power[4], NEW y \in Nat, y < 16 * Power[4]
  PROVE  Reads(HexAsc(x, 4), 1, y, 4) <=> x = y
<1> DEFINE h == HexAsc(x, 4)
<1>1. Len(h) = 4
  BY SMT, HexAscType
<1>2. \A z \in Nat : Digits(h, 1, z, 4) <=> Reads(h, 1, z, 4)
  <2> SUFFICES ASSUME NEW z \in Nat
               PROVE  Digits(h, 1, z, 4) <=> Reads(h, 1, z, 4)
    OBVIOUS
  <2> DEFINE digit(i) == (z \div Power[4 - i + 1]) % 16
  <2>1. \A i \in 1 .. 4 : HexDigit(digit(i)) = IF digit(i) < 10 THEN Zero + digit(i)
                                                             ELSE 55 + digit(i)
    <3> SUFFICES ASSUME NEW i \in 1 .. 4
                 PROVE  HexDigit(digit(i)) = IF digit(i) < 10 THEN Zero + digit(i)
                                                               ELSE 55 + digit(i)
      OBVIOUS
    <3>1. Power[4 - i + 1] \in {1, 16, 256, 4096}
      BY SMT, Powers
    <3>2. digit(i) \in 0 .. 15
      BY SMT, <3>1
    <3> QED
      BY SMT, <3>2 DEF HexDigit, Zero
  <2>2. Digits(h, 1, z, 4) <=> \A i \in 1 .. 4 : h[i] = HexDigit(digit(i))
    <3> HIDE DEF h
    <3>1. ASSUME Digits(h, 1, z, 4), NEW i \in 1 .. 4
          PROVE  h[i] = HexDigit(digit(i))
      <4>1. i - 1 \in 0 .. (4 - 1) /\ 1 + (i - 1) = i /\ 4 - (i - 1) = 4 - i + 1
        BY SMT
      <4> QED
        BY <3>1, <4>1 DEF Digits
    <3>2. ASSUME \A i \in 1 .. 4 : h[i] = HexDigit(digit(i)), NEW j \in 0 .. (4 - 1)
          PROVE  h[1 + j] = HexDigit((z \div Power[4 - j]) % 16)
      <4>1. 1 + j \in 1 .. 4 /\ 4 - (1 + j) + 1 = 4 - j
        BY SMT
      <4> QED
        BY <3>2, <4>1
    <3> QED
      BY <3>1, <3>2 DEF Digits
  <2>3. Reads(h, 1, z, 4) <=> \A i \in 1 .. 4 : h[i] = HexDigit(digit(i))
    <3> HIDE DEF h
    <3>1. \A i \in 1 .. 4 : 1 + i - 1 = i
      BY SMT
    <3>2. 1 + 4 - 1 <= Len(h)
      BY SMT, <1>1
    <3> QED
      BY <2>1, <3>1, <3>2 DEF Reads
  <2> QED
    BY <2>2, <2>3
<1>3. Digits(h, 1, x, 4)
  <2>1. 4 \in 1 .. 8
    BY SMT
  <2> QED
    BY <2>1, DigitsAlone
<1> HIDE DEF h
<1>4. Digits(h, 1, y, 4) => y = x
  BY SMT, <1>3, ReadsNumber16
<1> QED
  BY <1>2, <1>3, <1>4 DEF h

-----------------------------------------------------------------------------
(* The invariant.                                                          *)

Flashing == plan.mode # ERASE_NO

(* The chunk whose place received_address_ptr points to, once it is set:   *)
(* the next one of the host, except that the host is one behind when it    *)
(* has not heard the ACK yet, and the loader is when it has not written.   *)
Due ==
  LET ahead  == IF stage = "bin" /\ ans # None THEN 1 ELSE 0
      behind == IF pc = "bin" THEN 1 ELSE 0
  IN next + ahead - behind

(* One question at a time, and only questions of the stage the host is at. *)
Dialogue ==
  /\ req \in Request \cup {None}
  /\ req = None \/ ans = None
  /\ pc = "reset" => stage \in {"done", "off"} /\ req = None
  /\ stage = "done" => (pc = "reset" <=> ans # None)
  /\ stage = "off" => ans = None

(* The mode is the one the host has counted up to.                         *)
Erasing ==
  /\ stage = "hello" => mode = ERASE_NO
  /\ stage = "erase" => /\ Flashing
                        /\ IF ans = None THEN mode < plan.mode
                                         ELSE ans = ACK(HexAsc(mode, CMD_16_SIZE))
  /\ stage \in {"addr", "bin", "verify"} => mode = plan.mode

(* Where host and loader are in the image.                                 *)
Progress ==
  /\ Due \in 1 .. (Count(plan) + 1) /\ sure < Due
  /\ stage \in {"hello", "erase", "addr", "bin"} => next <= Count(plan)
  /\ stage \in {"verify", "check", "done", "off"} => next = Count(plan) + 1
  /\ stage \in {"hello", "erase", "addr", "bin"} => sure < Count(plan)
  /\ Flashing /\ stage \in {"hello", "erase", "addr"} => ChunkAt(plan, next) \in BlockStarts
  /\ pc = "bin" => stage \in {"bin", "verify"} /\ Due <= Count(plan) /\ job = Chunk(plan, Due)
  /\ stage = "verify" /\ ans # None => pc = "idle"
  /\ stage \in {"bin", "verify"} \/ (stage = "addr" /\ ans # None) => addr = ChunkAt(plan, Due)

(* A block that the chunk due does not start is erased from there on.      *)
FreshAt(m, a) == a \in BlockStarts \/ \A b \in Block(a) : a <= b => m[b] = Erased

(* The image is in the memory up to the chunk that is due.                 *)
StoredTo(m, a) == \A b \in Start(plan) .. (a - 1) : m[b] = plan.image[b - Start(plan) + 1]

Memory ==
  /\ Flashing => FreshAt(mem, ChunkAt(plan, Due))
  /\ StoredTo(mem, ChunkAt(plan, Due))

(* An answer to READ begins with the piece of the image the host is at.    *)
ReadBack ==
  /\ stage \in {"hello", "erase", "addr", "bin"} => seen = 0
  /\ stage = "verify" => seen < Len(plan.image)
  /\ stage = "verify" /\ ans # None => IsPrefix(NextPiece, ans.words)
  /\ stage = "check" /\ ans # None => ans.words = plan.image
  /\ stage # "bad"

IInv == TypeOK /\ Dialogue /\ Erasing /\ Progress /\ Memory /\ ReadBack

-----------------------------------------------------------------------------
(* What a command says of the stage its host is at.                        *)
LEMMA Commanded ==
  ASSUME IInv, req.cmd # "none"
  PROVE  /\ ans = None
         /\ req.cmd \in Questions \cup {"HELLO"} => stage = "hello"
         /\ req.cmd = "ERASE" => stage = "erase"
         /\ req.cmd = "ADDR" =>
              stage = "addr" /\ req.data = Hex(2 * ChunkAt(plan, next)) \o <<ETX>>
         /\ req.cmd = "BIN" => stage = "bin" /\ req.words = Chunk(plan, next)
         /\ req.cmd = "READ" =>
              /\ stage = "verify"
              /\ req.data = Hex(2 * (Start(plan) + seen)) \o <<Comma>>
                            \o HexAsc(ReadSize, CMD_16_SIZE) \o <<ETX>>
         /\ req.cmd = "RQRC" =>
              /\ stage = "check"
              /\ req.data = Hex(2 * Start(plan)) \o <<Comma>>
                            \o Hex(2 * ImageEnd(plan) - 1) \o <<ETX>>
         /\ req.cmd \in {"RESTART", "POWER_DOWN"} => stage = "done"
<1>1. req # None /\ req \in Request /\ ans = None
  BY DEF IInv, Dialogue, None
<1>2. stage \in Stages
  BY DEF IInv, TypeOK
<1>3. CASE stage = "hello"
  BY <1>1, <1>3, SessionConstants DEF Request, Questions
<1>4. CASE stage = "erase"
  BY <1>1, <1>4 DEF Request, Questions
<1>5. CASE stage = "addr"
  BY <1>1, <1>5 DEF Request, Questions
<1>6. CASE stage = "bin"
  BY <1>1, <1>6 DEF Request, Questions
<1>7. CASE stage = "verify"
  BY <1>1, <1>7 DEF Request, Questions
<1>8. CASE stage = "check"
  BY <1>1, <1>8 DEF Request, Questions
<1>9. CASE stage = "done"
  BY <1>1, <1>9 DEF Request, Questions
<1>10. CASE stage \in {"off", "bad"}
  BY <1>1, <1>10 DEF Request, Questions
<1> QED
  BY <1>2, <1>3, <1>4, <1>5, <1>6, <1>7, <1>8, <1>9, <1>10 DEF Stages

(* A sequence that has one member more than it has chunks.                 *)
LEMMA OneMore ==
  ASSUME NEW S, NEW s \in Seq(S), Len(s) > 1
  PROVE  /\ Len(s) - 1 \in Nat \ {0} /\ DOMAIN s = 1 .. ((Len(s) - 1) + 1)
         /\ \A n \in 1 .. ((Len(s) - 1) + 1) : s[n] \in S
<1>1. Len(s) \in Nat /\ DOMAIN s = 1 .. Len(s) /\ \A n \in 1 .. Len(s) : s[n] \in S
  OBVIOUS
<1>2. \A n \in Nat : n > 1 => n - 1 \in Nat /\ n - 1 # 0 /\ (n - 1) + 1 = n
  OBVIOUS
<1> QED
  BY <1>1, <1>2

(* The plan is one of those that SessionConstants describes.               *)
LEMMA PlanFacts ==
  ASSUME plan \in Plans
  PROVE  /\ plan.mode \in 0 .. 2 /\ plan.image \in Seq(Words) /\ Count(plan) \in Nat \ {0}
         /\ \A n \in 1 .. (Count(plan) + 1) : ChunkAt(plan, n) \in 0 .. Size
         /\ \A m, n \in 1 .. (Count(plan) + 1) :
              m < n => ChunkAt(plan, m) < ChunkAt(plan, n)
         /\ Start(plan) = ChunkAt(plan, 1)
         /\ ChunkAt(plan, Count(plan) + 1) = Start(plan) + Len(plan.image)
         /\ Size \in Nat
<1>1. plan.at \in Seq(0 .. Size) /\ Len(plan.at) > 1
  BY SessionConstants
<1>2. Count(plan) \in Nat \ {0} /\ DOMAIN plan.at = 1 .. (Count(plan) + 1)
  BY <1>1, OneMore DEF Count
<1>3. \A n \in 1 .. (Count(plan) + 1) : ChunkAt(plan, n) \in 0 .. Size
  BY <1>1, OneMore DEF Count, ChunkAt
<1> QED
  BY <1>2, <1>3, SessionConstants, FlashConstants
     DEF ERASE_NO, ERASE_WRITE_BUFFER, Start, ImageEnd

(* A chunk is its part of the image.                                       *)
LEMMA ChunkFacts ==
  ASSUME plan \in Plans, NEW n \in 1 .. Count(plan)
  PROVE  /\ Chunk(plan, n) \in Chunks /\ Chunk(plan, n) \in Seq(Words)
         /\ Len(Chunk(plan, n)) = ChunkAt(plan, n + 1) - ChunkAt(plan, n)
         /\ Extent(ChunkAt(plan, n), Chunk(plan, n))
              = ChunkAt(plan, n) .. (ChunkAt(plan, n + 1) - 1)
         /\ \A b \in Extent(ChunkAt(plan, n), Chunk(plan, n)) :
              Chunk(plan, n)[b - ChunkAt(plan, n) + 1] = plan.image[b - Start(plan) + 1]
<1> DEFINE a == ChunkAt(plan, n)
           z == ChunkAt(plan, n + 1)
           first == a - Start(plan) + 1
           last  == z - Start(plan)
<1>1. n + 1 \in 1 .. (Count(plan) + 1) /\ n \in 1 .. (Count(plan) + 1) /\ Count(plan) \in Nat
  BY PlanFacts
<1>2. a \in Nat /\ z \in Nat /\ a < z
  BY <1>1, PlanFacts
<1>3. Start(plan) \in Nat /\ Start(plan) <= a
  <2>1. 1 \in 1 .. (Count(plan) + 1)
    BY <1>1
  <2>2. CASE n = 1
    BY <1>2, <2>2, PlanFacts
  <2>3. CASE n > 1
    BY <1>1, <1>2, <2>1, <2>3, PlanFacts
  <2> QED
    BY <2>2, <2>3
<1>4. last <= Len(plan.image) /\ Len(plan.image) \in Nat
  <2>1. CASE n = Count(plan)
    BY <1>2, <1>3, <2>1, PlanFacts
  <2>2. CASE n < Count(plan)
    <3>1. z < ChunkAt(plan, Count(plan) + 1)
      BY <1>1, <2>2, PlanFacts
    <3> QED
      BY <1>2, <1>3, <3>1, PlanFacts
  <2> QED
    BY <1>1, <2>1, <2>2
<1>5. first \in 1 .. (Len(plan.image) + 1) /\ last \in Int /\ last - first + 1 = z - a
      /\ first <= last
  BY <1>2, <1>3, <1>4
<1>6. plan.image \in Seq(Words) /\ Chunk(plan, n) = SubSeq(plan.image, first, last)
  BY PlanFacts DEF Chunk
<1>7. Chunk(plan, n) \in Seq(Words) /\ Len(Chunk(plan, n)) = z - a
      /\ \A k \in 1 .. (z - a) : Chunk(plan, n)[k] = plan.image[first + k - 1]
  <2> HIDE DEF first, last, a, z
  <2>1. first .. last \subseteq 1 .. Len(plan.image)
    BY <1>4, <1>5
  <2> QED
    BY <1>2, <1>4, <1>5, <1>6, <2>1
<1>8. Chunk(plan, n) \in Chunks
  BY SessionConstants
<1>9. Extent(a, Chunk(plan, n)) = a .. (z - 1)
  BY <1>2, <1>7 DEF Extent
<1>10. ASSUME NEW b \in a .. (z - 1)
       PROVE  Chunk(plan, n)[b - a + 1] = plan.image[b - Start(plan) + 1]
  <2>1. b - a + 1 \in 1 .. (z - a) /\ first + (b - a + 1) - 1 = b - Start(plan) + 1
    BY <1>2, <1>3
  <2> QED
    BY <1>7, <2>1
<1> QED
  BY <1>7, <1>8, <1>9, <1>10

(* The chunks stand in the order in which they are sent.                   *)
LEMMA InPlaceOrder ==
  ASSUME plan \in Plans, NEW m \in 1 .. (Count(plan) + 1), NEW n \in 1 .. (Count(plan) + 1),
         m <= n
  PROVE  /\ ChunkAt(plan, m) \in 0 .. Size /\ ChunkAt(plan, n) \in 0 .. Size
         /\ Start(plan) \in 0 .. Size /\ Size \in Nat
         /\ Start(plan) <= ChunkAt(plan, m) /\ ChunkAt(plan, m) <= ChunkAt(plan, n)
<1>1. Count(plan) \in Nat /\ 1 \in 1 .. (Count(plan) + 1)
  BY PlanFacts
<1>2. m = 1 \/ 1 < m
  BY <1>1
<1>3. m = n \/ m < n
  BY <1>1
<1> QED
  BY <1>1, <1>2, <1>3, PlanFacts

(* No block starts inside a chunk: an upload to flash has a chunk at every *)
(* start of a block.                                                       *)
LEMMA NoStartInside ==
  ASSUME plan \in Plans, Flashing, NEW n \in 1 .. Count(plan), NEW s \in BlockStarts,
         ChunkAt(plan, n) < s
  PROVE  ChunkAt(plan, n + 1) <= s
<1>1. Count(plan) \in Nat /\ n \in 1 .. (Count(plan) + 1) /\ n + 1 \in 1 .. (Count(plan) + 1)
      /\ Count(plan) + 1 \in 1 .. (Count(plan) + 1)
  BY PlanFacts
<1>2. s \in Nat /\ ChunkAt(plan, n) \in Nat /\ ChunkAt(plan, n + 1) \in Nat
      /\ Start(plan) <= s /\ Start(plan) \in Nat
  BY <1>1, InPlaceOrder, FlashConstants
<1>3. ImageEnd(plan) = ChunkAt(plan, Count(plan) + 1)
  BY PlanFacts DEF ImageEnd
<1>4. CASE ImageEnd(plan) <= s
  <2>1. n + 1 <= Count(plan) + 1
    BY <1>1
  <2>2. ChunkAt(plan, n + 1) <= ChunkAt(plan, Count(plan) + 1)
        /\ ChunkAt(plan, Count(plan) + 1) \in Nat
    BY <1>1, <2>1, InPlaceOrder
  <2> QED
    BY <1>2, <1>3, <1>4, <2>2
<1>5. CASE s < ImageEnd(plan)
  <2>1. BlocksStarted(plan)
    BY SessionConstants DEF Flashing
  <2>2. PICK m \in 1 .. Count(plan) : ChunkAt(plan, m) = s
    BY <1>2, <1>5, <2>1 DEF BlocksStarted
  <2>3. m \in 1 .. (Count(plan) + 1)
    BY <1>1
  <2>4. CASE m <= n
    <3>1. ChunkAt(plan, m) <= ChunkAt(plan, n)
      BY <1>1, <2>3, <2>4, InPlaceOrder
    <3> QED
      BY <1>2, <2>2, <3>1
  <2>5. CASE n + 1 <= m
    BY <1>1, <2>2, <2>3, <2>5, InPlaceOrder
  <2> QED
    BY <1>1, <2>3, <2>4, <2>5
<1>6. ImageEnd(plan) \in Nat
  BY <1>1, <1>3, InPlaceOrder
<1> QED
  BY <1>2, <1>4, <1>5, <1>6

(* What WriteBIN makes of the memory.                                      *)
Written == IF mode = ERASE_NO THEN CopyAt(mem, addr, job) ELSE Outcome(mem, addr, mode, job)

(* When a job is to be done, it is the chunk due, at its place.            *)
LEMMA JobFacts ==
  ASSUME IInv, pc = "bin"
  PROVE  /\ plan \in Plans /\ mem \in [Addresses -> Words] /\ Due \in 1 .. Count(plan)
         /\ mode = plan.mode /\ mode \in 0 .. 2
         /\ job = Chunk(plan, Due) /\ addr = ChunkAt(plan, Due)
<1>1. plan \in Plans /\ mem \in [Addresses -> Words]
  BY DEF IInv, TypeOK
<1>2. Count(plan) \in Nat /\ plan.mode \in 0 .. 2
  BY <1>1, PlanFacts
<1>3. stage \in {"bin", "verify"} /\ Due <= Count(plan) /\ job = Chunk(plan, Due)
      /\ Due \in 1 .. (Count(plan) + 1)
  BY DEF IInv, Progress
<1>4. mode = plan.mode /\ addr = ChunkAt(plan, Due)
  BY <1>3 DEF IInv, Progress, Erasing
<1>5. Due \in 1 .. Count(plan)
  BY <1>2, <1>3
<1> QED
  BY <1>1, <1>2, <1>3, <1>4, <1>5

(* The job goes to its place, nothing before it is touched, and the rest   *)
(* of its block is left erased.                                            *)
LEMMA WrittenWell ==
  ASSUME IInv, pc = "bin"
  PROVE  /\ Written \in [Addresses -> Words]
         /\ StoredTo(Written, ChunkAt(plan, Due + 1))
         /\ Flashing => FreshAt(Written, ChunkAt(plan, Due + 1))
         /\ NextAddress(addr, mode, job) = ChunkAt(plan, Due + 1)
<1> DEFINE a == ChunkAt(plan, Due)
           z == ChunkAt(plan, Due + 1)
<1>1. /\ plan \in Plans /\ mem \in [Addresses -> Words] /\ Due \in 1 .. Count(plan)
      /\ mode = plan.mode /\ mode \in 0 .. 2 /\ job = Chunk(plan, Due) /\ addr = a
  BY JobFacts
<1>2. a \in 0 .. Size /\ z \in 0 .. Size /\ Start(plan) \in 0 .. Size /\ Size \in Nat
      /\ Start(plan) <= a /\ a < z
  <2>1. Count(plan) \in Nat
    BY <1>1, PlanFacts
  <2>2. Due \in 1 .. (Count(plan) + 1) /\ Due + 1 \in 1 .. (Count(plan) + 1) /\ Due < Due + 1
        /\ Due <= Due + 1
    BY <1>1, <2>1
  <2> QED
    BY <1>1, <2>2, PlanFacts, InPlaceOrder
<1>3. /\ Extent(addr, job) = a .. (z - 1) /\ job \in Seq(Words) /\ Len(job) = z - a
      /\ \A b \in a .. (z - 1) : job[b - a + 1] = plan.image[b - Start(plan) + 1]
                                /\ job[b - a + 1] \in Words
  <2>1. Extent(a, job) = a .. (z - 1) /\ job \in Seq(Words) /\ Len(job) = z - a
        /\ \A b \in a .. (z - 1) : job[b - a + 1] = plan.image[b - Start(plan) + 1]
    BY <1>1, ChunkFacts
  <2>2. \A b \in a .. (z - 1) : b - a + 1 \in 1 .. Len(job)
    BY <1>2, <2>1
  <2> QED
    BY <1>1, <2>1, <2>2
<1>5. \A b \in Start(plan) .. (a - 1) : mem[b] = plan.image[b - Start(plan) + 1]
  BY DEF IInv, Memory, StoredTo
<1>6. \A b \in Start(plan) .. (z - 1) : b \in Addresses /\ (b \in Start(plan) .. (a - 1)
                                                          \/ b \in a .. (z - 1))
  BY <1>2 DEF Addresses
<1> HIDE DEF a, z
<1>4. NextAddress(addr, mode, job) = z
  <2>1. a + (z - a) = z /\ mode <= 3
    BY <1>1, <1>2
  <2> QED
    BY <1>1, <1>3, <2>1 DEF NextAddress, ERASE_ONLY
<1>7. CASE mode = ERASE_NO
  <2>1. Written = [b \in Addresses |-> IF b \in a .. (z - 1) THEN job[b - a + 1] ELSE mem[b]]
    BY <1>1, <1>3, <1>7 DEF Written, CopyAt
  <2>2. Written \in [Addresses -> Words]
    BY <1>1, <1>3, <2>1
  <2>3. \A b \in Start(plan) .. (a - 1) : ~(b \in a .. (z - 1))
    BY <1>2
  <2>4. \A b \in Start(plan) .. (z - 1) : Written[b] = plan.image[b - Start(plan) + 1]
    BY <1>3, <1>5, <1>6, <2>1, <2>3
  <2>5. StoredTo(Written, z)
    BY <2>4 DEF StoredTo
  <2>6. ~Flashing
    BY <1>1, <1>7 DEF Flashing
  <2> QED
    BY <1>4, <2>2, <2>5, <2>6 DEF z
<1>8. CASE mode # ERASE_NO
  <2> DEFINE ready == IF a \in BlockStarts THEN EraseAt(mem, a) ELSE mem
  <2>1. Flashing /\ mode \in {ERASE_WRITE_BLOCK, ERASE_WRITE_BUFFER}
    BY <1>1, <1>8 DEF Flashing, ERASE_NO, ERASE_WRITE_BLOCK, ERASE_WRITE_BUFFER
  <2>2. BlockStarts \subseteq Int /\ \A s \in BlockStarts : s > a => s >= z
    BY <1>1, <1>2, <2>1, NoStartInside, FlashConstants DEF a, z
  <2>3. FreshAt(mem, a)
    BY <2>1 DEF IInv, Memory, a
  <2>4. ready \in [Addresses -> Words]
    BY <1>1 DEF EraseAt, Erased, Words
  <2>5. \A b \in Block(a) : a <= b => ready[b] = Erased
    BY <2>3 DEF EraseAt, FreshAt, Block
  <2>6. \A b \in Start(plan) .. (a - 1) : ready[b] = mem[b]
    <3> SUFFICES ASSUME NEW b \in Start(plan) .. (a - 1), a \in BlockStarts
                 PROVE  EraseAt(mem, a)[b] = mem[b]
      OBVIOUS
    <3>1. b \in Addresses /\ ~(a <= b) /\ a <= a
      BY <1>2 DEF Addresses
    <3>2. ~(b \in Block(a))
      BY <3>1 DEF Block
    <3> QED
      BY <3>1, <3>2 DEF EraseAt
  <2>7. \A b \in a .. (z - 1) : b \in Block(a) /\ a <= b
    BY <1>2, <2>2 DEF Block, Addresses
  <2> HIDE DEF ready
  <2>8. Written = [b \in Addresses |-> IF b \in a .. (z - 1) THEN ready[b] \cap job[b - a + 1]
                                                             ELSE ready[b]]
    BY <1>1, <1>3, <1>8, <2>1 DEF Written, Outcome, ProgramAt, ready
  <2>9. \A b \in a .. (z - 1) : b \in Addresses /\ Written[b] = job[b - a + 1]
    <3> SUFFICES ASSUME NEW b \in a .. (z - 1)
                 PROVE  b \in Addresses /\ Written[b] = job[b - a + 1]
      OBVIOUS
    <3>1. b \in Addresses /\ ready[b] = Erased
      BY <1>2, <2>5, <2>7 DEF Addresses
    <3>2. job[b - a + 1] \subseteq Bits
      BY <1>3 DEF Words
    <3> QED
      BY <2>8, <3>1, <3>2 DEF Erased
  <2>10. Written \in [Addresses -> Words]
    BY <2>4, <2>8 DEF Words
  <2>11. \A b \in Start(plan) .. (a - 1) : b \in Addresses => Written[b] = mem[b]
    BY <1>2, <2>6, <2>8
  <2>12. StoredTo(Written, z)
    BY <1>3, <1>5, <1>6, <2>9, <2>11 DEF StoredTo
  <2>13. FreshAt(Written, z)
    <3> SUFFICES ASSUME ~(z \in BlockStarts), NEW b \in Block(z), z <= b
                 PROVE  Written[b] = Erased
      BY DEF FreshAt
    <3>1. b \in Addresses /\ b \in Int /\ a <= b /\ ~(b \in a .. (z - 1))
      BY <1>2 DEF Block, Addresses
    <3>2. b \in Block(a)
      BY <1>2, <2>2, <3>1 DEF Block
    <3> QED
      BY <2>5, <2>8, <3>1, <3>2
  <2> QED
    BY <1>4, <2>10, <2>12, <2>13 DEF z
<1> QED
  BY <1>7, <1>8

-----------------------------------------------------------------------------
(* The loader reads the addresses and the size that the host has written.  *)
LEMMA BaseFacts ==
  ASSUME plan \in Plans, NEW a \in 0 .. (2 * Size)
  PROVE  Base + a \in Nat /\ Base \in Nat /\ (Base + a) \div 16 < Power[8]
<1>1. Base \in Nat /\ (Base + 2 * Size) \div 16 < Power[8] /\ Size \in Nat
  BY SessionConstants, FlashConstants DEF Base
<1>2. Power[8] \in Nat
  BY SMT, Powers
<1>3. Base + a \in Nat /\ Base + a <= Base + 2 * Size /\ Base + 2 * Size \in Nat
  BY <1>1
<1>4. \A x, y \in Nat : x <= y => x \div 16 <= y \div 16 /\ x \div 16 \in Nat /\ y \div 16 \in Nat
  BY SMT
<1>5. (Base + a) \div 16 <= (Base + 2 * Size) \div 16 /\ (Base + a) \div 16 \in Nat
      /\ (Base + 2 * Size) \div 16 \in Nat
  BY <1>3, <1>4
<1> QED
  BY <1>1, <1>2, <1>3, <1>5

LEMMA AddressRead ==
  ASSUME plan \in Plans, NEW a \in 0 .. (2 * Size), NEW data, NEW k \in Nat,
         Digits(data, k, Base + a, 8)
  PROVE  AddressIn(data, k) = a
<1>1. Base + a \in Nat /\ (Base + a) \div 16 < Power[8] /\ Base \in Nat
  BY BaseFacts
<1>2. Number32(data, k) = Base + a
  BY <1>1, ReadsNumber32
<1>3. (Base + a) - Base = a
  BY <1>1
<1> QED
  BY <1>2, <1>3 DEF AddressIn

LEMMA CommandData ==
  ASSUME plan \in Plans, NEW a \in 0 .. (2 * Size)
  PROVE  /\ AddressIn(Hex(a) \o <<ETX>>, 1) = a
         /\ \A b \in 0 .. (2 * Size) :
              LET data == Hex(a) \o <<Comma>> \o Hex(b) \o <<ETX>>
              IN AddressIn(data, 1) = a /\ AddressIn(data, CMD_32_SIZE + 2) = b
         /\ \A n \in Nat : n < 16 * Power[4] =>
              LET data == Hex(a) \o <<Comma>> \o HexAsc(n, CMD_16_SIZE) \o <<ETX>>
              IN AddressIn(data, 1) = a /\ Number16(data, CMD_32_SIZE + 2) = n
<1>1. Base + a \in Nat /\ \A b \in 0 .. (2 * Size) : Base + b \in Nat
  BY BaseFacts
<1>2. 8 \in 1 .. 8 /\ 4 \in 1 .. 8 /\ 1 \in Nat \ {0} /\ 10 \in Nat /\ 1 + 8 <= 8 + 1
  OBVIOUS
<1>3. CMD_32_SIZE + 2 = 10 /\ CMD_32_SIZE = 8 /\ CMD_16_SIZE = 4
  BY DEF CMD_32_SIZE, CMD_16_SIZE
<1>4. AddressIn(Hex(a) \o <<ETX>>, 1) = a
  <2>1. <<ETX>> \in Seq(Nat)
    BY DEF ETX
  <2>2. HexAsc(Base + a, 8) \in Seq(Nat) /\ Len(HexAsc(Base + a, 8)) = 8
        /\ Digits(HexAsc(Base + a, 8), 1, Base + a, 8)
    BY <1>1, <1>2, HexAscType, DigitsAlone
  <2>3. Digits(HexAsc(Base + a, 8) \o <<ETX>>, 1, Base + a, 8)
    BY <1>1, <1>2, <2>1, <2>2, DigitsKept
  <2> QED
    BY <1>2, <1>3, <2>3, AddressRead DEF Hex
<1>5. ASSUME NEW b \in 0 .. (2 * Size)
      PROVE  LET data == Hex(a) \o <<Comma>> \o Hex(b) \o <<ETX>>
             IN AddressIn(data, 1) = a /\ AddressIn(data, CMD_32_SIZE + 2) = b
  <2> DEFINE data == HexAsc(Base + a, 8) \o <<Comma>> \o HexAsc(Base + b, 8) \o <<ETX>>
  <2>1. Digits(data, 1, Base + a, 8) /\ Digits(data, 10, Base + b, 8)
    BY <1>1, <1>2, TwoNumbers
  <2> HIDE DEF data
  <2>2. AddressIn(data, 1) = a /\ AddressIn(data, 10) = b
    BY <1>2, <2>1, AddressRead
  <2> QED
    BY <1>3, <2>2 DEF Hex, data
<1>6. ASSUME NEW n \in Nat, n < 16 * Power[4]
      PROVE  LET data == Hex(a) \o <<Comma>> \o HexAsc(n, CMD_16_SIZE) \o <<ETX>>
             IN AddressIn(data, 1) = a /\ Number16(data, CMD_32_SIZE + 2) = n
  <2> DEFINE data == HexAsc(Base + a, 8) \o <<Comma>> \o HexAsc(n, 4) \o <<ETX>>
  <2>1. Digits(data, 1, Base + a, 8) /\ Digits(data, 10, n, 4)
    BY <1>1, <1>2, TwoNumbers
  <2> HIDE DEF data
  <2>2. AddressIn(data, 1) = a /\ Number16(data, 10) = n
    BY <1>2, <1>6, <2>1, AddressRead, ReadsNumber16
  <2> QED
    BY <1>3, <2>2 DEF Hex, data
<1> QED
  BY <1>4, <1>5, <1>6

-----------------------------------------------------------------------------
(* Every action keeps the invariant. An answer that is given leaves what   *)
(* is stored as it is, and so does one that is heard.                      *)
LEMMA MemoryKept ==
  ASSUME Memory, UNCHANGED <<mem, plan>>, Due' = Due
  PROVE  Memory'
BY DEF Memory, Flashing, FreshAt, StoredTo, Start, ChunkAt

LEMMA TypesKept ==
  ASSUME TypeOK, UNCHANGED <<mem, addr, mode, job, plan, stage, next, sure, seen, failures>>,
         pc' \in {"idle", "bin", "reset"}
  PROVE  TypeOK'
BY DEF TypeOK, Null, Base, Count

LEMMA AnsweredInHello ==
  ASSUME IInv, pc = "idle", req.cmd # "none", req' = None, ans'.cmd # "none", stage = "hello",
         UNCHANGED <<mem, loaderVars, hostVars, failures>>
  PROVE  IInv'
<1> USE DEF loaderVars, hostVars
<1>1. TypeOK /\ Dialogue /\ Erasing /\ Progress /\ Memory /\ ReadBack
  BY DEF IInv
<1>2. Due' = Due
  BY DEF Due
<1>3. TypeOK'
  BY <1>1, TypesKept
<1>4. Dialogue'
  BY <1>1 DEF Dialogue
<1>5. Erasing'
  BY DEF Erasing, IInv
<1>6. Progress'
  BY <1>1, <1>2 DEF Progress, Count, Flashing, ChunkAt
<1>7. Memory'
  BY <1>1, <1>2, MemoryKept
<1>8. ReadBack'
  BY <1>1 DEF ReadBack
<1> QED
  BY <1>3, <1>4, <1>5, <1>6, <1>7, <1>8 DEF IInv

LEMMA QueryKeeps ==
  ASSUME IInv, NEW c \in Questions, NEW a, a.cmd # "none", Query(c, a)
  PROVE  IInv'
<1>1. pc = "idle" /\ req.cmd = c /\ req' = None /\ ans' = a
      /\ UNCHANGED <<mem, loaderVars, hostVars, failures>>
  BY DEF Query, Take, Answer
<1>2. c # "none"
  BY DEF Questions
<1>3. stage = "hello"
  BY <1>1, <1>2, Commanded
<1>4. ans'.cmd # "none"
  BY <1>1
<1> QED
  BY <1>1, <1>2, <1>3, <1>4, AnsweredInHello

LEMMA QuestionsKeep ==
  ASSUME IInv, RQHW \/ RQVN \/ RQSW \/ RQSN \/ RQFI \/ READ_OTP
  PROVE  IInv'
<1>1. {"RQHW", "RQVN", "RQSW", "RQSN", "RQFI", "READ_OTP"} \subseteq Questions
  BY DEF Questions
<1>2. CASE RQHW
  BY <1>1, <1>2, QueryKeeps DEF RQHW
<1>3. CASE RQVN
  BY <1>1, <1>3, QueryKeeps DEF RQVN
<1>4. CASE RQSW
  BY <1>1, <1>4, QueryKeeps DEF RQSW
<1>5. CASE RQSN
  BY <1>1, <1>5, QueryKeeps DEF RQSN
<1>6. CASE RQFI
  BY <1>1, <1>6, QueryKeeps DEF RQFI
<1>7. CASE READ_OTP
  <2>1. PICK rest : Query("READ_OTP", [cmd |-> "READ_OTP", bytes |-> phone.otp \o rest])
    BY <1>7 DEF READ_OTP
  <2> QED
    BY <1>1, <2>1, QueryKeeps
<1> QED
  BY <1>2, <1>3, <1>4, <1>5, <1>6, <1>7

LEMMA UnknownKeeps ==
  ASSUME IInv, Unknown
  PROVE  IInv'
<1>1. pc = "idle" /\ req.cmd \notin Commands \cup {"none"} /\ req' = None /\ ans' = ERR
      /\ UNCHANGED <<mem, loaderVars, hostVars, failures>>
  BY DEF Unknown, Answer
<1>2. req # None /\ req \in Request /\ stage \in Stages
  BY <1>1 DEF IInv, Dialogue, None, TypeOK
<1>3. req.cmd \in Questions \cup {"HELLO"}
  <2>1. stage \notin {"erase", "addr", "bin", "verify", "check", "done", "off", "bad"}
    BY <1>1, <1>2 DEF Request, Commands
  <2>2. stage = "hello"
    BY <1>2, <2>1 DEF Stages
  <2> QED
    BY <1>2, <2>2, SessionConstants DEF Request
<1>4. stage = "hello" /\ ans'.cmd # "none" /\ req.cmd # "none"
  BY <1>1, <1>3, Commanded DEF ERR
<1> QED
  BY <1>1, <1>4, AnsweredInHello

LEMMA ADDRKeeps ==
  ASSUME IInv, ADDR
  PROVE  IInv'
<1> USE DEF hostVars
<1>1. /\ pc = "idle" /\ req.cmd = "ADDR" /\ req' = None
      /\ addr' = AddressIn(req.data, 1) \div 2 /\ ans' = ACK(req.data)
      /\ UNCHANGED <<mem, mode, pc, job, hostVars, failures>>
  BY DEF ADDR, Take, Answer
<1>2. TypeOK /\ Dialogue /\ Erasing /\ Progress /\ Memory /\ ReadBack /\ plan \in Plans
  BY DEF IInv, TypeOK
<1>3. stage = "addr" /\ ans = None
      /\ req.data = Hex(2 * ChunkAt(plan, next)) \o <<ETX>>
  BY <1>1, Commanded
<1>4. ans'.cmd = "ACK" /\ ans' # None
  BY <1>1 DEF ACK, None
<1>5. Due = next /\ Due' = next /\ next \in 1 .. (Count(plan) + 1)
  BY <1>1, <1>2, <1>3 DEF Due, TypeOK
<1>6. ChunkAt(plan, next) \in 0 .. Size /\ Size \in Nat
  BY <1>2, <1>5, PlanFacts
<1>7. addr' = ChunkAt(plan, next)
  <2>1. 2 * ChunkAt(plan, next) \in 0 .. (2 * Size)
        /\ (2 * ChunkAt(plan, next)) \div 2 = ChunkAt(plan, next)
    BY <1>6
  <2> QED
    BY <1>1, <1>2, <1>3, <2>1, CommandData
<1>8. TypeOK'
  BY <1>1, <1>2, <1>6, <1>7 DEF TypeOK, Null, Base, Count
<1>9. Dialogue'
  BY <1>1, <1>3 DEF Dialogue
<1>10. Erasing'
  BY <1>1, <1>2, <1>3 DEF Erasing
<1>11. Progress'
  BY <1>1, <1>2, <1>3, <1>5, <1>7 DEF Progress, Count, Flashing, ChunkAt
<1>12. Memory'
  BY <1>1, <1>2, <1>5, MemoryKept
<1>13. ReadBack'
  BY <1>1, <1>2, <1>3 DEF ReadBack
<1> QED
  BY <1>8, <1>9, <1>10, <1>11, <1>12, <1>13 DEF IInv

LEMMA ERASEKeeps ==
  ASSUME IInv, ERASE
  PROVE  IInv'
<1> USE DEF hostVars
<1>1. /\ pc = "idle" /\ req.cmd = "ERASE" /\ req' = None
      /\ mode' = mode + 1 /\ ans' = ACK(HexAsc(mode + 1, CMD_16_SIZE))
      /\ UNCHANGED <<mem, addr, pc, job, hostVars, failures>>
  BY DEF ERASE, Take, Answer
<1>2. TypeOK /\ Dialogue /\ Erasing /\ Progress /\ Memory /\ ReadBack /\ plan \in Plans
  BY DEF IInv, TypeOK
<1>3. stage = "erase" /\ ans = None
  BY <1>1, Commanded
<1>4. ans'.cmd = "ACK" /\ ans' # None
  BY <1>1 DEF ACK, None
<1>5. Due' = Due
  BY <1>1, <1>3 DEF Due
<1>6. mode + 1 \in ERASE_NO .. plan.mode /\ Flashing
  BY <1>2, <1>3, PlanFacts DEF Erasing, TypeOK, ERASE_NO
<1>7. TypeOK'
  BY <1>1, <1>2, <1>6 DEF TypeOK, Null, Base, Count
<1>8. Dialogue'
  BY <1>1, <1>3 DEF Dialogue
<1>9. Erasing'
  BY <1>1, <1>3, <1>4, <1>6 DEF Erasing, Flashing
<1>10. Progress'
  BY <1>1, <1>2, <1>3, <1>5 DEF Progress, Count, Flashing, ChunkAt
<1>11. Memory'
  BY <1>1, <1>2, <1>5, MemoryKept
<1>12. ReadBack'
  BY <1>1, <1>2, <1>3 DEF ReadBack
<1> QED
  BY <1>7, <1>8, <1>9, <1>10, <1>11, <1>12 DEF IInv

LEMMA BINKeeps ==
  ASSUME IInv, BIN
  PROVE  IInv'
<1> USE DEF hostVars
<1>1. /\ pc = "idle" /\ req.cmd = "BIN" /\ req' = None
      /\ job' = req.words /\ pc' = "bin" /\ ans' = ACK(<< >>)
      /\ UNCHANGED <<mem, addr, mode, hostVars, failures>>
  BY DEF BIN, Take, Answer
<1>2. TypeOK /\ Dialogue /\ Erasing /\ Progress /\ Memory /\ ReadBack /\ plan \in Plans
  BY DEF IInv, TypeOK
<1>3. stage = "bin" /\ ans = None /\ job' = Chunk(plan, next)
  BY <1>1, Commanded
<1>4. ans'.cmd = "ACK" /\ ans' # None
  BY <1>1 DEF ACK, None
<1>5. Due = next /\ Due' = next /\ next \in 1 .. Count(plan)
  <2>1. next \in 1 .. (Count(plan) + 1) /\ next <= Count(plan) /\ Count(plan) \in Nat
    BY <1>2, <1>3, PlanFacts DEF Progress, TypeOK
  <2> QED
    BY <1>1, <1>3, <1>4, <2>1 DEF Due
<1>6. job' \in Chunks
  BY <1>2, <1>3, <1>5, ChunkFacts
<1>7. TypeOK'
  BY <1>1, <1>2, <1>6 DEF TypeOK, Null, Base, Count
<1>8. Dialogue'
  BY <1>1, <1>3 DEF Dialogue
<1>9. Erasing'
  BY <1>1, <1>2, <1>3 DEF Erasing
<1>10. Progress'
  BY <1>1, <1>2, <1>3, <1>5 DEF Progress, Count, Flashing, ChunkAt, Chunk, Start
<1>11. Memory'
  BY <1>1, <1>2, <1>5, MemoryKept
<1>12. ReadBack'
  BY <1>1, <1>2, <1>3 DEF ReadBack
<1> QED
  BY <1>7, <1>8, <1>9, <1>10, <1>11, <1>12 DEF IInv

LEMMA WriteBINKeeps ==
  ASSUME IInv, WriteBIN
  PROVE  IInv'
<1> USE DEF hostVars
<1>1. /\ pc = "bin" /\ pc' = "idle" /\ job' = << >> /\ mem' = Written
      /\ addr' = NextAddress(addr, mode, job)
      /\ UNCHANGED <<mode, req, ans, hostVars, failures>>
  BY DEF WriteBIN, Written
<1>2. TypeOK /\ Dialogue /\ Erasing /\ Progress /\ ReadBack /\ plan \in Plans
  BY DEF IInv, TypeOK
<1>3. Due \in 1 .. Count(plan) /\ stage \in {"bin", "verify"} /\ Count(plan) \in Nat
  BY <1>1, <1>2, JobFacts, PlanFacts DEF Progress
<1>4. Due' = Due + 1 /\ Due + 1 \in 1 .. (Count(plan) + 1)
  <2>1. next \in Nat
    BY <1>2, <1>3 DEF TypeOK
  <2> QED
    BY <1>1, <1>3, <2>1 DEF Due
<1>5. ChunkAt(plan, Due + 1) \in 0 .. Size
  BY <1>2, <1>4, PlanFacts
<1>6. /\ mem' \in [Addresses -> Words] /\ StoredTo(mem', ChunkAt(plan, Due + 1))
      /\ Flashing => FreshAt(mem', ChunkAt(plan, Due + 1))
      /\ addr' = ChunkAt(plan, Due + 1)
  BY <1>1, WrittenWell
<1>7. TypeOK'
  BY <1>1, <1>2, <1>5, <1>6 DEF TypeOK, Null, Base, Count
<1>8. Dialogue'
  BY <1>1, <1>2, <1>3 DEF Dialogue, Request, Hex, Base, ReadSize, Piece
<1>9. Erasing'
  BY <1>1, <1>2, <1>3 DEF Erasing
<1>10. sure < Due + 1
  <2>1. sure < Due /\ sure \in Nat
    BY <1>2, PlanFacts DEF Progress, TypeOK
  <2> QED
    BY <1>3, <2>1
<1>11. Progress'
  BY <1>1, <1>2, <1>3, <1>4, <1>6, <1>10 DEF Progress, Count, Flashing, ChunkAt
<1>12. Memory'
  BY <1>1, <1>4, <1>6 DEF Memory, Flashing, FreshAt, StoredTo, Start, ChunkAt
<1>13. ReadBack'
  BY <1>1, <1>2 DEF ReadBack, NextPiece, Piece
<1> QED
  BY <1>7, <1>8, <1>9, <1>11, <1>12, <1>13 DEF IInv

(* A memory with the image in it shows every piece of the image.           *)
LEMMA WordsRead ==
  ASSUME plan \in Plans, StoredTo(mem, ChunkAt(plan, Count(plan) + 1)),
         NEW d \in Nat, NEW l \in Nat, NEW to \in Nat,
         d + l <= Len(plan.image), 2 * (Start(plan) + d + l) <= to
  PROVE  LET words == WordsAt(mem, 2 * (Start(plan) + d), to)
             part  == SubSeq(plan.image, d + 1, d + l)
         IN IsPrefix(part, words) /\ (to = 2 * (Start(plan) + d + l) => words = part)
<1> DEFINE words == WordsAt(mem, 2 * (Start(plan) + d), to)
           part == SubSeq(plan.image, d + 1, d + l)
           s == Start(plan)
           L == Len(plan.image)
           n == (to + 1) \div 2 - (s + d)
<1>1. s \in Nat /\ L \in Nat /\ plan.image \in Seq(Words) /\ Size \in Nat
      /\ ChunkAt(plan, Count(plan) + 1) = s + L /\ s + L <= Size
  <2>1. Count(plan) \in Nat /\ Count(plan) + 1 \in 1 .. (Count(plan) + 1)
    BY PlanFacts
  <2>2. s \in Nat /\ plan.image \in Seq(Words)
    BY <2>1, InPlaceOrder, PlanFacts
  <2>3. ChunkAt(plan, Count(plan) + 1) \in 0 .. Size
    BY <2>1, PlanFacts
  <2> QED
    BY <2>2, <2>3, PlanFacts
<1>2. /\ \A b \in s .. (s + L - 1) : mem[b] = plan.image[b - s + 1]
      /\ \A k \in 1 .. L : plan.image[k] \in Words
  BY <1>1 DEF StoredTo
<1>3. s \in Nat /\ L \in Nat /\ d + l <= L /\ 2 * (s + d + l) <= to
  BY <1>1
<1> HIDE DEF s, L
<1>4. n \in Nat /\ l <= n /\ (to = 2 * (s + d + l) => n = l) /\ (2 * (s + d)) \div 2 = s + d
  <2>1. \A x, t \in Nat : 2 * x <= t => x <= (t + 1) \div 2 /\ (t = 2 * x => (t + 1) \div 2 = x)
    BY SMT
  <2>2. \A x \in Nat : (2 * x) \div 2 = x
    BY SMT
  <2>3. s + d + l \in Nat /\ s + d \in Nat /\ 2 * (s + d + l) <= to
    BY <1>3
  <2>4. (to + 1) \div 2 \in Nat
    OBVIOUS
  <2>5. s + d + l <= (to + 1) \div 2 /\ (to = 2 * (s + d + l) => (to + 1) \div 2 = s + d + l)
    BY <2>1, <2>3
  <2>6. (2 * (s + d)) \div 2 = s + d
    BY <2>2, <2>3
  <2> QED
    BY <1>1, <2>4, <2>5, <2>6
<1> HIDE DEF n
<1>5. words = [k \in 1 .. n |-> WordAt(mem, s + d + k - 1)]
  BY <1>4 DEF WordsAt, s, n
<1> HIDE DEF words
<1>6. part = [k \in 1 .. l |-> plan.image[d + k]]
  <2>1. part = [k \in 1 .. ((d + l) - (d + 1) + 1) |-> plan.image[(d + 1) + k - 1]]
    OBVIOUS
  <2>2. (d + l) - (d + 1) + 1 = l /\ \A k \in 1 .. l : (d + 1) + k - 1 = d + k
    OBVIOUS
  <2> QED
    BY <2>1, <2>2
<1> HIDE DEF part
<1>7. ASSUME NEW k \in 1 .. l
      PROVE  words[k] = part[k] /\ part[k] \in Words
  <2> DEFINE b == s + d + k - 1
  <2>1. /\ b \in s .. (s + L - 1) /\ b - s + 1 = d + k
        /\ k \in 1 .. n /\ b \in 0 .. (Size - 1) /\ d + k \in 1 .. L
    BY <1>1, <1>4, <1>3
  <2> HIDE DEF b
  <2>2. words[k] = mem[b]
    BY <1>5, <2>1 DEF WordAt, Addresses, b
  <2> QED
    BY <1>2, <1>6, <2>1, <2>2
<1> DEFINE shown == {WordAt(mem, s + d + k - 1) : k \in 1 .. n}
<1>8. Len(words) = n /\ words \in Seq(shown)
  <2>1. words \in [1 .. n -> shown]
    BY <1>5
  <2> HIDE DEF shown
  <2> QED
    BY <1>4, <2>1
<1> HIDE DEF shown
<1>9. part \in Seq(Words) /\ Len(part) = l
  <2>1. part \in [1 .. l -> Words]
    BY <1>6, <1>7
  <2> QED
    BY <2>1
<1>10. SubSeq(words, 1, l) = [k \in 1 .. l |-> words[k]]
  BY <1>4, <1>8
<1>11. SubSeq(part, 1, l) = [k \in 1 .. l |-> part[k]]
  BY <1>9
<1>12. IsPrefix(part, words)
  BY <1>4, <1>7, <1>8, <1>9, <1>10, <1>11 DEF IsPrefix
<1>13. to = 2 * (s + d + l) => words = part
  BY <1>4, <1>5, <1>6, <1>7
<1> QED
  BY <1>12, <1>13 DEF words, part, s

LEMMA ReadingKeeps ==
  ASSUME IInv, stage \in {"verify", "check"}, pc = "idle", req' = None, ans'.cmd # "none",
         UNCHANGED <<mem, loaderVars, hostVars, failures>>,
         stage = "verify" => IsPrefix(NextPiece, ans'.words),
         stage = "check" => ans'.words = plan.image
  PROVE  IInv'
<1> USE DEF loaderVars, hostVars
<1>1. TypeOK /\ Dialogue /\ Erasing /\ Progress /\ Memory /\ ReadBack
  BY DEF IInv
<1>2. Due' = Due /\ ans' # None
  BY DEF Due, None
<1>3. TypeOK'
  BY <1>1, TypesKept
<1>4. Dialogue'
  BY <1>1 DEF Dialogue
<1>5. Erasing'
  BY <1>1 DEF Erasing
<1>6. Progress'
  BY <1>1, <1>2 DEF Progress, Count, Flashing, ChunkAt, Chunk, Start
<1>7. Memory'
  BY <1>1, <1>2, MemoryKept
<1>8. ReadBack'
  BY <1>1 DEF ReadBack, NextPiece, Piece
<1> QED
  BY <1>3, <1>4, <1>5, <1>6, <1>7, <1>8 DEF IInv

(* At the end of the image all of it is stored.                            *)
LEMMA AllStored ==
  ASSUME IInv, stage \in {"verify", "check"}, pc = "idle"
  PROVE  /\ plan \in Plans /\ StoredTo(mem, ChunkAt(plan, Count(plan) + 1))
         /\ Start(plan) \in 0 .. Size /\ ImageEnd(plan) \in 0 .. Size /\ Size \in Nat
         /\ Len(plan.image) \in Nat /\ ImageEnd(plan) = Start(plan) + Len(plan.image)
         /\ Start(plan) < ImageEnd(plan)
<1>1. plan \in Plans /\ next = Count(plan) + 1 /\ StoredTo(mem, ChunkAt(plan, Due))
  BY DEF IInv, TypeOK, Progress, Memory
<1>2. Count(plan) \in Nat \ {0} /\ plan.image \in Seq(Words)
      /\ ImageEnd(plan) = ChunkAt(plan, Count(plan) + 1)
  BY <1>1, PlanFacts DEF ImageEnd
<1>3. Due = next
  BY <1>1, <1>2 DEF Due
<1>4. 1 \in 1 .. (Count(plan) + 1) /\ Count(plan) + 1 \in 1 .. (Count(plan) + 1) /\ 1 < Count(plan) + 1
  BY <1>2
<1>5. Start(plan) \in 0 .. Size /\ ImageEnd(plan) \in 0 .. Size /\ Size \in Nat
      /\ Start(plan) < ImageEnd(plan)
  BY <1>1, <1>2, <1>4, PlanFacts
<1> QED
  BY <1>1, <1>2, <1>3, <1>5 DEF ImageEnd

LEMMA NotEmpty ==
  ASSUME plan \in Plans
  PROVE  Len(plan.image) \in Nat \ {0}
<1>1. Count(plan) \in Nat \ {0} /\ plan.image \in Seq(Words)
      /\ ChunkAt(plan, Count(plan) + 1) = Start(plan) + Len(plan.image)
      /\ Start(plan) = ChunkAt(plan, 1)
  BY PlanFacts
<1>2. 1 \in 1 .. (Count(plan) + 1) /\ Count(plan) + 1 \in 1 .. (Count(plan) + 1) /\ 1 < Count(plan) + 1
  BY <1>1
<1>3. ChunkAt(plan, 1) < ChunkAt(plan, Count(plan) + 1) /\ ChunkAt(plan, 1) \in Int
  BY <1>2, PlanFacts
<1>4. Len(plan.image) \in Nat
  BY <1>1
<1> QED
  BY <1>1, <1>3, <1>4

(* A piece fits into the array of READ, and into the answer.               *)
LEMMA PieceFacts ==
  ASSUME plan \in Plans, seen \in 0 .. Len(plan.image), seen < Len(plan.image)
  PROVE  /\ Piece \in Nat \ {0} /\ seen + Piece <= Len(plan.image) /\ seen \in Nat
         /\ ReadSize \in Nat /\ 2 * Piece <= ReadSize /\ ~(ReadSize < MinRead) /\ Fits(ReadSize)
         /\ ReadSize < 16 * Power[4]
         /\ Lesser(ReadSize, USB_MAX_TX_DATA_SIZE - 22 - 2) = ReadSize
<1>1. Len(plan.image) \in Nat /\ Power[4] = 4096
  BY NotEmpty, Powers
<1>2. /\ MinRead \in Nat /\ ReadWords \in Nat \ {0}
      /\ Greatest(MinRead, 2 * ReadWords) + 3 <= MAX_READ_RESPONSE_SIZE
      /\ MAX_READ_RESPONSE_SIZE <= USB_MAX_TX_DATA_SIZE - 22 /\ MAX_READ_RESPONSE_SIZE \in Nat
      /\ USB_MAX_TX_DATA_SIZE \in Nat /\ USB_MAX_TX_DATA_SIZE < 16 * Power[4]
  BY SessionConstants, TextsConstants
<1>3. Piece \in Nat \ {0} /\ seen + Piece <= Len(plan.image) /\ Piece <= ReadWords /\ seen \in Nat
  BY <1>1, <1>2 DEF Piece, Lesser
<1> HIDE DEF Piece
<1>4. /\ ReadSize \in Nat /\ 2 * Piece <= ReadSize /\ MinRead <= ReadSize
      /\ ReadSize <= Greatest(MinRead, 2 * ReadWords)
  BY <1>2, <1>3 DEF ReadSize, Greatest
<1>5. Greatest(MinRead, 2 * ReadWords) \in Nat
  BY <1>2 DEF Greatest
<1>6. ReadSize + 3 <= MAX_READ_RESPONSE_SIZE
  BY <1>2, <1>4, <1>5
<1> QED
  BY <1>1, <1>2, <1>3, <1>4, <1>6 DEF Fits, Lesser

LEMMA READKeeps ==
  ASSUME IInv, READ
  PROVE  IInv'
<1> DEFINE from == AddressIn(req.data, 1)
           size == Number16(req.data, CMD_32_SIZE + 2)
<1>1. /\ pc = "idle" /\ req.cmd = "READ" /\ req' = None
      /\ ans' \in ReadAnswers(from, size)
      /\ pc' \in IF size < MinRead \/ Fits(size) THEN {pc} ELSE {pc, "reset"}
      /\ UNCHANGED <<mem, addr, mode, job, hostVars, failures>>
  BY DEF READ, Take
<1>2. /\ stage = "verify"
      /\ req.data = Hex(2 * (Start(plan) + seen)) \o <<Comma>>
                    \o HexAsc(ReadSize, CMD_16_SIZE) \o <<ETX>>
  BY <1>1, Commanded
<1>3. /\ plan \in Plans /\ StoredTo(mem, ChunkAt(plan, Count(plan) + 1))
      /\ Start(plan) \in 0 .. Size /\ Size \in Nat /\ Len(plan.image) \in Nat
      /\ ImageEnd(plan) = Start(plan) + Len(plan.image) /\ ImageEnd(plan) \in 0 .. Size
  BY <1>1, <1>2, AllStored
<1>4. seen \in 0 .. Len(plan.image) /\ seen < Len(plan.image)
  BY <1>2 DEF IInv, TypeOK, ReadBack
<1>5. /\ Piece \in Nat \ {0} /\ seen + Piece <= Len(plan.image) /\ seen \in Nat
      /\ ReadSize \in Nat /\ 2 * Piece <= ReadSize /\ ~(ReadSize < MinRead) /\ Fits(ReadSize)
      /\ ReadSize < 16 * Power[4]
      /\ Lesser(ReadSize, USB_MAX_TX_DATA_SIZE - 22 - 2) = ReadSize
  BY <1>3, <1>4, PieceFacts
<1>6. from = 2 * (Start(plan) + seen) /\ size = ReadSize
  <2>1. 2 * (Start(plan) + seen) \in 0 .. (2 * Size)
    BY <1>3, <1>5
  <2> QED
    BY <1>2, <1>3, <1>5, <2>1, CommandData
<1> HIDE DEF from, size
<1>7. ans' = [cmd |-> "READ", words |-> WordsAt(mem, from, from + size)] /\ pc' = pc
  BY <1>1, <1>5, <1>6 DEF ReadAnswers
<1>8. /\ from + size \in Nat /\ 2 * (Start(plan) + seen + Piece) <= from + size
  BY <1>3, <1>5, <1>6
<1>9. IsPrefix(SubSeq(plan.image, seen + 1, seen + Piece), WordsAt(mem, from, from + size))
  BY <1>3, <1>5, <1>6, <1>8, WordsRead
<1>10. IsPrefix(NextPiece, ans'.words) /\ ans'.cmd = "READ"
  BY <1>7, <1>9 DEF NextPiece
<1>11. UNCHANGED <<mem, loaderVars, hostVars, failures>>
  BY <1>1, <1>7 DEF loaderVars
<1> QED
  BY <1>1, <1>2, <1>10, <1>11, ReadingKeeps

LEMMA RQRCKeeps ==
  ASSUME IInv, RQRC
  PROVE  IInv'
<1> DEFINE from == AddressIn(req.data, 1)
           to   == AddressIn(req.data, CMD_32_SIZE + 2)
<1>1. /\ pc = "idle" /\ req.cmd = "RQRC" /\ req' = None
      /\ ans' = IF to = from THEN ERR
                ELSE [cmd |-> "RSRC", words |-> WordsAt(mem, from, to + 1)]
      /\ UNCHANGED <<mem, loaderVars, hostVars, failures>>
  BY DEF RQRC, Take, Answer
<1>2. /\ stage = "check"
      /\ req.data = Hex(2 * Start(plan)) \o <<Comma>> \o Hex(2 * ImageEnd(plan) - 1) \o <<ETX>>
  BY <1>1, Commanded
<1>3. /\ plan \in Plans /\ StoredTo(mem, ChunkAt(plan, Count(plan) + 1))
      /\ Start(plan) \in 0 .. Size /\ ImageEnd(plan) \in 0 .. Size /\ Size \in Nat
      /\ Start(plan) < ImageEnd(plan) /\ Len(plan.image) \in Nat
      /\ ImageEnd(plan) = Start(plan) + Len(plan.image)
  BY <1>1, <1>2, AllStored
<1>4. from = 2 * Start(plan) /\ to = 2 * ImageEnd(plan) - 1
  <2>1. 2 * Start(plan) \in 0 .. (2 * Size) /\ 2 * ImageEnd(plan) - 1 \in 0 .. (2 * Size)
    BY <1>3
  <2>2. plan \in Plans
    BY <1>3
  <2> QED
    BY <1>2, <2>1, <2>2, CommandData
<1> HIDE DEF from, to
<1>5. to # from /\ to + 1 = 2 * ImageEnd(plan)
  BY <1>3, <1>4
<1>6. ans' = [cmd |-> "RSRC", words |-> WordsAt(mem, 2 * Start(plan), 2 * ImageEnd(plan))]
  BY <1>1, <1>4, <1>5
<1>7. ans'.words = plan.image /\ ans'.cmd = "RSRC"
  <2> DEFINE l == Len(plan.image)
  <2>1. /\ 0 \in Nat /\ l \in Nat /\ 0 + l <= Len(plan.image) /\ 2 * ImageEnd(plan) \in Nat
        /\ Start(plan) + 0 = Start(plan) /\ 2 * ImageEnd(plan) = 2 * (Start(plan) + 0 + l)
        /\ 2 * (Start(plan) + 0 + l) <= 2 * ImageEnd(plan) /\ 0 + 1 = 1 /\ 0 + l = l
    BY <1>3
  <2>2. SubSeq(plan.image, 1, l) = plan.image
    BY <1>3, PlanFacts
  <2> HIDE DEF l
  <2>3. WordsAt(mem, 2 * (Start(plan) + 0), 2 * ImageEnd(plan)) = SubSeq(plan.image, 0 + 1, 0 + l)
    BY <1>3, <2>1, WordsRead
  <2> QED
    BY <1>6, <2>1, <2>2, <2>3
<1> QED
  BY <1>1, <1>2, <1>7, ReadingKeeps

LEMMA LeavingKeeps ==
  ASSUME IInv, RESTART \/ POWER_DOWN
  PROVE  IInv'
<1> USE DEF hostVars
<1>1. /\ pc = "idle" /\ req.cmd \in {"RESTART", "POWER_DOWN"} /\ req' = None
      /\ ans' = ACK(<< >>) /\ pc' = "reset"
      /\ UNCHANGED <<mem, addr, mode, job, hostVars, failures>>
  BY DEF RESTART, POWER_DOWN, Take, Answer
<1>2. TypeOK /\ Dialogue /\ Erasing /\ Progress /\ Memory /\ ReadBack
  BY DEF IInv
<1>3. stage = "done"
  BY <1>1, Commanded
<1>4. ans'.cmd = "ACK" /\ ans' # None /\ Due' = Due
  BY <1>1, <1>3 DEF ACK, None, Due
<1>5. TypeOK'
  BY <1>1, <1>2, TypesKept
<1>6. Dialogue'
  BY <1>1, <1>3, <1>4 DEF Dialogue
<1>7. Erasing'
  BY <1>1, <1>3 DEF Erasing
<1>8. Progress'
  BY <1>1, <1>2, <1>3, <1>4 DEF Progress, Count, Flashing, ChunkAt
<1>9. Memory'
  BY <1>1, <1>2, <1>4, MemoryKept
<1>10. ReadBack'
  BY <1>1, <1>3 DEF ReadBack
<1> QED
  BY <1>5, <1>6, <1>7, <1>8, <1>9, <1>10 DEF IInv

LEMMA ResetKeeps ==
  ASSUME IInv, Reset
  PROVE  IInv'
<1>1. /\ pc = "reset" /\ addr' = Null /\ mode' = ERASE_NO /\ pc' = "idle" /\ job' = << >>
      /\ ans' = None /\ stage' = "off"
      /\ UNCHANGED <<mem, req, phone, plan, next, sure, seen, failures>>
  BY DEF Reset, Boot
<1>2. TypeOK /\ Dialogue /\ Erasing /\ Progress /\ Memory /\ ReadBack /\ plan \in Plans
  BY DEF IInv, TypeOK
<1>3. stage \in {"done", "off"} /\ req = None
  BY <1>1, <1>2 DEF Dialogue
<1>4. Due' = Due
  BY <1>1, <1>3 DEF Due
<1>5. plan.mode \in 0 .. 2
  BY <1>2, PlanFacts
<1>6. TypeOK'
  BY <1>1, <1>2, <1>5 DEF TypeOK, Null, Base, Count, Stages, ERASE_NO
<1>7. Dialogue'
  BY <1>1, <1>3 DEF Dialogue
<1>8. Erasing'
  BY <1>1 DEF Erasing
<1>9. Progress'
  BY <1>1, <1>2, <1>3, <1>4 DEF Progress, Count, Flashing, ChunkAt
<1>10. Memory'
  BY <1>1, <1>2, <1>4, MemoryKept
<1>11. ReadBack'
  BY <1>1 DEF ReadBack
<1> QED
  BY <1>6, <1>7, <1>8, <1>9, <1>10, <1>11 DEF IInv

LEMMA HostSendKeeps ==
  ASSUME IInv, HostSend
  PROVE  IInv'
<1> USE DEF loaderVars, hostVars
<1>1. /\ req = None /\ ans = None /\ req' \in Request
      /\ UNCHANGED <<mem, loaderVars, ans, hostVars, failures>>
  BY DEF HostSend
<1>2. TypeOK /\ Dialogue /\ Erasing /\ Progress /\ Memory /\ ReadBack /\ stage \in Stages
  BY DEF IInv, TypeOK
<1>3. Due' = Due
  BY <1>1 DEF Due
<1>4. TypeOK'
  <2>1. pc' \in {"idle", "bin", "reset"}
    BY <1>1, <1>2 DEF TypeOK
  <2> QED
    BY <1>1, <1>2, <2>1, TypesKept
<1>5. Dialogue'
  <2>1. req' \in Request'
    BY <1>1 DEF Request, Hex, Base, ReadSize, Piece, Chunk, ChunkAt, Start, ImageEnd
  <2>2. stage # "off"
    BY <1>1 DEF Request
  <2>3. pc # "reset"
    BY <1>1, <1>2, <2>2 DEF Dialogue
  <2> QED
    BY <1>1, <1>2, <2>1, <2>3 DEF Dialogue
<1>6. Erasing'
  BY <1>1, <1>2 DEF Erasing, Flashing
<1>7. Progress'
  BY <1>1, <1>2, <1>3 DEF Progress, Count, Flashing, ChunkAt, Chunk, Start
<1>8. Memory'
  BY <1>1, <1>2, <1>3, MemoryKept
<1>9. ReadBack'
  BY <1>1, <1>2 DEF ReadBack, NextPiece, Piece
<1> QED
  BY <1>4, <1>5, <1>6, <1>7, <1>8, <1>9 DEF IInv

(* The stage the host goes on to when it hears an answer.                  *)
LEMMA StageAfter ==
  ASSUME IInv, HostHear
  PROVE  \/ stage = "hello" /\ ~Flashing /\ stage' = "addr"
         \/ stage = "hello" /\ Flashing /\ stage' = "erase"
         \/ stage = "erase" /\ mode = plan.mode /\ stage' = "addr"
         \/ stage = "erase" /\ mode < plan.mode /\ stage' = "erase"
         \/ stage = "addr" /\ stage' = "bin"
         \/ stage = "bin" /\ next = Count(plan) /\ stage' = "verify"
         \/ stage = "bin" /\ next < Count(plan) /\ stage' = "bin"
         \/ stage = "verify" /\ seen + Piece = Len(plan.image) /\ stage' = "check"
         \/ stage = "verify" /\ seen + Piece # Len(plan.image) /\ stage' = "verify"
         \/ stage = "check" /\ stage' = "done"
         \/ stage = "done" /\ stage' = "off"
<1>1. TypeOK /\ Dialogue /\ Erasing /\ Progress /\ ReadBack /\ plan \in Plans /\ ans # None
  BY DEF IInv, TypeOK, HostHear
<1>2. stage \in {"hello", "erase", "addr", "bin", "verify", "check", "done"}
  BY <1>1 DEF TypeOK, Stages, ReadBack, Dialogue
<1>3. CASE stage = "hello"
  BY <1>3 DEF HostHear, Flashing
<1>4. CASE stage = "erase"
  <2>1. ans = ACK(HexAsc(mode, 4)) /\ ans.data = HexAsc(mode, 4)
    BY <1>1, <1>4 DEF Erasing, ACK, CMD_16_SIZE
  <2>2. mode \in Nat /\ plan.mode \in Nat /\ mode <= plan.mode /\ plan.mode <= 2
    BY <1>1, PlanFacts DEF TypeOK, ERASE_NO
  <2>3. mode < 16 * Power[4] /\ plan.mode < 16 * Power[4]
    BY SMT, <2>2, Powers
  <2>4. Reads(ans.data, 1, plan.mode, 4) <=> mode = plan.mode
    BY <2>1, <2>2, <2>3, ReadsIt
  <2>5. mode = plan.mode \/ mode < plan.mode
    BY <2>2
  <2> QED
    BY <1>4, <2>2, <2>4, <2>5 DEF HostHear
<1>5. CASE stage = "addr"
  BY <1>5 DEF HostHear
<1>6. CASE stage = "bin"
  <2>1. next \in Nat /\ Count(plan) \in Nat /\ next <= Count(plan)
    BY <1>1, <1>6, PlanFacts DEF TypeOK, Progress
  <2>2. next = Count(plan) \/ (next < Count(plan) /\ next # Count(plan))
    BY <2>1
  <2> QED
    BY <1>6, <2>2 DEF HostHear
<1>7. CASE stage = "verify"
  BY <1>1, <1>7 DEF HostHear, ReadBack
<1>8. CASE stage = "check"
  BY <1>1, <1>8 DEF HostHear, ReadBack
<1>9. CASE stage = "done"
  BY <1>9 DEF HostHear
<1> QED
  BY <1>2, <1>3, <1>4, <1>5, <1>6, <1>7, <1>8, <1>9

LEMMA HostHearKeeps ==
  ASSUME IInv, HostHear
  PROVE  IInv'
<1> USE DEF loaderVars
<1>1. /\ ans # None /\ ans' = None
      /\ next' = IF stage = "bin" THEN next + 1 ELSE next
      /\ sure' = IF stage \in {"bin", "verify"} THEN next - 1 ELSE sure
      /\ seen' = IF stage = "verify" THEN seen + Piece ELSE seen
      /\ UNCHANGED <<mem, loaderVars, req, phone, plan, failures>>
  BY DEF HostHear
<1>2. TypeOK /\ Dialogue /\ Erasing /\ Progress /\ Memory /\ ReadBack /\ plan \in Plans
  BY DEF IInv, TypeOK
<1>3. next \in 1 .. (Count(plan) + 1) /\ Count(plan) \in Nat \ {0} /\ sure \in 0 .. Count(plan)
      /\ Due \in 1 .. (Count(plan) + 1) /\ sure < Due
  BY <1>2, PlanFacts DEF TypeOK, Progress
<1>4. Due' = Due
  BY <1>1, <1>3 DEF Due
<1>5. sure' \in 0 .. Count(plan) /\ sure' < Due
      /\ (stage' \in {"hello", "erase", "addr", "bin"} => sure' < Count(plan))
  <2>1. CASE stage = "bin"
    <3>1. next <= Due /\ sure' = next - 1 /\ next <= Count(plan)
      BY <1>1, <1>2, <1>3, <2>1 DEF Due, Progress
    <3> QED
      BY <1>3, <3>1
  <2>2. CASE stage = "verify"
    <3>1. next = Due /\ sure' = next - 1 /\ stage' \in {"verify", "check"}
      BY <1>1, <1>2, <1>3, <2>2, StageAfter DEF Due, Progress
    <3> QED
      BY <1>3, <3>1
  <2>3. CASE stage \notin {"bin", "verify"}
    <3>1. sure' = sure
      BY <1>1, <2>3
    <3>2. stage' \in {"hello", "erase", "addr", "bin"} =>
            stage \in {"hello", "erase", "addr", "bin"}
      BY StageAfter
    <3> QED
      BY <1>2, <1>3, <3>1, <3>2 DEF Progress
  <2> QED
    BY <2>1, <2>2, <2>3
<1>6. next' \in 1 .. (Count(plan) + 1)
  BY <1>1, <1>2, <1>3 DEF Progress
<1>7. /\ seen' \in 0 .. Len(plan.image)
      /\ stage' \in {"hello", "erase", "addr", "bin"} => seen' = 0
      /\ stage' = "verify" => seen' < Len(plan.image)
  <2>1. seen \in 0 .. Len(plan.image) /\ Len(plan.image) \in Nat \ {0}
    BY <1>2, NotEmpty DEF TypeOK
  <2>2. CASE stage = "verify"
    <3>1. seen < Len(plan.image)
      BY <1>2, <2>2 DEF ReadBack
    <3>2. Piece \in Nat /\ seen + Piece <= Len(plan.image)
      BY <1>2, <2>1, <3>1, PieceFacts
    <3>3. seen' = seen + Piece
      BY <1>1, <2>2
    <3>4. \/ seen + Piece = Len(plan.image) /\ stage' = "check"
          \/ seen + Piece # Len(plan.image) /\ stage' = "verify"
      BY <2>2, StageAfter
    <3> HIDE DEF Piece
    <3> QED
      BY <1>1, <2>1, <3>1, <3>2, <3>3, <3>4
  <2>3. CASE stage # "verify"
    <3>1. seen' = seen
      BY <1>1, <2>3
    <3>2. stage \in {"hello", "erase", "addr", "bin"} => seen = 0
      BY <1>2 DEF ReadBack
    <3> QED
      BY <2>1, <2>3, <3>1, <3>2, StageAfter
  <2> QED
    BY <2>2, <2>3
<1>8. TypeOK'
  <2>1. stage' \in Stages
    BY StageAfter DEF Stages
  <2> QED
    BY <1>1, <1>2, <1>5, <1>6, <1>7, <2>1 DEF TypeOK, Null, Base, Count
<1>9. Dialogue'
  <2>1. req = None
    BY <1>1, <1>2 DEF Dialogue
  <2> QED
    BY <1>1, <1>2, <2>1, StageAfter DEF Dialogue
<1>10. Erasing'
  <2>1. plan.mode \in 0 .. 2 /\ mode \in 0 .. 2
    BY <1>2, PlanFacts DEF TypeOK, ERASE_NO
  <2> QED
    BY <1>1, <1>2, <2>1, StageAfter DEF Erasing, Flashing, ERASE_NO
<1>11. Progress'
  <2>1. /\ stage' \in {"hello", "erase", "addr", "bin"} => next' <= Count(plan)
        /\ stage' \in {"verify", "check", "done", "off"} => next' = Count(plan) + 1
    BY <1>1, <1>2, <1>3, StageAfter DEF Progress
  <2>2. stage' \in {"hello", "erase", "addr"} => stage \in {"hello", "erase"} /\ next' = next
    BY <1>1, StageAfter
  <2>3. pc = "bin" => stage' \in {"bin", "verify"}
    BY <1>1, <1>2, StageAfter DEF Progress
  <2>4. stage' \in {"bin", "verify"} => addr = ChunkAt(plan, Due)
    BY <1>1, <1>2, StageAfter DEF Progress
  <2>5. Count(plan)' = Count(plan) /\ Flashing' = Flashing
        /\ ChunkAt(plan, next)' = ChunkAt(plan, next') /\ ChunkAt(plan, Due)' = ChunkAt(plan, Due)
        /\ Chunk(plan, Due)' = Chunk(plan, Due)
    BY <1>1, <1>4 DEF Count, Flashing, ChunkAt, Chunk, Start
  <2> QED
    BY <1>1, <1>2, <1>4, <1>5, <1>3, <2>1, <2>2, <2>3, <2>4, <2>5 DEF Progress
<1>12. Memory'
  BY <1>1, <1>2, <1>4, MemoryKept
<1>13. ReadBack'
  BY <1>1, <1>7, StageAfter DEF ReadBack
<1> QED
  BY <1>8, <1>9, <1>10, <1>11, <1>12, <1>13 DEF IInv

(* A power failure touches nothing of what is stored before the chunk that *)
(* is being written.                                                       *)
LEMMA TouchedBehind ==
  ASSUME IInv, Flashing
  PROVE  /\ pc # "bin" => Touched = {}
         /\ \A b \in Touched : ChunkAt(plan, Due) <= b
<1>1. pc # "bin" => Touched = {}
  BY DEF Touched, Flashing
<1>2. CASE pc = "bin"
  <2>1. addr = ChunkAt(plan, Due) /\ plan \in Plans /\ Due \in 1 .. Count(plan) /\ Count(plan) \in Nat
    BY <1>2, JobFacts, PlanFacts
  <2>2. addr \in Nat
    <3>1. Due \in 1 .. (Count(plan) + 1)
      BY <2>1
    <3> QED
      BY <2>1, <3>1, PlanFacts
  <2>3. Touched \subseteq Extent(addr, job) \cup (IF addr \in BlockStarts THEN Block(addr) ELSE {})
    BY <1>2 DEF Touched, Flashing
  <2>4. \A b \in Extent(addr, job) : addr <= b
    <3>1. Extent(addr, job) = ChunkAt(plan, Due) .. (ChunkAt(plan, Due + 1) - 1)
      BY <1>2, <2>1, JobFacts, ChunkFacts
    <3> QED
      BY <2>1, <2>2, <3>1
  <2>5. addr \in BlockStarts => \A b \in Block(addr) : addr <= b
    BY <2>2 DEF Block
  <2> QED
    BY <1>2, <2>1, <2>3, <2>4, <2>5
<1> QED
  BY <1>1, <1>2

LEMMA PowerFailureKeeps ==
  ASSUME IInv, PowerFailure
  PROVE  IInv'
<1> USE DEF hostVars
<1>1. /\ stage # "off" /\ failures < MaxFailures /\ failures' = failures + 1
      /\ mem' \in [Addresses -> Words] /\ \A b \in Addresses \ Touched : mem'[b] = mem[b]
      /\ addr' = Null /\ mode' = ERASE_NO /\ pc' = "idle" /\ job' = << >>
      /\ req' = None /\ ans' = None
  BY DEF PowerFailure, Boot
<1>2. TypeOK /\ Dialogue /\ Erasing /\ Progress /\ Memory /\ ReadBack /\ plan \in Plans
  BY DEF IInv, TypeOK
<1>3. next \in 1 .. (Count(plan) + 1) /\ Count(plan) \in Nat \ {0} /\ sure \in 0 .. Count(plan)
      /\ Due \in 1 .. (Count(plan) + 1) /\ sure < Due /\ plan.mode \in 0 .. 2
  BY <1>2, PlanFacts DEF TypeOK, Progress
<1>4. failures' \in 0 .. MaxFailures
  BY <1>1, <1>2, SessionConstants DEF TypeOK
<1>5. CASE Flashing /\ stage \in {"check", "done", "bad"}
  <2>1. UNCHANGED hostVars
    BY <1>5 DEF PowerFailure, Flashing
  <2>2. pc # "bin" /\ Due = next /\ Due' = Due
    BY <1>1, <1>2, <1>3, <1>5, <2>1 DEF Progress, Due
  <2>3. mem' = mem
    <3>1. Touched = {} /\ mem \in [Addresses -> Words]
      BY <1>2, <1>5, <2>2, TouchedBehind DEF TypeOK
    <3> QED
      BY <1>1, <3>1
  <2>4. TypeOK'
    BY <1>1, <1>2, <1>3, <1>4, <2>1 DEF TypeOK, Null, Base, Count, ERASE_NO
  <2>5. Dialogue'
    BY <1>1, <2>1 DEF Dialogue
  <2>6. Erasing'
    BY <1>1, <1>5, <2>1 DEF Erasing
  <2>7. Progress'
    BY <1>1, <1>2, <1>5, <2>1, <2>2 DEF Progress, Count, Flashing, ChunkAt
  <2>8. Memory'
    BY <1>2, <2>1, <2>2, <2>3, MemoryKept
  <2>9. ReadBack'
    BY <1>1, <1>2, <1>5, <2>1 DEF ReadBack
  <2> QED
    BY <2>4, <2>5, <2>6, <2>7, <2>8, <2>9 DEF IInv
<1>6. CASE ~(Flashing /\ stage \in {"check", "done", "bad"})
  <2>1. PICK n \in Resumable :
          stage' = "hello" /\ next' = n /\ sure' = n - 1 /\ seen' = 0 /\ UNCHANGED <<phone, plan>>
    BY <1>6 DEF PowerFailure, Flashing
  <2>2. /\ n \in 1 .. Count(plan) /\ n <= Due /\ (n > 1 => Flashing)
        /\ Flashing => ChunkAt(plan, n) \in BlockStarts
    <3>1. CASE n = 1
      BY <1>2, <1>3, <3>1, SessionConstants DEF Flashing, BlocksStarted, Start
    <3>2. CASE n # 1
      <4>1. n \in 1 .. Lesser(sure + 1, Count(plan)) /\ Flashing /\ ChunkAt(plan, n) \in BlockStarts
        BY <2>1, <3>2 DEF Resumable, Flashing
      <4> QED
        BY <1>3, <4>1 DEF Lesser
    <3> QED
      BY <3>1, <3>2
  <2>3. Due' = n
    BY <1>1, <2>1, <2>2, <1>3 DEF Due
  <2>4. TypeOK'
    BY <1>1, <1>2, <1>3, <1>4, <2>1, <2>2 DEF TypeOK, Null, Base, Count, ERASE_NO, Stages
  <2>5. Dialogue'
    BY <1>1, <2>1 DEF Dialogue
  <2>6. Erasing'
    BY <1>1, <2>1 DEF Erasing
  <2>7. Progress'
    <3>1. Count(plan)' = Count(plan) /\ Flashing' = Flashing
          /\ ChunkAt(plan, next)' = ChunkAt(plan, n)
      BY <2>1 DEF Count, Flashing, ChunkAt
    <3>2. n \in 1 .. (Count(plan) + 1) /\ n - 1 < n /\ n <= Count(plan) /\ n - 1 < Count(plan)
      BY <1>3, <2>2
    <3> QED
      BY <1>1, <2>1, <2>2, <2>3, <3>1, <3>2 DEF Progress
  <2>8. Memory'
    <3>1. Flashing' = Flashing /\ ChunkAt(plan, Due)' = ChunkAt(plan, n) /\ Start(plan)' = Start(plan)
      BY <2>1, <2>3 DEF Flashing, ChunkAt, Start
    <3>2. Flashing => FreshAt(mem', ChunkAt(plan, n))
      BY <2>2 DEF FreshAt
    <3>3. \A b \in Start(plan) .. (ChunkAt(plan, n) - 1) : mem'[b] = plan.image[b - Start(plan) + 1]
      <4> SUFFICES ASSUME NEW b \in Start(plan) .. (ChunkAt(plan, n) - 1)
                   PROVE  mem'[b] = plan.image[b - Start(plan) + 1]
        OBVIOUS
      <4>1. /\ ChunkAt(plan, n) \in 0 .. Size /\ ChunkAt(plan, Due) \in 0 .. Size /\ Size \in Nat
            /\ Start(plan) \in 0 .. Size /\ ChunkAt(plan, n) <= ChunkAt(plan, Due)
        <5>1. n \in 1 .. (Count(plan) + 1) /\ Due \in 1 .. (Count(plan) + 1) /\ n <= Due
          BY <1>3, <2>2
        <5> QED
          BY <1>2, <5>1, InPlaceOrder
      <4>2. Flashing
        BY <2>2, <4>1 DEF Start
      <4>3. b \in Addresses /\ b \in Start(plan) .. (ChunkAt(plan, Due) - 1)
            /\ ~(ChunkAt(plan, Due) <= b)
        BY <4>1 DEF Addresses
      <4>4. mem'[b] = mem[b]
        BY <1>1, <4>2, <4>3, TouchedBehind
      <4> QED
        BY <1>2, <4>3, <4>4 DEF Memory, StoredTo
    <3> QED
      BY <2>1, <3>1, <3>2, <3>3 DEF Memory, StoredTo, FreshAt
  <2>9. ReadBack'
    BY <1>1, <2>1 DEF ReadBack
  <2> QED
    BY <2>4, <2>5, <2>6, <2>7, <2>8, <2>9 DEF IInv
<1> QED
  BY <1>5, <1>6

LEMMA StutterKeeps ==
  ASSUME IInv, UNCHANGED vars
  PROVE  IInv'
<1> USE DEF vars, loaderVars, hostVars
<1>1. TypeOK /\ Dialogue /\ Erasing /\ Progress /\ Memory /\ ReadBack
  BY DEF IInv
<1>2. Due' = Due
  BY DEF Due
<1>3. TypeOK'
  <2>1. pc' \in {"idle", "bin", "reset"}
    BY <1>1 DEF TypeOK
  <2> QED
    BY <1>1, <2>1, TypesKept
<1>4. Dialogue'
  <2>1. Request' = Request
    BY DEF Request, Hex, Base, ReadSize, Piece, Chunk, ChunkAt, Start, ImageEnd
  <2> QED
    BY <1>1, <2>1 DEF Dialogue
<1>5. Erasing'
  BY <1>1 DEF Erasing, Flashing
<1>6. Progress'
  BY <1>1, <1>2 DEF Progress, Count, Flashing, ChunkAt, Chunk, Start
<1>7. Memory'
  BY <1>1, <1>2, MemoryKept
<1>8. ReadBack'
  BY <1>1 DEF ReadBack, NextPiece, Piece
<1> QED
  BY <1>3, <1>4, <1>5, <1>6, <1>7, <1>8 DEF IInv

LEMMA Initially ==
  ASSUME Init
  PROVE  IInv
<1>1. /\ plan \in Plans /\ stage = "hello" /\ next = 1 /\ sure = 0 /\ seen = 0 /\ mem \in Contents
      /\ addr = Null /\ mode = ERASE_NO /\ pc = "idle" /\ job = << >>
      /\ req = None /\ ans = None /\ failures = 0
  BY DEF Init
<1>2. Count(plan) \in Nat \ {0} /\ plan.mode \in 0 .. 2
      /\ ChunkAt(plan, 1) \in 0 .. Size /\ Start(plan) = ChunkAt(plan, 1)
  BY <1>1, PlanFacts
<1>3. Flashing => ChunkAt(plan, 1) \in BlockStarts
  BY <1>1, SessionConstants DEF Flashing, BlocksStarted, Start
<1>4. mem \in [Addresses -> Words]
  BY <1>1, FlashConstants DEF Addresses, Words
<1>5. Due = 1
  BY <1>1 DEF Due
<1>6. TypeOK
  BY <1>1, <1>2, <1>4, SessionConstants DEF TypeOK, ERASE_NO, Stages
<1>7. Dialogue
  BY <1>1 DEF Dialogue
<1>8. Erasing
  BY <1>1 DEF Erasing
<1>9. Progress
  BY <1>1, <1>2, <1>3, <1>5 DEF Progress
<1>10. Memory
  <2>1. \A b \in Start(plan) .. (ChunkAt(plan, 1) - 1) : FALSE
    BY <1>2
  <2> QED
    BY <1>3, <1>5, <2>1 DEF Memory, FreshAt, StoredTo
<1>11. ReadBack
  BY <1>1 DEF ReadBack
<1> QED
  BY <1>6, <1>7, <1>8, <1>9, <1>10, <1>11 DEF IInv

LEMMA NextKeeps ==
  ASSUME IInv, [Next]_vars
  PROVE  IInv'
<1>1. CASE Loader
  BY <1>1, ADDRKeeps, ERASEKeeps, BINKeeps, WriteBINKeeps, READKeeps, RQRCKeeps, QuestionsKeep,
     LeavingKeeps, UnknownKeeps, ResetKeeps DEF Loader
<1>2. CASE Host
  BY <1>2, HostSendKeeps, HostHearKeeps DEF Host
<1>3. CASE PowerFailure
  BY <1>3, PowerFailureKeeps
<1>4. CASE UNCHANGED vars
  BY <1>4, StutterKeeps
<1> QED
  BY <1>1, <1>2, <1>3, <1>4 DEF Next

LEMMA AlwaysIInv == Spec => []IInv
<1>1. Init => IInv
  BY Initially
<1>2. IInv /\ [Next]_vars => IInv'
  BY NextKeeps
<1> QED
  BY <1>1, <1>2, PTL DEF Spec

-----------------------------------------------------------------------------
(* The answers to questions, put together on the stack.                    *)

Stack == 0 .. (MAX_READ_RESPONSE_SIZE - 1)

(* No digit is a NUL, and the host tells it from every other.              *)
LEMMA DigitFacts ==
  ASSUME NEW x \in Nat, NEW n \in 1 .. 8, NEW k \in 1 .. n
  PROVE  LET digit == (x \div Power[n - k + 1]) % 16
         IN /\ HexAsc(x, n)[k] = IF digit < 10 THEN Zero + digit ELSE 55 + digit
            /\ HexAsc(x, n)[k] \in Int /\ HexAsc(x, n)[k] # NUL
<1> DEFINE p == Power[n - k + 1]
           digit == (x \div p) % 16
<1>1. p \in Nat \ {0}
  BY SMT, Powers
<1>2. \A q \in Nat \ {0} : x \div q \in Int
  BY SMT
<1>3. digit \in 0 .. 15
  BY SMT, <1>1, <1>2
<1>4. HexAsc(x, n)[k] = HexDigit(digit)
  BY HexAscType DEF digit, p
<1> HIDE DEF digit
<1>5. /\ HexDigit(digit) = IF digit < 10 THEN Zero + digit ELSE 55 + digit
      /\ HexDigit(digit) \in Int /\ HexDigit(digit) # NUL
  BY SMT, <1>3 DEF HexDigit, Zero, NUL
<1> QED
  BY <1>4, <1>5 DEF digit

LEMMA DigitText ==
  ASSUME NEW x \in Nat, NEW n \in 1 .. 8
  PROVE  /\ HexAsc(x, n) \in Seq(Int) /\ Len(HexAsc(x, n)) = n
         /\ \A i \in 1 .. n : HexAsc(x, n)[i] # NUL /\ HexAsc(x, n)[i] \in Int
<1> DEFINE h == HexAsc(x, n)
<1>1. \A i \in 1 .. n : h[i] # NUL /\ h[i] \in Int
  BY DigitFacts
<1>2. h \in Seq(Nat) /\ Len(h) = n
  BY HexAscType
<1> HIDE DEF h
<1>3. h \in Seq(Int)
  BY <1>1, <1>2
<1> QED
  BY <1>1, <1>2, <1>3 DEF h

LEMMA FoundAt ==
  ASSUME NEW x \in Nat, NEW n \in 1 .. 8, NEW text, NEW k \in Nat, k + n - 1 <= Len(text),
         \A i \in 1 .. n : text[k + i - 1] = HexAsc(x, n)[i]
  PROVE  Reads(text, k, x, n)
<1>1. ASSUME NEW i \in 1 .. n
      PROVE  LET digit == (x \div Power[n - i + 1]) % 16
             IN text[k + i - 1] = IF digit < 10 THEN Zero + digit ELSE 55 + digit
  BY DigitFacts
<1> QED
  BY <1>1 DEF Reads

LEMMA StoreAt ==
  ASSUME NEW stack \in [Stack -> Int], NEW at \in Nat, NEW s \in Seq(Int)
  PROVE  /\ Store(stack, at, s) \in [Stack -> Int]
         /\ \A k \in Stack : Store(stack, at, s)[k] =
              IF at <= k /\ k < at + Len(s) THEN s[k - at + 1] ELSE stack[k]
<1>1. Stack \subseteq Nat
  BY DEF Stack
<1> QED
  BY <1>1 DEF Store

(* What is put on the stack, and the NUL behind it.                        *)
LEMMA PutFacts ==
  ASSUME NEW stack \in [Stack -> Int], NEW at \in Nat, NEW s \in Seq(Int)
  PROVE  /\ PutString(stack, at, s) \in [Stack -> Int]
         /\ \A k \in Stack : PutString(stack, at, s)[k] =
              IF at <= k /\ k < at + Len(s) THEN s[k - at + 1]
              ELSE IF k = at + Len(s) THEN NUL ELSE stack[k]
<1> DEFINE r == s \o <<NUL>>
<1>1. Stack \subseteq Nat
  BY DEF Stack
<1>2. /\ r \in Seq(Int) /\ Len(r) = Len(s) + 1 /\ Len(s) \in Nat /\ r[Len(s) + 1] = NUL
      /\ \A i \in 1 .. Len(s) : r[i] = s[i] /\ s[i] \in Int
  BY DEF NUL
<1> HIDE DEF r
<1>3. /\ Store(stack, at, r) \in [Stack -> Int]
      /\ \A k \in Stack : Store(stack, at, r)[k] =
           IF at <= k /\ k < at + Len(r) THEN r[k - at + 1] ELSE stack[k]
  BY <1>2, StoreAt
<1>4. PutString(stack, at, s) = Store(stack, at, r)
  BY DEF PutString, r
<1>5. ASSUME NEW k \in Stack
      PROVE  PutString(stack, at, s)[k] =
               IF at <= k /\ k < at + Len(s) THEN s[k - at + 1]
               ELSE IF k = at + Len(s) THEN NUL ELSE stack[k]
  <2>1. PutString(stack, at, s)[k] = IF at <= k /\ k < at + Len(r) THEN r[k - at + 1] ELSE stack[k]
    BY <1>2, <1>3, <1>4
  <2>2. k \in Nat
    BY <1>1
  <2>3. CASE at <= k /\ k < at + Len(s)
    <3>1. k - at + 1 \in 1 .. Len(s) /\ k < at + (Len(s) + 1)
      BY <1>2, <2>2, <2>3
    <3> QED
      BY <1>2, <2>1, <2>3, <3>1
  <2>4. CASE k = at + Len(s)
    <3>1. k - at + 1 = Len(s) + 1 /\ at <= k /\ k < at + (Len(s) + 1) /\ ~(k < at + Len(s))
      BY <1>2, <2>2, <2>4
    <3> QED
      BY <1>2, <2>1, <2>4, <3>1
  <2>5. CASE k < at \/ k > at + Len(s)
    BY <1>2, <2>1, <2>2, <2>5
  <2>6. (at <= k /\ k < at + Len(s)) \/ k = at + Len(s) \/ (k < at \/ k > at + Len(s))
    BY <1>2, <2>2
  <2> QED
    BY Zenon, <2>3, <2>4, <2>5, <2>6
<1> QED
  BY <1>2, <1>3, <1>4, <1>5

(* The answer is what stands before the first NUL.                         *)
LEMMA EndsAtNul ==
  ASSUME NEW stack \in [Stack -> Int], NEW n \in Stack,
         stack[n] = NUL, \A j \in 0 .. (n - 1) : stack[j] # NUL
  PROVE  /\ CString(stack) \in Seq(Int) /\ Len(CString(stack)) = n
         /\ \A i \in 1 .. n : CString(stack)[i] = stack[i - 1]
<1> DEFINE last == MAX_READ_RESPONSE_SIZE - 1
           S == {j \in DOMAIN stack : j >= 0 /\ stack[j] \in {NUL}} \cup {Max(DOMAIN stack) + 1}
<1>1. last \in Nat /\ Stack = 0 .. last /\ DOMAIN stack = 0 .. last
  BY TextsConstants DEF Stack
<1>2. Max(DOMAIN stack) = last
  BY <1>1 DEF Max
<1> HIDE DEF last
<1>3. n \in S /\ \A j \in S : n <= j
  BY <1>1, <1>2
<1>4. \A j \in S : (\A i \in S : j <= i) => j = n
  BY <1>1, <1>2, <1>3
<1>5. FirstIn(stack, 0, {NUL}) = n
  BY <1>3, <1>4 DEF FirstIn, Min
<1>6. CString(stack) = [i \in 1 .. (n - 0) |-> At(stack, 0 + i - 1)]
  BY <1>5 DEF CString, Slice
<1>7. ASSUME NEW i \in 1 .. n
      PROVE  i - 1 \in DOMAIN stack /\ At(stack, 0 + i - 1) = stack[i - 1] /\ stack[i - 1] \in Int
  <2>1. i - 1 \in DOMAIN stack /\ 0 + i - 1 = i - 1 /\ i - 1 \in Stack
    BY <1>1
  <2> QED
    BY <2>1 DEF At
<1>8. n - 0 = n /\ n \in Nat
  BY <1>1
<1>9. CString(stack) \in [1 .. n -> Int]
  BY <1>6, <1>7, <1>8
<1> QED
  BY <1>6, <1>7, <1>8, <1>9

(* One text put at the start of the stack and no NUL in it.                *)
LEMMA OneText ==
  ASSUME NEW s \in Seq(Int), Len(s) \in Stack, \A i \in 1 .. Len(s) : s[i] # NUL
  PROVE  /\ Len(CString(PutString(OnStack, 0, s))) = Len(s)
         /\ \A i \in 1 .. Len(s) : CString(PutString(OnStack, 0, s))[i] = s[i]
<1> DEFINE m == PutString(OnStack, 0, s)
           n == Len(s)
<1>1. OnStack \in [Stack -> Int] /\ Stack \subseteq Nat
      /\ \A k, l \in Nat : k \in Stack /\ l < k => l \in Stack
  BY TextsConstants DEF OnStack, Stack, Stale
<1>2. 0 \in Nat /\ n \in Nat /\ n \in Stack
  OBVIOUS
<1>3. /\ m \in [Stack -> Int]
      /\ \A k \in Stack : m[k] = IF 0 <= k /\ k < 0 + Len(s) THEN s[k - 0 + 1]
                                 ELSE IF k = 0 + Len(s) THEN NUL ELSE OnStack[k]
  BY <1>1, <1>2, PutFacts
<1> HIDE DEF m
<1>4. m[n] = NUL
  BY <1>2, <1>3
<1>5. ASSUME NEW j \in 0 .. (n - 1)
      PROVE  m[j] = s[j + 1] /\ m[j] # NUL
  <2>1. j \in Nat /\ j < n /\ j \in Stack /\ j - 0 + 1 = j + 1 /\ j + 1 \in 1 .. Len(s)
    BY <1>1, <1>2
  <2> QED
    BY <1>2, <1>3, <2>1
<1> HIDE DEF n
<1>6. /\ Len(CString(m)) = n
      /\ \A i \in 1 .. n : CString(m)[i] = m[i - 1]
  BY <1>2, <1>3, <1>4, <1>5, EndsAtNul
<1>7. ASSUME NEW i \in 1 .. n
      PROVE  CString(m)[i] = s[i]
  <2>1. i - 1 \in 0 .. (n - 1) /\ (i - 1) + 1 = i
    BY <1>2
  <2> QED
    BY <1>5, <1>6, <2>1
<1> QED
  BY <1>6, <1>7 DEF m, n

LEMMA FlashIdText ==
  ASSUME NEW id \in Nat
  PROVE  Len(RSFI(id)) = 8 /\ Reads(RSFI(id), 1, id, 8)
<1> DEFINE h == HexAsc(id, 8)
<1>1. 8 \in 1 .. 8 /\ 8 \in Stack /\ 1 \in Nat
  BY TextsConstants DEF Stack
<1>2. h \in Seq(Int) /\ Len(h) = 8
  BY <1>1, DigitText
<1>3. \A i \in 1 .. 8 : h[i] # NUL
  BY <1>1, DigitText
<1> HIDE DEF h
<1>4. /\ Len(CString(PutString(OnStack, 0, h))) = 8
      /\ \A i \in 1 .. 8 : CString(PutString(OnStack, 0, h))[i] = h[i]
  BY <1>1, <1>2, <1>3, OneText
<1>5. RSFI(id) = CString(PutString(OnStack, 0, h))
  BY DEF RSFI, CMD_32_SIZE, h
<1> DEFINE text == RSFI(id)
<1>6. Len(text) = 8 /\ \A i \in 1 .. 8 : text[i] = h[i]
  BY <1>4, <1>5
<1> HIDE DEF text
<1>7. 1 + 8 - 1 <= Len(text) /\ \A i \in 1 .. 8 : text[1 + i - 1] = h[i]
  BY <1>6
<1>8. Reads(text, 1, id, 8)
  BY <1>1, <1>7, FoundAt DEF h
<1> QED
  BY <1>6, <1>8 DEF text

(* The version behind so many zeros.                                       *)
LEMMA HardwareText ==
  ASSUME NEW version \in Nat
  PROVE  Len(RSHW(version)) = 16 /\ Reads(RSHW(version), 13, version, 4)
<1> DEFINE h == HexAsc(version, 4)
           z == Zeros(16)
           first == Store(OnStack, 0, z)
           m == PutString(first, 12, h)
           text == CString(m)
<1>1. /\ 4 \in 1 .. 8 /\ 0 \in Nat /\ 12 \in Nat /\ 13 \in Nat /\ 16 \in Stack
      /\ Stack \subseteq Nat /\ \A k \in 0 .. 16 : k \in Stack
      /\ OnStack \in [Stack -> Int]
  BY TextsConstants DEF Stack, OnStack, Stale
<1>2. h \in Seq(Int) /\ Len(h) = 4
  BY <1>1, DigitText
<1>3. \A i \in 1 .. 4 : h[i] # NUL
  BY <1>1, DigitText
<1>4. z \in Seq(Int) /\ Len(z) = 16 /\ \A i \in 1 .. 16 : z[i] = 48
  BY DEF Zeros, Zero
<1> HIDE DEF h, z
<1>5. /\ first \in [Stack -> Int]
      /\ \A k \in Stack : first[k] = IF 0 <= k /\ k < 0 + Len(z) THEN z[k - 0 + 1] ELSE OnStack[k]
  BY <1>1, <1>4, StoreAt
<1>6. ASSUME NEW k \in 0 .. 15
      PROVE  first[k] = 48
  <2>1. k \in Stack /\ k - 0 + 1 \in 1 .. 16 /\ 0 <= k /\ k < 0 + 16
    BY <1>1
  <2> QED
    BY <1>4, <1>5, <2>1
<1> HIDE DEF first
<1>7. /\ m \in [Stack -> Int]
      /\ \A k \in Stack : m[k] = IF 12 <= k /\ k < 12 + Len(h) THEN h[k - 12 + 1]
                                 ELSE IF k = 12 + Len(h) THEN NUL ELSE first[k]
  BY <1>1, <1>2, <1>5, PutFacts
<1> HIDE DEF m
<1>8. m[16] = NUL /\ \A j \in 0 .. (16 - 1) : m[j] # NUL
  <2>1. m[16] = NUL
    BY <1>1, <1>2, <1>7
  <2>2. ASSUME NEW j \in 0 .. 11
        PROVE  m[j] # NUL
    <3>1. j \in Stack /\ j \in 0 .. 15 /\ ~(12 <= j) /\ j # 12 + 4
      BY <1>1
    <3>2. m[j] = 48
      BY <1>2, <1>6, <1>7, <3>1
    <3> QED
      BY <3>2 DEF NUL
  <2>3. ASSUME NEW j \in 12 .. 15
        PROVE  m[j] # NUL
    <3>1. j - 12 + 1 \in 1 .. 4 /\ j \in Stack /\ j < 12 + 4
      BY <1>1
    <3> QED
      BY <1>2, <1>3, <1>7, <3>1
  <2> QED
    BY <2>1, <2>2, <2>3
<1>9. /\ Len(text) = 16
      /\ \A i \in 1 .. 16 : text[i] = m[i - 1]
  BY <1>1, <1>7, <1>8, EndsAtNul
<1>10. ASSUME NEW i \in 1 .. 4
       PROVE  text[13 + i - 1] = h[i]
  <2>1. 13 + i - 1 \in 1 .. 16 /\ (13 + i - 1) - 1 \in Stack /\ (13 + i - 1) - 1 >= 12
        /\ (13 + i - 1) - 1 < 12 + 4 /\ ((13 + i - 1) - 1) - 12 + 1 = i
    BY <1>1
  <2> HIDE DEF text
  <2>2. text[13 + i - 1] = m[(13 + i - 1) - 1]
    BY <1>9, <2>1
  <2> QED
    BY <1>2, <1>7, <2>1, <2>2
<1> HIDE DEF text
<1>11. Reads(text, 13, version, 4)
  <2>1. 13 + 4 - 1 <= Len(text)
    BY <1>9
  <2> QED
    BY <1>1, <1>10, <2>1, FoundAt DEF h
<1>12. text = RSHW(version)
  BY DEF text, m, first, h, z, RSHW, CMD_16_SIZE
<1> QED
  BY <1>9, <1>11, <1>12

(* The version twice, and a comma where the first one had its NUL.         *)
LEMMA VersionText ==
  ASSUME NEW version \in Nat
  PROVE  /\ Len(RSVN(version)) = 33 /\ RSVN(version)[17] = Comma
         /\ Reads(RSVN(version), 13, version, 4) /\ Reads(RSVN(version), 30, version, 4)
<1> DEFINE h == HexAsc(version, 4)
           z == Zeros(33)
           zeros == Store(OnStack, 0, z)
           first == PutString(zeros, 12, h)
           sep == <<Comma>>
           comma == Store(first, 16, sep)
           m == PutString(comma, 29, h)
           text == CString(m)
<1>1. /\ 4 \in 1 .. 8 /\ 0 \in Nat /\ 12 \in Nat /\ 13 \in Nat /\ 16 \in Nat /\ 29 \in Nat
      /\ 30 \in Nat /\ 33 \in Stack
      /\ Stack \subseteq Nat /\ \A k \in 0 .. 33 : k \in Stack
      /\ OnStack \in [Stack -> Int]
  BY TextsConstants DEF Stack, OnStack, Stale
<1>2. h \in Seq(Int) /\ Len(h) = 4 /\ \A i \in 1 .. 4 : h[i] # NUL
  BY <1>1, DigitText
<1>3. z \in Seq(Int) /\ Len(z) = 33 /\ \A i \in 1 .. 33 : z[i] = 48
  BY DEF Zeros, Zero
<1>4. sep \in Seq(Int) /\ Len(sep) = 1 /\ sep[1] = 44
  BY DEF Comma
<1> HIDE DEF h, z, sep
<1>5. /\ zeros \in [Stack -> Int]
      /\ \A k \in Stack : zeros[k] = IF 0 <= k /\ k < 0 + Len(z) THEN z[k - 0 + 1] ELSE OnStack[k]
  BY <1>1, <1>3, StoreAt
<1>6. ASSUME NEW k \in 0 .. 32
      PROVE  zeros[k] = 48
  <2>1. k \in Stack /\ k - 0 + 1 \in 1 .. 33 /\ 0 <= k /\ k < 0 + 33
    BY <1>1
  <2> QED
    BY <1>3, <1>5, <2>1
<1> HIDE DEF zeros
<1>7. /\ first \in [Stack -> Int]
      /\ \A k \in Stack : first[k] = IF 12 <= k /\ k < 12 + Len(h) THEN h[k - 12 + 1]
                                     ELSE IF k = 12 + Len(h) THEN NUL ELSE zeros[k]
  BY <1>1, <1>2, <1>5, PutFacts
<1> HIDE DEF first
<1>8. /\ comma \in [Stack -> Int]
      /\ \A k \in Stack : comma[k] = IF 16 <= k /\ k < 16 + Len(sep) THEN sep[k - 16 + 1] ELSE first[k]
  BY Zenon, <1>1, <1>4, <1>7, StoreAt
<1> HIDE DEF comma
<1>9. /\ m \in [Stack -> Int]
      /\ \A k \in Stack : m[k] = IF 29 <= k /\ k < 29 + Len(h) THEN h[k - 29 + 1]
                                 ELSE IF k = 29 + Len(h) THEN NUL ELSE comma[k]
  BY <1>1, <1>2, <1>8, PutFacts
<1> HIDE DEF m
<1>10. ASSUME NEW j \in 29 .. 32
       PROVE  m[j] = h[j - 28] /\ m[j] # NUL
  <2>1. j \in Stack /\ j - 29 + 1 = j - 28 /\ j - 28 \in 1 .. 4 /\ 29 <= j /\ j < 29 + 4
    BY <1>1
  <2> QED
    BY <1>2, <1>9, <2>1
<1>11. ASSUME NEW j \in 0 .. 28
       PROVE  m[j] = comma[j]
  <2>1. j \in Stack /\ ~(29 <= j) /\ j # 29 + 4
    BY <1>1
  <2> QED
    BY <1>2, <1>9, <2>1
<1>12. m[16] = 44
  <2>1. 16 \in Stack /\ 16 - 16 + 1 = 1 /\ 16 <= 16 /\ 16 < 16 + 1 /\ 16 \in 0 .. 28
    BY <1>1
  <2>2. comma[16] = sep[16 - 16 + 1]
    BY Zenon, <1>4, <1>8, <2>1
  <2>3. comma[16] = 44
    BY Zenon, <1>4, <2>1, <2>2
  <2> QED
    BY Zenon, <1>11, <2>1, <2>3
<1>13. ASSUME NEW j \in 0 .. 28, j # 16
       PROVE  m[j] = first[j]
  <2>1. j \in Stack /\ ~(16 <= j /\ j < 16 + 1)
    BY <1>1, <1>13
  <2> QED
    BY <1>4, <1>8, <1>11, <2>1
<1>14. ASSUME NEW j \in 12 .. 15
       PROVE  m[j] = h[j - 11] /\ m[j] # NUL
  <2>1. j \in Stack /\ j - 12 + 1 = j - 11 /\ j - 11 \in 1 .. 4 /\ 12 <= j /\ j < 12 + 4
        /\ j \in 0 .. 28 /\ j # 16
    BY <1>1
  <2> QED
    BY <1>2, <1>7, <1>13, <2>1
<1>15. ASSUME NEW j \in 0 .. 28, j \notin 12 .. 16
       PROVE  m[j] = 48
  <2>1. j \in Stack /\ ~(12 <= j /\ j < 12 + 4) /\ j # 12 + 4 /\ j # 16 /\ j \in 0 .. 32
    BY <1>1, <1>15
  <2> QED
    BY <1>2, <1>6, <1>7, <1>13, <2>1
<1>16. m[33] = NUL /\ \A j \in 0 .. (33 - 1) : m[j] # NUL
  <2>1. m[33] = NUL
    BY <1>1, <1>2, <1>9
  <2>2. ASSUME NEW j \in 0 .. (33 - 1)
        PROVE  m[j] # NUL
    <3>1. j \in 29 .. 32 \/ j \in 12 .. 15 \/ j = 16 \/ (j \in 0 .. 28 /\ j \notin 12 .. 16)
      OBVIOUS
    <3>2. 48 # NUL /\ 44 # NUL
      BY DEF NUL
    <3> QED
      BY Zenon, <1>10, <1>12, <1>14, <1>15, <3>1, <3>2
  <2> QED
    BY <2>1, <2>2
<1>17. /\ Len(text) = 33
       /\ \A i \in 1 .. 33 : text[i] = m[i - 1]
  BY <1>1, <1>9, <1>16, EndsAtNul
<1> HIDE DEF text
<1>18. Len(text) = 33 /\ text[17] = Comma
  BY <1>12, <1>17 DEF Comma
<1>19. Reads(text, 13, version, 4)
  <2>1. ASSUME NEW i \in 1 .. 4
        PROVE  text[13 + i - 1] = h[i]
    <3>1. 13 + i - 1 \in 1 .. 33 /\ (13 + i - 1) - 1 \in 12 .. 15 /\ ((13 + i - 1) - 1) - 11 = i
      OBVIOUS
    <3> QED
      BY <1>14, <1>17, <3>1
  <2>2. 13 + 4 - 1 <= Len(text)
    BY <1>17
  <2> QED
    BY <1>1, <2>1, <2>2, FoundAt DEF h
<1>20. Reads(text, 30, version, 4)
  <2>1. ASSUME NEW i \in 1 .. 4
        PROVE  text[30 + i - 1] = h[i]
    <3>1. 30 + i - 1 \in 1 .. 33 /\ (30 + i - 1) - 1 \in 29 .. 32 /\ ((30 + i - 1) - 1) - 28 = i
      OBVIOUS
    <3> QED
      BY <1>10, <1>17, <3>1
  <2>2. 30 + 4 - 1 <= Len(text)
    BY <1>17
  <2> QED
    BY <1>1, <2>1, <2>2, FoundAt DEF h
<1>21. text = RSVN(version)
  BY DEF text, m, comma, sep, first, zeros, h, z, RSVN, CMD_16_SIZE
<1> QED
  BY <1>18, <1>19, <1>20, <1>21

(* Each part takes the place of the NUL of the part before.                *)
Part(s, n) == s \in Seq(Int) /\ Len(s) = n /\ \A i \in 1 .. n : s[i] # NUL

LEMMA JoinedAt ==
  ASSUME NEW s \in Seq(Int), NEW t \in Seq(Int)
  PROVE  /\ s \o t \in Seq(Int) /\ Len(s \o t) = Len(s) + Len(t)
         /\ \A i \in 1 .. Len(s) : (s \o t)[i] = s[i]
         /\ \A i \in 1 .. Len(t) : (s \o t)[Len(s) + i] = t[i]
  OBVIOUS

LEMMA SameText ==
  ASSUME NEW s \in Seq(Int), NEW t \in Seq(Int), NEW n \in Nat, Len(s) = n, Len(t) = n,
         \A i \in 1 .. n : s[i] = t[i]
  PROVE  s = t
  OBVIOUS

LEMMA ThreeParts ==
  ASSUME NEW a, Part(a, 14), NEW c, Part(c, 1), NEW b, Part(b, 16)
  PROVE  CString(PutString(PutString(PutString(OnStack, 0, a), 14, c), 15, b)) = a \o c \o b
<1> DEFINE name == PutString(OnStack, 0, a)
           colon == PutString(name, 14, c)
           m == PutString(colon, 15, b)
           text == CString(m)
           whole == a \o c \o b
<1>1. /\ 0 \in Nat /\ 14 \in Nat /\ 15 \in Nat /\ 31 \in Stack
      /\ Stack \subseteq Nat /\ \A k \in 0 .. 31 : k \in Stack
      /\ OnStack \in [Stack -> Int]
  BY TextsConstants DEF Stack, OnStack, Stale
<1>2. /\ name \in [Stack -> Int]
      /\ \A k \in Stack : name[k] = IF 0 <= k /\ k < 0 + Len(a) THEN a[k - 0 + 1]
                                    ELSE IF k = 0 + Len(a) THEN NUL ELSE OnStack[k]
  BY Zenon, <1>1, PutFacts DEF Part
<1> HIDE DEF name
<1>3. /\ colon \in [Stack -> Int]
      /\ \A k \in Stack : colon[k] = IF 14 <= k /\ k < 14 + Len(c) THEN c[k - 14 + 1]
                                     ELSE IF k = 14 + Len(c) THEN NUL ELSE name[k]
  BY Zenon, <1>1, <1>2, PutFacts DEF Part
<1> HIDE DEF colon
<1>4. /\ m \in [Stack -> Int]
      /\ \A k \in Stack : m[k] = IF 15 <= k /\ k < 15 + Len(b) THEN b[k - 15 + 1]
                                 ELSE IF k = 15 + Len(b) THEN NUL ELSE colon[k]
  BY Zenon, <1>1, <1>3, PutFacts DEF Part
<1> HIDE DEF m
<1>5. ASSUME NEW j \in 15 .. 30
      PROVE  m[j] = b[j - 14] /\ m[j] # NUL
  <2>1. /\ j \in Stack /\ j - 15 + 1 = j - 14 /\ j - 14 \in 1 .. 16 /\ 15 <= j /\ j < 15 + 16
    BY <1>1
  <2> QED
    BY <1>4, <2>1 DEF Part
<1>6. m[14] = c[1] /\ m[14] # NUL
  <2>1. 14 \in Stack /\ ~(15 <= 14) /\ 14 # 15 + 16 /\ 14 - 14 + 1 = 1 /\ 14 < 14 + 1
    BY <1>1
  <2>2. colon[14] = c[1]
    <3>1. 14 <= 14 /\ 14 < 14 + Len(c)
      BY DEF Part
    <3>2. colon[14] = c[14 - 14 + 1]
      BY Zenon, <1>3, <2>1, <3>1
    <3> QED
      BY Zenon, <2>1, <3>2
  <2>3. c[1] # NUL
    BY DEF Part
  <2> QED
    BY <1>4, <2>1, <2>2, <2>3 DEF Part
<1>7. ASSUME NEW j \in 0 .. 13
      PROVE  m[j] = a[j + 1] /\ m[j] # NUL
  <2>1. /\ j \in Stack /\ ~(15 <= j) /\ j # 15 + 16 /\ ~(14 <= j) /\ j # 14 + 1
        /\ 0 <= j /\ j < 0 + 14 /\ j - 0 + 1 = j + 1 /\ j + 1 \in 1 .. 14
    BY <1>1
  <2>2. name[j] = a[j + 1]
    BY <1>2, <2>1 DEF Part
  <2>3. colon[j] = a[j + 1]
    BY <1>3, <2>1, <2>2 DEF Part
  <2>4. a[j + 1] # NUL
    BY <2>1 DEF Part
  <2> QED
    BY <1>4, <2>1, <2>3, <2>4 DEF Part
<1>8. m[31] = NUL /\ \A j \in 0 .. (31 - 1) : m[j] # NUL
  <2>1. m[31] = NUL
    BY <1>1, <1>4 DEF Part
  <2>2. \A j \in 0 .. (31 - 1) : j \in 15 .. 30 \/ j = 14 \/ j \in 0 .. 13
    OBVIOUS
  <2> QED
    BY Zenon, <1>5, <1>6, <1>7, <2>1, <2>2
<1>9. /\ text \in Seq(Int) /\ Len(text) = 31
      /\ \A i \in 1 .. 31 : text[i] = m[i - 1]
  BY <1>1, <1>4, <1>8, EndsAtNul
<1> HIDE DEF text
<1>10. /\ whole \in Seq(Int) /\ Len(whole) = 31
       /\ \A i \in 1 .. 14 : whole[i] = a[i]
       /\ whole[15] = c[1]
       /\ \A i \in 16 .. 31 : whole[i] = b[i - 15]
  <2> DEFINE start == a \o c
  <2>1. /\ a \in Seq(Int) /\ Len(a) = 14 /\ c \in Seq(Int) /\ Len(c) = 1
        /\ b \in Seq(Int) /\ Len(b) = 16
    BY DEF Part
  <2>2. /\ start \in Seq(Int) /\ Len(start) = 14 + 1
        /\ \A i \in 1 .. 14 : start[i] = a[i]
        /\ \A i \in 1 .. 1 : start[14 + i] = c[i]
    <3>1. /\ start \in Seq(Int) /\ Len(start) = Len(a) + Len(c)
          /\ \A i \in 1 .. Len(a) : start[i] = a[i]
          /\ \A i \in 1 .. Len(c) : start[Len(a) + i] = c[i]
      BY Zenon, <2>1, JoinedAt
    <3> HIDE DEF start
    <3> QED
      BY Zenon, <2>1, <3>1
  <2>3. 1 \in 1 .. 1 /\ 14 + 1 = 15 /\ 15 \in 1 .. 15 /\ \A i \in 1 .. 14 : i \in 1 .. 15
    OBVIOUS
  <2> HIDE DEF start
  <2>4. Len(start) = 15 /\ start[15] = c[1]
    BY <2>2, <2>3
  <2>5. /\ start \o b \in Seq(Int) /\ Len(start \o b) = 15 + 16
        /\ \A i \in 1 .. 15 : (start \o b)[i] = start[i]
        /\ \A i \in 1 .. 16 : (start \o b)[15 + i] = b[i]
    <3>1. /\ start \o b \in Seq(Int) /\ Len(start \o b) = Len(start) + Len(b)
          /\ \A i \in 1 .. Len(start) : (start \o b)[i] = start[i]
          /\ \A i \in 1 .. Len(b) : (start \o b)[Len(start) + i] = b[i]
      BY Zenon, <2>1, <2>2, JoinedAt
    <3> QED
      BY Zenon, <2>1, <2>4, <3>1
  <2>6. (start \o b)[15] = c[1] /\ \A i \in 1 .. 14 : (start \o b)[i] = a[i]
    BY Zenon, <2>2, <2>3, <2>4, <2>5
  <2>7. \A i \in 16 .. 31 : i - 15 \in 1 .. 16 /\ 15 + (i - 15) = i
    OBVIOUS
  <2>8. \A i \in 16 .. 31 : (start \o b)[i] = b[i - 15]
    <3> SUFFICES ASSUME NEW i \in 16 .. 31
                 PROVE  (start \o b)[i] = b[i - 15]
      OBVIOUS
    <3>1. (start \o b)[15 + (i - 15)] = b[i - 15]
      BY Zenon, <2>5, <2>7
    <3> QED
      BY Zenon, <2>7, <3>1
  <2>9. 15 + 16 = 31
    OBVIOUS
  <2> QED
    BY Zenon, <2>5, <2>6, <2>8, <2>9 DEF start
<1> HIDE DEF whole
<1>11. ASSUME NEW i \in 1 .. 31
       PROVE  text[i] = whole[i]
  <2>1. i \in 16 .. 31 \/ i = 15 \/ i \in 1 .. 14
    OBVIOUS
  <2>2. CASE i \in 16 .. 31
    <3>1. i - 1 \in 15 .. 30 /\ (i - 1) - 14 = i - 15
      BY <2>2
    <3> QED
      BY <1>5, <1>9, <1>10, <2>2, <3>1
  <2>3. text[15] = whole[15]
    <3>1. text[15] = m[15 - 1] /\ 15 - 1 = 14
      BY <1>9
    <3> QED
      BY <1>6, <1>10, <3>1
  <2>4. CASE i \in 1 .. 14
    <3>1. i - 1 \in 0 .. 13 /\ (i - 1) + 1 = i
      BY <2>4
    <3> QED
      BY <1>7, <1>9, <1>10, <2>4, <3>1
  <2> QED
    BY Zenon, <2>1, <2>2, <2>3, <2>4
<1>12. text = whole
  <2>1. 31 \in Nat
    OBVIOUS
  <2> QED
    BY Zenon, <2>1, <1>9, <1>10, <1>11, SameText
<1> QED
  BY <1>12 DEF text, whole, m, colon, name

LEMMA SoftwareText == RSSW(SW, FLEX) = SW \o <<Colon>> \o FLEX
<1> DEFINE a == SW
           c == <<Colon>>
           b == FLEX
<1>1. Part(a, 14)
  BY DEF Part, SW, NUL
<1>2. Part(b, 16)
  BY DEF Part, FLEX, NUL
<1>3. Part(c, 1)
  BY DEF Part, Colon, NUL
<1>4. RSSW(a, b) = CString(PutString(PutString(PutString(OnStack, 0, a), 14, c), 15, b))
  BY DEF RSSW
<1> HIDE DEF a, b, c
<1>5. RSSW(a, b) = a \o c \o b
  BY <1>1, <1>2, <1>3, <1>4, ThreeParts
<1> QED
  BY <1>5 DEF a, b, c

(* Numbers one behind the other. The function in PutAll is what it says:   *)
(* every step puts a number behind those of the step before.               *)
LEMMA LeastNat ==
  ASSUME NEW T, T \subseteq Nat, T # {}
  PROVE  \E x \in T : \A y \in T : x <= y
<1>1. PICK x \in T : \A y \in T : <<y, x>> \notin OpToRel(<, Nat)
  BY NatLessThanWellFounded, WFMin, Zenon
<1>2. \A y \in T : ~(y < x)
  BY <1>1, Zenon DEF OpToRel
<1> QED
  BY <1>2

LEMMA StepByStep ==
  ASSUME NEW vals, NEW n, Len(vals) \in Nat
  PROVE  \E f : f = [k \in 0 .. Len(vals) |-> IF k = 0 THEN OnStack
                     ELSE PutString(f[k - 1], n * (k - 1), HexAsc(vals[k], n))]
<1> DEFINE Step(f, k) == IF k = 0 THEN OnStack
                         ELSE PutString(f[k - 1], n * (k - 1), HexAsc(vals[k], n))
           Steps(k) == \E f : f = [j \in 0 .. k |-> Step(f, j)]
           Others == {k \in Nat : ~Steps(k)}
<1>1. ASSUME Others # {}
      PROVE  FALSE
  <2>1. PICK k \in Others : \A j \in Others : k <= j
    <3>1. Others \subseteq Nat
      OBVIOUS
    <3> HIDE DEF Others
    <3> QED
      BY <1>1, <3>1, LeastNat
  <2>2. k \in Nat /\ ~Steps(k)
    OBVIOUS
  <2>3. CASE k = 0
    <3> DEFINE f == [j \in 0 .. 0 |-> OnStack]
    <3>1. f = [j \in 0 .. 0 |-> Step(f, j)]
      OBVIOUS
    <3> HIDE DEF f
    <3>2. Steps(0)
      BY <3>1
    <3> QED
      BY <2>2, <2>3, <3>2
  <2>4. CASE k # 0
    <3>1. k - 1 \in Nat /\ ~(k <= k - 1)
      BY <2>2, <2>4
    <3>2. Steps(k - 1)
      BY <2>1, <3>1
    <3>3. PICK f : f = [j \in 0 .. (k - 1) |-> Step(f, j)]
      BY <3>2
    <3> DEFINE g == [j \in 0 .. k |-> Step(f, j)]
    <3>4. ASSUME NEW j \in 0 .. k
          PROVE  Step(f, j) = Step(g, j)
      <4>1. CASE j = 0
        BY <4>1
      <4>2. CASE j # 0
        <5>1. j - 1 \in 0 .. (k - 1) /\ j - 1 \in 0 .. k
          BY <2>2, <4>2
        <5>2. f[j - 1] = Step(f, j - 1)
          BY <3>3, <5>1
        <5>3. g[j - 1] = Step(f, j - 1)
          BY <5>1
        <5> HIDE DEF g
        <5>4. f[j - 1] = g[j - 1]
          BY <5>2, <5>3
        <5> QED
          BY <4>2, <5>4
      <4> QED
        BY <4>1, <4>2
    <3>5. g = [j \in 0 .. k |-> Step(g, j)]
      <4> DEFINE h == [j \in 0 .. k |-> Step(g, j)]
      <4>1. \A j \in 0 .. k : Step(f, j) = Step(g, j)
        BY <3>4
      <4> QED
        BY <4>1
    <3> HIDE DEF g
    <3> QED
      BY <2>2, <3>5
  <2> QED
    BY <2>3, <2>4
<1>2. Len(vals) \notin Others
  BY <1>1
<1> HIDE DEF Step
<1>3. Steps(Len(vals))
  BY <1>2
<1> QED
  BY <1>3 DEF Step

LEMMA PutAllFacts ==
  ASSUME NEW vals, NEW n, Len(vals) \in Nat
  PROVE  \E f : /\ f = [k \in 0 .. Len(vals) |-> IF k = 0 THEN OnStack
                          ELSE PutString(f[k - 1], n * (k - 1), HexAsc(vals[k], n))]
                /\ PutAll(vals, n) = f[Len(vals)]
<1> DEFINE Upto[k \in 0 .. Len(vals)] ==
             IF k = 0 THEN OnStack ELSE PutString(Upto[k - 1], n * (k - 1), HexAsc(vals[k], n))
<1>1. Upto = CHOOSE f : f = [k \in 0 .. Len(vals) |-> IF k = 0 THEN OnStack
                                ELSE PutString(f[k - 1], n * (k - 1), HexAsc(vals[k], n))]
  BY DEF Upto
<1>2. \E f : f = [k \in 0 .. Len(vals) |-> IF k = 0 THEN OnStack
                                ELSE PutString(f[k - 1], n * (k - 1), HexAsc(vals[k], n))]
  <2> HIDE DEF Upto
  <2> QED
    BY StepByStep, Zenon
<1>3. Upto = [k \in 0 .. Len(vals) |-> IF k = 0 THEN OnStack
                                ELSE PutString(Upto[k - 1], n * (k - 1), HexAsc(vals[k], n))]
  BY <1>1, <1>2, Zenon
<1>4. PutAll(vals, n) = Upto[Len(vals)]
  BY DEF PutAll
<1> HIDE DEF Upto
<1> QED
  BY <1>3, <1>4

(* The first k numbers stand on the stack, and a NUL behind the last.      *)
Filled(stack, vals, n, k) ==
  /\ stack \in [Stack -> Int]
  /\ \A j \in 1 .. k : \A i \in 1 .. n : stack[n * (j - 1) + i - 1] = HexAsc(vals[j], n)[i]
  /\ k > 0 => stack[n * k] = NUL

LEMMA Strides ==
  ASSUME NEW n \in {2, 4}, NEW k \in Nat
  PROVE  /\ n * k \in Nat /\ n * (k + 1) = n * k + n /\ n * ((k + 1) - 1) = n * k
         /\ \A j \in 1 .. k : \A i \in 1 .. n :
              n * (j - 1) + i - 1 \in 0 .. (n * k - 1)
<1>1. CASE n = 2
  BY SMT, <1>1
<1>2. CASE n = 4
  BY SMT, <1>2
<1> QED
  BY <1>1, <1>2

LEMMA OneMoreNumber ==
  ASSUME NEW n \in {2, 4}, NEW vals, NEW k \in Nat, NEW stack, Filled(stack, vals, n, k),
         vals[k + 1] \in Nat, n * (k + 1) \in Stack
  PROVE  Filled(PutString(stack, n * k, HexAsc(vals[k + 1], n)), vals, n, k + 1)
<1> DEFINE h == HexAsc(vals[k + 1], n)
           at == n * k
           m == PutString(stack, at, h)
<1>1. n \in 1 .. 8 /\ n \in Nat
  OBVIOUS
<1>2. h \in Seq(Int) /\ Len(h) = n
  BY <1>1, DigitText
<1>3. /\ at \in Nat /\ n * (k + 1) = at + n /\ n * ((k + 1) - 1) = at
      /\ \A j \in 1 .. k : \A i \in 1 .. n : n * (j - 1) + i - 1 \in 0 .. (at - 1)
  BY Strides
<1>4. at + n \in Stack /\ \A x \in 0 .. (at + n) : x \in Stack
  <2>1. at + n \in Stack
    BY <1>3, Zenon
  <2> HIDE DEF at
  <2> QED
    BY <1>1, <1>3, <2>1, TextsConstants DEF Stack
<1>5. stack \in [Stack -> Int]
      /\ \A j \in 1 .. k : \A i \in 1 .. n : stack[n * (j - 1) + i - 1] = HexAsc(vals[j], n)[i]
  BY DEF Filled
<1> HIDE DEF at, h
<1>6. /\ m \in [Stack -> Int]
      /\ \A x \in Stack : m[x] = IF at <= x /\ x < at + Len(h) THEN h[x - at + 1]
                                  ELSE IF x = at + Len(h) THEN NUL ELSE stack[x]
  BY <1>2, <1>3, <1>5, PutFacts
<1> HIDE DEF m
<1>7. m[n * (k + 1)] = NUL
  BY <1>1, <1>2, <1>3, <1>4, <1>6
<1>8. ASSUME NEW j \in 1 .. (k + 1), NEW i \in 1 .. n
      PROVE  m[n * (j - 1) + i - 1] = HexAsc(vals[j], n)[i]
  <2> DEFINE x == n * (j - 1) + i - 1
  <2>1. CASE j = k + 1
    <3>1. x = at + i - 1
      BY <1>1, <1>3, <2>1
    <3> HIDE DEF x
    <3>2. x \in Stack /\ at <= x /\ x < at + n /\ x - at + 1 = i
      BY <1>1, <1>3, <1>4, <3>1
    <3>3. m[x] = h[i]
      BY <1>2, <1>6, <3>2
    <3> QED
      BY <2>1, <3>3 DEF x, h
  <2>2. CASE j # k + 1
    <3>1. j \in 1 .. k
      BY <2>2
    <3>2. x \in 0 .. (at - 1)
      BY <1>3, <3>1
    <3>3. stack[x] = HexAsc(vals[j], n)[i]
      BY <1>5, <3>1
    <3> HIDE DEF x
    <3>4. x \in Stack /\ ~(at <= x) /\ x # at + n
      BY <1>1, <1>3, <1>4, <3>2
    <3> QED
      BY <1>2, <1>6, <3>3, <3>4 DEF x
  <2> QED
    BY <2>1, <2>2
<1> QED
  BY <1>6, <1>7, <1>8 DEF Filled, m, at, h

LEMMA AllFilled ==
  ASSUME NEW n \in {2, 4}, NEW vals, NEW l \in Nat, vals \in Seq(Nat), Len(vals) = l,
         n * l < MAX_READ_RESPONSE_SIZE
  PROVE  Filled(PutAll(vals, n), vals, n, l)
<1>1. PICK f : /\ f = [k \in 0 .. Len(vals) |-> IF k = 0 THEN OnStack
                          ELSE PutString(f[k - 1], n * (k - 1), HexAsc(vals[k], n))]
               /\ PutAll(vals, n) = f[Len(vals)]
  BY PutAllFacts, Zenon
<1> DEFINE Others == {k \in 0 .. l : ~Filled(f[k], vals, n, k)}
<1>2. ASSUME Others # {}
      PROVE  FALSE
  <2>1. PICK k \in Others : \A j \in Others : k <= j
    <3>1. Others \subseteq Nat
      OBVIOUS
    <3> HIDE DEF Others
    <3> QED
      BY <1>2, <3>1, LeastNat
  <2>2. k \in 0 .. l /\ ~Filled(f[k], vals, n, k)
    OBVIOUS
  <2>3. CASE k = 0
    <3>1. f[0] = OnStack
      BY <1>1
    <3>2. OnStack \in [Stack -> Int]
      BY DEF OnStack, Stack, Stale
    <3>3. Filled(OnStack, vals, n, 0)
      BY <3>2 DEF Filled
    <3> QED
      BY <2>2, <2>3, <3>1, <3>3
  <2>4. CASE k # 0
    <3> DEFINE j == k - 1
    <3>1. j \in 0 .. l /\ ~(k <= j) /\ j + 1 = k /\ j \in Nat
      BY <2>2, <2>4
    <3>2. Filled(f[j], vals, n, j)
      BY <2>1, <3>1
    <3>3. f[k] = PutString(f[j], n * j, HexAsc(vals[k], n))
      BY <1>1, <2>2, <2>4
    <3>4. vals[k] \in Nat
      BY <2>2, <2>4
    <3>5. n * k \in Stack
      <4>1. CASE n = 2
        BY SMT, <2>2, <4>1, TextsConstants DEF Stack
      <4>2. CASE n = 4
        BY SMT, <2>2, <4>2, TextsConstants DEF Stack
      <4> QED
        BY <4>1, <4>2
    <3> HIDE DEF j
    <3>6. Filled(f[k], vals, n, k)
      BY <3>1, <3>2, <3>3, <3>4, <3>5, OneMoreNumber
    <3> QED
      BY <2>2, <3>6
  <2> QED
    BY <2>3, <2>4
<1>3. l \notin Others
  BY <1>2
<1> QED
  BY <1>1, <1>3

(* Many numbers: each is found where it was put.                           *)
LEMMA NumbersText ==
  ASSUME NEW n \in {2, 4}, NEW vals, NEW l \in Nat \ {0}, vals \in Seq(Nat), Len(vals) = l,
         n * l < MAX_READ_RESPONSE_SIZE
  PROVE  LET text == CString(PutAll(vals, n))
         IN /\ Len(text) = n * l
            /\ \A k \in 1 .. l : Reads(text, n * k - (n - 1), vals[k], n)
<1> DEFINE stack == PutAll(vals, n)
           text == CString(stack)
           total == n * l
<1>1. total \in Nat /\ total \in Stack
  BY TextsConstants DEF Stack
<1>2. /\ stack \in [Stack -> Int] /\ stack[total] = NUL
      /\ \A j \in 1 .. l : \A i \in 1 .. n : stack[n * (j - 1) + i - 1] = HexAsc(vals[j], n)[i]
  <2>1. Filled(stack, vals, n, l)
    BY AllFilled
  <2> HIDE DEF stack
  <2> QED
    BY <2>1 DEF Filled
<1> HIDE DEF stack
<1>3. ASSUME NEW v \in Nat
      PROVE  \A i \in 1 .. n : HexAsc(v, n)[i] # NUL
  <2>1. n \in 1 .. 8
    OBVIOUS
  <2> QED
    BY <2>1, DigitText
<1>4. ASSUME NEW x \in 0 .. (total - 1)
      PROVE  stack[x] # NUL
  <2> DEFINE q == 1 + (x \div n)
             r == 1 + (x % n)
  <2>1. q \in 1 .. l /\ r \in 1 .. n /\ n * (q - 1) + r - 1 = x
    <3>1. CASE n = 2
      BY SMT, <3>1
    <3>2. CASE n = 4
      BY SMT, <3>2
    <3> QED
      BY <3>1, <3>2
  <2> HIDE DEF q, r
  <2>2. stack[n * (q - 1) + r - 1] = HexAsc(vals[q], n)[r]
    BY <1>2, <2>1, Zenon
  <2>3. stack[x] = HexAsc(vals[q], n)[r]
    BY <2>1, <2>2, Zenon
  <2>4. vals[q] \in Nat
    BY <2>1
  <2> QED
    BY <1>3, <2>1, <2>3, <2>4
<1>5. Len(text) = total /\ \A i \in 1 .. total : text[i] = stack[i - 1]
  <2> HIDE DEF total
  <2> QED
    BY <1>1, <1>2, <1>4, EndsAtNul
<1> HIDE DEF text
<1>6. ASSUME NEW k \in 1 .. l
      PROVE  Reads(text, n * k - (n - 1), vals[k], n)
  <2> DEFINE at == n * k - (n - 1)
  <2>1. at \in Nat /\ at + n - 1 <= total
    <3>1. CASE n = 2
      BY SMT, <3>1
    <3>2. CASE n = 4
      BY SMT, <3>2
    <3> QED
      BY <3>1, <3>2
  <2>2. ASSUME NEW i \in 1 .. n
        PROVE  text[at + i - 1] = HexAsc(vals[k], n)[i]
    <3>1. /\ at + i - 1 \in 1 .. total
          /\ (at + i - 1) - 1 = n * (k - 1) + i - 1
      <4>1. CASE n = 2
        BY SMT, <4>1
      <4>2. CASE n = 4
        BY SMT, <4>2
      <4> QED
        BY <4>1, <4>2
    <3> HIDE DEF at, total
    <3>2. text[at + i - 1] = stack[(at + i - 1) - 1]
      BY <1>5, <3>1
    <3> QED
      BY <1>2, <3>1, <3>2
  <2>3. n \in 1 .. 8 /\ vals[k] \in Nat
    OBVIOUS
  <2>4. at + n - 1 <= Len(text)
    BY <1>5, <2>1
  <2> HIDE DEF at
  <2>5. Reads(text, at, vals[k], n)
    BY <2>1, <2>2, <2>3, <2>4, FoundAt
  <2> QED
    BY <2>5 DEF at
<1> QED
  BY <1>5, <1>6 DEF text, stack, total

LEMMA IsSeq ==
  ASSUME NEW S, NEW n \in Nat, NEW f \in [1 .. n -> S]
  PROVE  f \in Seq(S) /\ Len(f) = n
  OBVIOUS

(* What every phone of Phones answers to the questions.                    *)
PhoneFacts ==
  /\ phone.version \in Nat /\ phone.uid \in [1 .. 8 -> Nat] /\ phone.id \in Nat
  /\ phone.otp \in Seq(Nat) /\ phone.unread \in Nat /\ Len(phone.otp) + phone.unread > 0
  /\ 2 * (Len(phone.otp) + phone.unread) < MAX_READ_RESPONSE_SIZE

LEMMA PhoneKnown ==
  ASSUME phone \in Phones
  PROVE  PhoneFacts
BY Zenon, SessionConstants DEF PhoneFacts

LEMMA VersionKnown ==
  ASSUME phone \in Phones, IInv
  PROVE  Version \in Nat
<1>1. CASE plan.mode = ERASE_NO
  BY <1>1, PhoneKnown DEF Version, PhoneFacts
<1>2. CASE plan.mode # ERASE_NO
  <2>1. mem \in [Addresses -> Words] /\ VersionWord \in Addresses
    BY SessionConstants, FlashConstants DEF IInv, TypeOK, Addresses, VersionWord
  <2>2. Value[mem[VersionWord]] \in 0 .. (16 * Power[4] - 1)
    BY <2>1, SessionConstants
  <2>3. \A v \in 0 .. (16 * Power[4] - 1) : v \in Nat
    OBVIOUS
  <2> QED
    BY <1>2, <2>2, <2>3 DEF Version
<1> QED
  BY <1>1, <1>2

LEMMA SerialText ==
  ASSUME NEW uid \in [1 .. 8 -> Nat]
  PROVE  Len(RSSN(uid)) = 32 /\ \A k \in 1 .. 8 : Reads(RSSN(uid), 4 * k - 3, uid[9 - k], 4)
<1> DEFINE vals == Reverse(uid)
           text == CString(PutAll(vals, 4))
<1>1. 8 \in Nat \ {0} /\ 4 \in {2, 4} /\ 4 * 8 < MAX_READ_RESPONSE_SIZE /\ 4 * 8 = 32 /\ 4 - 1 = 3
  BY TextsConstants
<1>2. uid \in Seq(Nat) /\ Len(uid) = 8
  BY <1>1, IsSeq
<1>3. vals = [i \in 1 .. 8 |-> uid[(8 - i) + 1]]
  BY <1>2 DEF Reverse
<1>4. \A i \in 1 .. 8 : (8 - i) + 1 \in 1 .. 8 /\ (8 - i) + 1 = 9 - i
  OBVIOUS
<1>5. vals \in [1 .. 8 -> Nat] /\ \A k \in 1 .. 8 : vals[k] = uid[9 - k]
  BY <1>3, <1>4
<1> HIDE DEF vals
<1>6. vals \in Seq(Nat) /\ Len(vals) = 8
  <2>1. vals \in [1 .. 8 -> Nat] /\ 8 \in Nat
    BY <1>5
  <2> QED
    BY <2>1, IsSeq
<1>7. Len(text) = 32 /\ \A k \in 1 .. 8 : Reads(text, 4 * k - 3, vals[k], 4)
  BY <1>1, <1>6, NumbersText
<1>8. RSSN(uid) = text
  BY DEF RSSN, CMD_16_SIZE, vals
<1> QED
  BY <1>5, <1>7, <1>8

LEMMA OtpText ==
  ASSUME NEW otp \in Seq(Nat), NEW u \in Nat, NEW rest \in [1 .. u -> StackBytes],
         Len(otp) + u > 0, 2 * (Len(otp) + u) < MAX_READ_RESPONSE_SIZE
  PROVE  /\ Len(OTP(otp \o rest)) = 2 * (Len(otp) + u)
         /\ \A k \in DOMAIN otp : Reads(OTP(otp \o rest), 2 * k - 1, otp[k], 2)
<1> DEFINE vals == otp \o rest
           text == CString(PutAll(vals, 2))
           l == Len(otp) + u
<1>1. rest \in Seq(Nat) /\ Len(rest) = u
  <2>1. StackBytes \subseteq Nat
    BY SessionConstants
  <2>2. rest \in [1 .. u -> Nat]
    BY <2>1
  <2> QED
    BY <2>2, IsSeq
<1>2. /\ vals \in Seq(Nat) /\ Len(vals) = l /\ l \in Nat \ {0} /\ DOMAIN otp = 1 .. Len(otp)
      /\ \A k \in 1 .. Len(otp) : vals[k] = otp[k] /\ k \in 1 .. l
  BY <1>1
<1>3. 2 \in {2, 4} /\ 2 - 1 = 1 /\ 2 * l < MAX_READ_RESPONSE_SIZE
  OBVIOUS
<1> HIDE DEF vals, l
<1>4. Len(text) = 2 * l /\ \A k \in 1 .. l : Reads(text, 2 * k - 1, vals[k], 2)
  BY <1>2, <1>3, NumbersText
<1>5. OTP(otp \o rest) = text
  BY DEF OTP, vals
<1> QED
  BY <1>2, <1>4, <1>5 DEF l

(* While an answer to a question is under way, the host is still asking,   *)
(* and what the answer speaks of does not change.                          *)
Told == {"RSHW", "RSVN", "RSSW", "RSSN", "RSFI", "READ_OTP"}

Answered ==
  /\ phone \in Phones
  /\ ans.cmd \in Told => stage = "hello"
  /\ AnswersTrue

LEMMA Unasked ==
  ASSUME ans'.cmd \notin Told, phone' \in Phones
  PROVE  Answered'
BY DEF Answered, AnswersTrue, Told

LEMMA QuestionAnswered ==
  ASSUME IInv, phone \in Phones, NEW c \in Questions, NEW a, Query(c, a)
  PROVE  /\ ans' = a
         /\ stage' = "hello" /\ phone' = phone /\ Version' = Version
<1>1. pc = "idle" /\ req.cmd = c /\ ans' = a
      /\ UNCHANGED <<mem, hostVars>>
  BY DEF Query, Take, Answer
<1>2. stage = "hello"
  <2>1. c # "none"
    BY DEF Questions
  <2> QED
    BY <1>1, <2>1, Commanded
<1> QED
  BY <1>1, <1>2 DEF hostVars, Version

LEMMA AnsweredByLoader ==
  ASSUME IInv, Answered, Loader
  PROVE  Answered'
<1>1. phone \in Phones /\ PhoneFacts /\ Version \in Nat
  BY PhoneKnown, VersionKnown DEF Answered
<1>2. {"RQHW", "RQVN", "RQSW", "RQSN", "RQFI", "READ_OTP"} \subseteq Questions
  BY DEF Questions
<1>3. CASE RQHW
  <2>1. /\ ans' = [cmd |-> "RSHW", version |-> Version]
        /\ stage' = "hello" /\ phone' = phone /\ Version' = Version
    BY <1>1, <1>2, <1>3, QuestionAnswered DEF RQHW
  <2>2. Len(RSHW(Version)) = 16 /\ Reads(RSHW(Version), 13, Version, 4)
    BY <1>1, HardwareText
  <2>3. TextOf(ans') = RSHW(Version) /\ ans'.cmd = "RSHW"
    BY <2>1 DEF TextOf
  <2> QED
    BY <1>1, <2>1, <2>2, <2>3 DEF Answered, AnswersTrue
<1>4. CASE RQVN
  <2>1. /\ ans' = [cmd |-> "RSVN", version |-> Version]
        /\ stage' = "hello" /\ phone' = phone /\ Version' = Version
    BY <1>1, <1>2, <1>4, QuestionAnswered DEF RQVN
  <2>2. /\ Len(RSVN(Version)) = 33 /\ RSVN(Version)[17] = Comma
        /\ Reads(RSVN(Version), 13, Version, 4) /\ Reads(RSVN(Version), 30, Version, 4)
    BY <1>1, VersionText
  <2>3. TextOf(ans') = RSVN(Version) /\ ans'.cmd = "RSVN"
    BY <2>1 DEF TextOf
  <2> QED
    BY <1>1, <2>1, <2>2, <2>3 DEF Answered, AnswersTrue
<1>5. CASE RQSW
  <2>1. /\ ans' = [cmd |-> "RSSW"]
        /\ stage' = "hello" /\ phone' = phone /\ Version' = Version
    BY <1>1, <1>2, <1>5, QuestionAnswered DEF RQSW
  <2>2. TextOf(ans') = RSSW(SW, FLEX) /\ ans'.cmd = "RSSW"
    BY <2>1 DEF TextOf
  <2> QED
    BY <1>1, <2>1, SoftwareText, <2>2 DEF Answered, AnswersTrue
<1>6. CASE RQSN
  <2>1. /\ ans' = [cmd |-> "RSSN", uid |-> phone.uid]
        /\ stage' = "hello" /\ phone' = phone /\ Version' = Version
    BY <1>1, <1>2, <1>6, QuestionAnswered DEF RQSN
  <2>2. /\ Len(RSSN(phone.uid)) = 32
        /\ \A k \in 1 .. 8 : Reads(RSSN(phone.uid), 4 * k - 3, phone.uid[9 - k], 4)
    BY <1>1, SerialText DEF PhoneFacts
  <2>3. TextOf(ans') = RSSN(phone.uid) /\ ans'.cmd = "RSSN"
    BY <2>1 DEF TextOf
  <2> QED
    BY <1>1, <2>1, <2>2, <2>3 DEF Answered, AnswersTrue
<1>7. CASE RQFI
  <2>1. /\ ans' = [cmd |-> "RSFI", id |-> phone.id]
        /\ stage' = "hello" /\ phone' = phone /\ Version' = Version
    BY <1>1, <1>2, <1>7, QuestionAnswered DEF RQFI
  <2>2. Len(RSFI(phone.id)) = 8 /\ Reads(RSFI(phone.id), 1, phone.id, 8)
    BY <1>1, FlashIdText DEF PhoneFacts
  <2>3. TextOf(ans') = RSFI(phone.id) /\ ans'.cmd = "RSFI"
    BY <2>1 DEF TextOf
  <2> QED
    BY <1>1, <2>1, <2>2, <2>3 DEF Answered, AnswersTrue
<1>8. CASE READ_OTP
  <2>1. PICK rest \in [1 .. phone.unread -> StackBytes] :
          Query("READ_OTP", [cmd |-> "READ_OTP", bytes |-> phone.otp \o rest])
    BY <1>8 DEF READ_OTP
  <2>2. /\ ans' = [cmd |-> "READ_OTP", bytes |-> phone.otp \o rest]
        /\ stage' = "hello" /\ phone' = phone /\ Version' = Version
    BY <1>1, <1>2, <2>1, QuestionAnswered
  <2>3. /\ Len(OTP(phone.otp \o rest)) = 2 * (Len(phone.otp) + phone.unread)
        /\ \A k \in DOMAIN phone.otp :
             Reads(OTP(phone.otp \o rest), 2 * k - 1, phone.otp[k], 2)
    BY <1>1, OtpText DEF PhoneFacts
  <2>4. TextOf(ans') = OTP(phone.otp \o rest) /\ ans'.cmd = "READ_OTP"
    BY <2>2 DEF TextOf
  <2> QED
    BY <1>1, <2>2, <2>3, <2>4 DEF Answered, AnswersTrue
<1>9. CASE WriteBIN
  <2>1. pc = "bin" /\ UNCHANGED <<ans, hostVars>>
    BY <1>9 DEF WriteBIN
  <2>2. stage \in {"bin", "verify"}
    BY <2>1 DEF IInv, Progress
  <2>3. ans'.cmd \notin Told /\ phone' \in Phones
    BY <1>1, <2>1, <2>2 DEF Answered, hostVars
  <2> QED
    BY <2>3, Unasked
<1>10. CASE ADDR \/ ERASE \/ BIN \/ RESTART \/ POWER_DOWN
  <2>1. \E data : ans' = ACK(data) /\ UNCHANGED hostVars
    BY <1>10 DEF ADDR, ERASE, BIN, RESTART, POWER_DOWN, Answer
  <2>2. ans'.cmd \notin Told /\ phone' \in Phones
    BY <1>1, <2>1 DEF ACK, Told, hostVars
  <2> QED
    BY <2>2, Unasked
<1>11. CASE READ \/ RQRC \/ Unknown \/ Reset
  <2>1. ans'.cmd \in {"ERR", "READ", "none", "RSRC"} /\ phone' = phone
    <3>1. CASE READ
      BY <3>1 DEF READ, ReadAnswers, ERR, None, hostVars
    <3>2. CASE RQRC
      BY <3>2 DEF RQRC, Answer, ERR, hostVars
    <3>3. CASE Unknown
      BY <3>3 DEF Unknown, Answer, ERR, hostVars
    <3>4. CASE Reset
      BY <3>4 DEF Reset, None
    <3> QED
      BY <1>11, <3>1, <3>2, <3>3, <3>4
  <2>2. ans'.cmd \notin Told /\ phone' \in Phones
    BY <1>1, <2>1 DEF Told
  <2> QED
    BY <2>2, Unasked
<1> QED
  BY <1>3, <1>4, <1>5, <1>6, <1>7, <1>8, <1>9, <1>10, <1>11 DEF Loader

LEMMA AnsweredKept ==
  ASSUME IInv, Answered, [Next]_vars
  PROVE  Answered'
<1>1. CASE HostHear \/ PowerFailure
  <2>1. ans' = None /\ phone' = phone
    BY <1>1 DEF HostHear, PowerFailure, hostVars
  <2>2. ans'.cmd \notin Told /\ phone' \in Phones
    BY <2>1 DEF None, Told, Answered
  <2> QED
    BY <2>2, Unasked
<1>2. CASE HostSend \/ UNCHANGED vars
  <2>1. UNCHANGED <<mem, ans, hostVars>>
    BY <1>2 DEF HostSend, vars
  <2> QED
    BY <2>1 DEF Answered, AnswersTrue, Version, hostVars
<1> QED
  BY <1>1, <1>2, AnsweredByLoader DEF Next, Host

-----------------------------------------------------------------------------
(* The memory, the address and the mode stay in range, for every upload    *)
(* and however often the power fails.                                      *)
THEOREM TypeCorrectness == Spec => []TypeOK
<1>1. IInv => TypeOK
  BY DEF IInv
<1> QED
  BY <1>1, AlwaysIInv, PTL

(* WriteBIN never writes a chunk anywhere but to its place in the image,   *)
(* nor by another method than the host has chosen.                         *)
THEOREM ChunksGoToTheirPlaces == Spec => []EachChunkAtItsPlace
<1>1. IInv => EachChunkAtItsPlace
  <2> SUFFICES ASSUME IInv, pc = "bin"
               PROVE  mode = plan.mode
                      /\ \E n \in {next - 1, next} \cap 1 .. Count(plan) :
                           job = Chunk(plan, n) /\ addr = ChunkAt(plan, n)
    BY DEF EachChunkAtItsPlace
  <2>1. /\ mode = plan.mode /\ Due \in 1 .. Count(plan)
        /\ job = Chunk(plan, Due) /\ addr = ChunkAt(plan, Due) /\ plan \in Plans
    BY JobFacts
  <2>2. next \in Int
    BY <2>1, PlanFacts DEF IInv, TypeOK
  <2>3. Due \in {next - 1, next}
    BY <2>2 DEF Due
  <2> QED
    BY <2>1, <2>3
<1> QED
  BY <1>1, AlwaysIInv, PTL

(* What the acknowledgments of later commands tell the host to be written  *)
(* is in the memory, and no power failure takes it away.                   *)
THEOREM SureChunksSurvive == Spec => []SureSurvives
<1>1. IInv => SureSurvives
  <2> SUFFICES ASSUME IInv
               PROVE  SureSurvives
    OBVIOUS
  <2> DEFINE s == Start(plan)
             end == ChunkAt(plan, sure + 1)
             l == end - s
  <2>1. plan \in Plans /\ sure < Due /\ Due \in 1 .. (Count(plan) + 1) /\ sure \in 0 .. Count(plan)
        /\ StoredTo(mem, ChunkAt(plan, Due))
    BY DEF IInv, Progress, TypeOK, Memory
  <2>2. sure + 1 \in 1 .. (Count(plan) + 1) /\ sure + 1 <= Due /\ Count(plan) \in Nat
        /\ Count(plan) + 1 \in 1 .. (Count(plan) + 1) /\ sure + 1 <= Count(plan) + 1
    BY <2>1, PlanFacts
  <2>3. s \in Nat /\ end \in Nat /\ s <= end /\ ChunkAt(plan, Due) \in Nat
        /\ end <= ChunkAt(plan, Due) /\ end <= ChunkAt(plan, Count(plan) + 1)
    BY <2>1, <2>2, InPlaceOrder
  <2>4. l \in Nat /\ l <= Len(plan.image) /\ plan.image \in Seq(Words)
    BY <2>1, <2>3, PlanFacts
  <2>5. \A b \in s .. (ChunkAt(plan, Due) - 1) : mem[b] = plan.image[b - s + 1]
    BY <2>1 DEF StoredTo
  <2> HIDE DEF s, end
  <2>6. WordsAt(mem, 2 * s, 2 * end) = [k \in 1 .. l |-> mem[s + k - 1]]
    <3>1. (2 * s) \div 2 = s /\ (2 * end + 1) \div 2 = end
      BY <2>3
    <3>2. ASSUME NEW k \in 1 .. l
          PROVE  WordAt(mem, s + k - 1) = mem[s + k - 1]
      <4>1. ChunkAt(plan, Count(plan) + 1) \in 0 .. Size /\ Size \in Nat
        BY <2>1, <2>2, PlanFacts
      <4>2. s + k - 1 \in 0 .. (Size - 1)
        BY <2>3, <4>1 DEF s, end
      <4> QED
        BY <4>2 DEF WordAt, Addresses
    <3> QED
      BY <3>1, <3>2 DEF WordsAt
  <2>7. \A k \in 1 .. l : s + k - 1 \in s .. (ChunkAt(plan, Due) - 1) /\ (s + k - 1) - s + 1 = k
    BY <2>3
  <2>8. \A k \in 1 .. l : mem[s + k - 1] = plan.image[k]
    BY <2>5, <2>7
  <2> HIDE DEF l
  <2>9. SubSeq(plan.image, 1, l) = [k \in 1 .. l |-> plan.image[k]]
    BY <2>4
  <2>10. WordsAt(mem, 2 * s, 2 * end) = SubSeq(plan.image, 1, l)
    BY <2>6, <2>8, <2>9
  <2> QED
    BY <2>10 DEF SureSurvives, s, end, l
<1> QED
  BY <1>1, AlwaysIInv, PTL

(* The host finds its image in the answers to READ and RQRC.               *)
THEOREM ImageReadBack == Spec => []VerifyFindsImage
<1>1. IInv => VerifyFindsImage
  BY DEF IInv, ReadBack, VerifyFindsImage
<1> QED
  BY <1>1, AlwaysIInv, PTL

(* What a phone answers to a question is what its registers hold, and the  *)
(* version in its flash, which no step of the upload changes before the    *)
(* host has heard it: each piece is whole where the host looks for it, cut *)
(* off by no NUL written on the way. Of the OTP bytes this holds for those *)
(* that the driver has read.                                               *)
THEOREM AnswersAreTrue == Spec => []AnswersTrue
<1>1. Init => IInv /\ Answered
  BY Initially DEF Init, Answered, AnswersTrue, None, Told
<1>2. IInv /\ Answered /\ [Next]_vars => IInv' /\ Answered'
  BY NextKeeps, AnsweredKept
<1>3. Answered => AnswersTrue
  BY DEF Answered
<1> QED
  BY <1>1, <1>2, <1>3, PTL DEF Spec
=============================================================================
