------------------------ MODULE FrameReceiverProofs ------------------------
(***************************************************************************)
(* Proofs about FrameReceiver, for every packet size of the two builds,    *)
(* every window and every set of frames that keeps the protocol.           *)
(*                                                                         *)
(* None of the properties is inductive, because what the parser finds in   *)
(* its buffers depends on how the host cut the frame. The invariant says   *)
(* for every position of the parser how many bytes of the frame it has,    *)
(* that they are in the buffers, and that the packets still to come begin  *)
(* with the byte behind them (Coming); between two frames, that what is    *)
(* left of the last one holds no STX (Between).                            *)
(***************************************************************************)
EXTENDS FrameReceiver, TLAPS, SequenceTheorems, WellFoundedInduction

Packets   == Seq(Bytes)
Queues    == Seq(Seq(Packets) \ {<< >>})
Lesser(x, y) == IF x <= y THEN x ELSE y

(* The frame the loader is reading, and its last part.                     *)
Count     == Len(dispatched)
Current   == sent[Count + 1]
Wire      == Encode(Current)
Body(f)   == Append(f.data, ETX)
Header(f) == Len(f.cmd) + 2             \* STX, command and separator

(* The transfers on their way, the packet in the endpoint included.        *)
Line(w) ==
  IF ep1.int /\ ~ep1.err
  THEN w # << >> /\ FirstPacket(w) = ep1.bytes /\ AfterFirst(w) = outbox
  ELSE w = outbox

(* The packets r continue the bytes s behind the first n of them.          *)
Full(k) == k * PacketSize               \* the bytes of k full packets

Continues(r, s, n) ==
  /\ \A k \in DOMAIN r : r[k] = SubSeq(s, n + Full(k - 1) + 1, Lesser(n + Full(k), Len(s)))
  /\ Len(s) <= n + Full(Len(r))

(* The transfers q are those of the frames behind the first c.             *)
Later(q, c) ==
  /\ Len(q) = Len(sent) - c
  /\ \A j \in 1 .. Len(q) : q[j] \in Transfers(sent[c + j])

(* What may be left of a frame that has been executed.                     *)
Garbage(r) ==
  \A k \in DOMAIN r : Len(r[k]) <= PacketSize /\ \A j \in DOMAIN r[k] : r[k][j] # STX

Between ==
  \E w \in Queues :
    /\ Line(w)
    /\ Later(w, Count) \/ (w # << >> /\ Garbage(Head(w)) /\ Later(Tail(w), Count))

Coming(n) ==
  \E w \in Queues :
    /\ Line(w)
    /\ \/ n = Len(Wire) /\ Later(w, Count + 1)
       \/ w # << >> /\ Continues(Head(w), Wire, n) /\ Later(Tail(w), Count + 1)

(* Where a packet may end.                                                 *)
Boundary(f, n) ==
  /\ f.cmd # BinStr => Len(Encode(f)) <= n + PacketSize
  /\ f.cmd = BinStr =>
       \/ n % EvenNumber = 0 \/ n = Len(Encode(f))
       \/ n = Header(f) /\ Len(Encode(f)) <= n + PacketSize

(* The parser has the first n bytes of the frame.                          *)
Reading(n) ==
  /\ Count < Len(sent) /\ n <= Len(Wire)
  /\ Boundary(Current, n) /\ Coming(n)

-----------------------------------------------------------------------------

BaseInv ==
  /\ sent \in Seq(Frames) /\ outbox \in Queues
  /\ ep1 \in [int : BOOLEAN, err : BOOLEAN, stall : BOOLEAN, bytes : Packets]
  /\ arr \in [0 .. (DataArraySize + PacketSize) -> Bytes]
  /\ rxd \in [0 .. (RxDataSize + PacketSize) -> Bytes]
  /\ bytes \in Bytes /\ prev = 0 /\ acc \in Nat /\ cur \in Nat
  /\ dp \in Nat \cup {Null} /\ nxt \in Nat \cup {Null}
  /\ dispatched \in Seq({Handed(f) : f \in Frames})
  /\ answers = Count /\ Count \in 0 .. Len(sent)
  /\ \A k \in 1 .. Count : dispatched[k] = Handed(sent[k])

PollInv == pc = "poll" => cmd = << >> /\ Between

CommandInv ==
  pc = "command" =>
    /\ Reading(bytes + 1)
    /\ cmd = << >> /\ cur = 1 /\ Header(Current) <= bytes + 1 /\ bytes < PacketSize
    /\ \A k \in 0 .. bytes : arr[k] = Wire[k + 1]

SeparatorInv ==
  pc = "separator" =>
    /\ Reading(cur + bytes)
    /\ cmd = Current.cmd /\ cur = Header(Current) - 1 /\ bytes >= 1 /\ cur + bytes <= PacketSize
    /\ \A k \in 0 .. (cur + bytes - 1) : arr[k] = Wire[k + 1]

(* The first n bytes of the body are in rx_data.                           *)
Holds(n) ==
  /\ Current.rs /\ cmd = Current.cmd
  /\ n <= Len(Body(Current)) /\ Reading(Header(Current) + n)
  /\ \A k \in 0 .. (n - 1) : rxd[k] = Body(Current)[k + 1]

BinSizeInv ==
  pc = "bin_size" =>
    /\ Holds(acc) /\ cmd = BinStr /\ dp = acc /\ acc <= 2 * PacketSize
    /\ bytes <= PacketSize
    /\ acc < MaxDataFieldSize => bytes = 0

DataInv == pc = "data" => Holds(acc) /\ cmd # BinStr /\ dp = acc

MoreDataInv ==
  pc = "more_data" => Holds(acc) /\ cmd # BinStr /\ dp = acc /\ acc < Len(Body(Current))

ScanInv ==
  pc = "scan" =>
    Holds(Len(Body(Current))) /\ cmd # BinStr
    /\ dp \in Nat /\ bytes \in 1 .. PacketSize /\ dp + bytes = Len(Body(Current))

LeftoverInv ==
  pc = "leftover" => Holds(Len(Body(Current))) /\ cmd # BinStr /\ dp = Len(Body(Current))

DispatchInv ==
  pc = "dispatch" =>
    /\ cmd = Current.cmd
    /\ ~Current.rs => dp = Null /\ Reading(Len(Wire))
    /\ Current.rs => dp = 0
    /\ Current.rs /\ cmd # BinStr =>
         Holds(Len(Body(Current))) /\ rxd[Len(Body(Current))] = NUL
    /\ cmd = BinStr => nxt \in Nat /\ nxt >= MaxDataFieldSize /\ Holds(nxt)

BinDataInv ==
  pc = "bin_data" =>
    /\ Holds(bin.to) /\ cmd = BinStr
    /\ bin = [size |-> BinSize(rxd, 0), src |-> MaxDataFieldSize, to |-> bin.to,
              total |-> bin.to - MaxDataFieldSize]
    /\ bin.to \in Nat /\ bin.to >= MaxDataFieldSize

ParserInv ==
  /\ PollInv /\ CommandInv /\ SeparatorInv /\ BinSizeInv /\ DataInv
  /\ MoreDataInv /\ ScanInv /\ LeftoverInv /\ DispatchInv /\ BinDataInv

IInv ==
  /\ BaseInv /\ ParserInv
  /\ pc \in {"poll", "command", "separator", "bin_size", "data", "more_data",
             "scan", "leftover", "dispatch", "bin_data"}

-----------------------------------------------------------------------------
(* Byte memories.                                                          *)

LEMMA LeastNat ==
  ASSUME NEW T, T \subseteq Nat, T # {}
  PROVE  \E x \in T : \A y \in T : x <= y
<1>1. PICK x \in T : \A y \in T : <<y, x>> \notin OpToRel(<, Nat)
  BY NatLessThanWellFounded, WFMin, Zenon
<1>2. \A y \in T : ~(y < x)
  BY <1>1, Zenon DEF OpToRel
<1> QED
  BY <1>2

LEMMA Counted == \A k \in 1 .. 256 : Behind(k) = k - 1 /\ k - 1 \in Bytes
  BY DEF Behind, U8, Bytes

LEMMA ControlBytes == {NUL, STX, ETX, RS} \subseteq Bytes
  BY DEF NUL, STX, ETX, RS, Bytes

(* The first index of a set is where it is.                                *)
LEMMA FirstFound ==
  ASSUME NEW N \in Nat, NEW mem \in [0 .. N -> Bytes], NEW B,
         NEW from \in Nat, NEW k \in from .. N,
         mem[k] \in B, \A j \in from .. (k - 1) : mem[j] \notin B
  PROVE  FirstIn(mem, from, B) = k
<1> DEFINE S == {j \in DOMAIN mem : j >= from /\ mem[j] \in B} \cup {Max(DOMAIN mem) + 1}
<1>1. Max(DOMAIN mem) = N
  BY DEF Max
<1>2. k \in S /\ \A j \in S : k <= j
  BY <1>1
<1>3. \A j \in S : (\A i \in S : j <= i) => j = k
  BY <1>1, <1>2
<1> QED
  BY <1>2, <1>3 DEF FirstIn, Min

(* It is behind whatever does not hold a member of the set.                *)
LEMMA FirstBehind ==
  ASSUME NEW N \in Nat, NEW mem \in [0 .. N -> Bytes], NEW B,
         NEW from \in Nat, NEW k \in Nat, k <= N + 1,
         \A j \in from .. (k - 1) : mem[j] \notin B
  PROVE  FirstIn(mem, from, B) \in Nat /\ (k > from => FirstIn(mem, from, B) >= k)
<1> DEFINE S == {j \in DOMAIN mem : j >= from /\ mem[j] \in B} \cup {Max(DOMAIN mem) + 1}
<1>1. Max(DOMAIN mem) = N
  BY DEF Max
<1>2. S \subseteq 0 .. (N + 1) /\ N + 1 \in S
  BY <1>1
<1>3. FirstIn(mem, from, B) = Min(S)
  BY DEF FirstIn
<1>4. \A j \in S : k > from => j >= k
  BY <1>1
<1> HIDE DEF S
<1>5. S \subseteq Nat /\ S # {}
  BY <1>2
<1>6. \E j \in S : \A i \in S : j <= i
  BY <1>5, LeastNat, Zenon
<1>7. Min(S) \in S
  BY <1>6 DEF Min
<1>8. Min(S) \in Nat /\ (k > from => Min(S) >= k)
  BY <1>4, <1>5, <1>7
<1> QED
  BY <1>3, <1>8

LEMMA StoreFacts ==
  ASSUME NEW N \in Nat, NEW mem \in [0 .. N -> Bytes], NEW at \in Nat, NEW s \in Seq(Bytes)
  PROVE  /\ Store(mem, at, s) \in [0 .. N -> Bytes]
         /\ \A k \in 0 .. N : Store(mem, at, s)[k] =
              IF at <= k /\ k < at + Len(s) THEN s[k - at + 1] ELSE mem[k]
  BY DEF Store

LEMMA SliceFacts ==
  ASSUME NEW N \in Nat, NEW mem \in [0 .. N -> Bytes],
         NEW from \in Nat, NEW to \in from .. (N + 1)
  PROVE  /\ Slice(mem, from, to) \in Seq(Bytes)
         /\ Len(Slice(mem, from, to)) = to - from
         /\ \A k \in 1 .. (to - from) : Slice(mem, from, to)[k] = mem[from + k - 1]
  BY DEF Slice, At

(* Bytes copied from one memory to another.                                *)
LEMMA CopyFacts ==
  ASSUME NEW N \in Nat, NEW mem \in [0 .. N -> Bytes],
         NEW M \in Nat, NEW to \in [0 .. M -> Bytes],
         NEW at \in Nat, NEW from \in Nat, NEW end \in from .. (N + 1)
  PROVE  /\ Store(to, at, Slice(mem, from, end)) \in [0 .. M -> Bytes]
         /\ \A k \in 0 .. M :
              /\ at <= k /\ k - at < end - from =>
                   Store(to, at, Slice(mem, from, end))[k] = mem[from + (k - at)]
              /\ k < at \/ k - at >= end - from =>
                   Store(to, at, Slice(mem, from, end))[k] = to[k]
<1> DEFINE s == Slice(mem, from, end)
<1>1. /\ s \in Seq(Bytes) /\ Len(s) = end - from
      /\ \A k \in 1 .. (end - from) : s[k] = mem[from + k - 1]
  BY SliceFacts
<1> HIDE DEF s
<1>2. /\ Store(to, at, s) \in [0 .. M -> Bytes]
      /\ \A k \in 0 .. M : Store(to, at, s)[k] =
           IF at <= k /\ k < at + Len(s) THEN s[k - at + 1] ELSE to[k]
  BY <1>1, StoreFacts
<1>3. ASSUME NEW k \in 0 .. M, at <= k, k - at < end - from
      PROVE  Store(to, at, s)[k] = mem[from + (k - at)]
  <2>1. k - at + 1 \in 1 .. (end - from) /\ from + (k - at + 1) - 1 = from + (k - at)
        /\ k < at + (end - from)
    BY <1>3
  <2> QED
    BY <1>1, <1>2, <1>3, <2>1
<1>4. \A k \in 0 .. M : k < at \/ k - at >= end - from => Store(to, at, s)[k] = to[k]
  BY <1>1, <1>2
<1> QED
  BY <1>2, <1>3, <1>4 DEF s

(* Bytes moved within a memory.                                            *)
LEMMA MoveFacts ==
  ASSUME NEW N \in Nat, NEW mem \in [0 .. N -> Bytes],
         NEW at \in Nat, NEW from \in Nat, NEW end \in from .. (N + 1)
  PROVE  /\ Store(mem, at, Slice(mem, from, end)) \in [0 .. N -> Bytes]
         /\ \A k \in 0 .. N : at <= k /\ k - at < end - from =>
              Store(mem, at, Slice(mem, from, end))[k] = mem[from + (k - at)]
  BY CopyFacts

(* A block behind a field of two bytes, moved and read again.              *)
LEMMA BlockMoved ==
  ASSUME NEW N \in Nat, NEW mem \in [0 .. N -> Bytes], NEW end \in 2 .. (N + 1),
         NEW at \in 2 .. 5, NEW last \in at .. (N + 1), last - at = end - 2
  PROVE  /\ Store(mem, at, Slice(mem, 2, end)) \in [0 .. N -> Bytes]
         /\ Slice(Store(mem, at, Slice(mem, 2, end)), at, last) \in Seq(Bytes)
         /\ Len(Slice(Store(mem, at, Slice(mem, 2, end)), at, last)) = end - 2
         /\ \A k \in 1 .. (end - 2) :
              Slice(Store(mem, at, Slice(mem, 2, end)), at, last)[k] = mem[k + 1]
<1> DEFINE moved == Store(mem, at, Slice(mem, 2, end))
<1>1. PICK from \in Nat : from = 2
  OBVIOUS
<1>2. at \in Nat /\ end \in from .. (N + 1)
  BY <1>1
<1>3. /\ Store(mem, at, Slice(mem, from, end)) \in [0 .. N -> Bytes]
      /\ \A k \in 0 .. N : at <= k /\ k - at < end - from =>
           Store(mem, at, Slice(mem, from, end))[k] = mem[from + (k - at)]
  BY <1>2, MoveFacts
<1>4. /\ moved \in [0 .. N -> Bytes]
      /\ \A k \in 0 .. N : at <= k /\ k - at < end - 2 => moved[k] = mem[2 + (k - at)]
  BY <1>1, <1>3
<1> HIDE DEF moved
<1>5. /\ Slice(moved, at, last) \in Seq(Bytes) /\ Len(Slice(moved, at, last)) = last - at
      /\ \A k \in 1 .. (last - at) : Slice(moved, at, last)[k] = moved[at + k - 1]
  BY <1>2, <1>4, SliceFacts
<1>6. ASSUME NEW k \in 1 .. (end - 2) PROVE moved[at + k - 1] = mem[k + 1]
  <2>1. /\ at + k - 1 \in 0 .. N /\ at <= at + k - 1 /\ (at + k - 1) - at < end - 2
        /\ 2 + ((at + k - 1) - at) = k + 1
    OBVIOUS
  <2> QED
    BY <1>4, <2>1
<1> QED
  BY <1>4, <1>5, <1>6 DEF moved

-----------------------------------------------------------------------------
(* Frames and packets.                                                     *)

LEMMA Closed ==
  ASSUME NEW S, NEW a \in Seq(S), NEW b \in Seq(S), NEW e \in S
  PROVE  /\ (a \o b) \o <<e>> \in Seq(S)
         /\ Len((a \o b) \o <<e>>) = Len(a) + Len(b) + 1
         /\ \A k \in 1 .. Len(a) : ((a \o b) \o <<e>>)[k] = a[k]
         /\ \A k \in 1 .. Len(b) : ((a \o b) \o <<e>>)[Len(a) + k] = b[k]
         /\ ((a \o b) \o <<e>>)[Len(a) + Len(b) + 1] = e
<1> DEFINE c == a \o b
<1>1. /\ c \in Seq(S) /\ Len(c) = Len(a) + Len(b) /\ Len(a) \in Nat /\ Len(b) \in Nat
      /\ \A k \in 1 .. Len(a) : c[k] = a[k]
      /\ \A k \in 1 .. Len(b) : c[Len(a) + k] = b[k]
  OBVIOUS
<1> HIDE DEF c
<1>2. /\ c \o <<e>> \in Seq(S) /\ Len(c \o <<e>>) = Len(c) + 1
      /\ \A k \in 1 .. Len(c) : (c \o <<e>>)[k] = c[k]
      /\ (c \o <<e>>)[Len(c) + 1] = e
  BY <1>1
<1>3. \A k \in 1 .. Len(a) : (c \o <<e>>)[k] = a[k]
  BY <1>1, <1>2
<1>4. \A k \in 1 .. Len(b) : (c \o <<e>>)[Len(a) + k] = b[k]
  BY <1>1, <1>2
<1> QED
  BY <1>1, <1>2, <1>3, <1>4 DEF c

LEMMA EncodeFacts ==
  ASSUME HostKeepsProtocol, NEW f \in Frames
  PROVE  /\ f.cmd \in Seq(Bytes) /\ f.data \in Seq(Bytes) /\ f.rs \in BOOLEAN
         /\ Len(f.cmd) < CommandSize /\ \A k \in DOMAIN f.cmd : f.cmd[k] \notin {ETX, RS}
         /\ Body(f) \in Seq(Bytes) /\ Len(Body(f)) = Len(f.data) + 1
         /\ Body(f)[Len(f.data) + 1] = ETX
         /\ \A k \in 1 .. Len(f.data) : Body(f)[k] = f.data[k]
         /\ Encode(f) \in Seq(Bytes)
         /\ Len(Encode(f)) = IF f.rs THEN Header(f) + Len(Body(f)) ELSE Header(f)
         /\ Encode(f)[1] = STX
         /\ \A k \in 1 .. Len(f.cmd) : Encode(f)[k + 1] = f.cmd[k]
         /\ Encode(f)[Header(f)] = IF f.rs THEN RS ELSE ETX
         /\ f.rs => \A k \in 1 .. Len(Body(f)) : Encode(f)[Header(f) + k] = Body(f)[k]
<1> USE ControlBytes
<1>1. f \in [cmd : Seq(Bytes), rs : BOOLEAN, data : Seq(Bytes)] /\ Len(f.cmd) < CommandSize
      /\ \A k \in DOMAIN f.cmd : f.cmd[k] \notin {ETX, RS}
  BY DEF HostKeepsProtocol
<1>2. Body(f) \in Seq(Bytes) /\ Len(Body(f)) = Len(f.data) + 1
      /\ Body(f)[Len(f.data) + 1] = ETX
      /\ \A k \in 1 .. Len(f.data) : Body(f)[k] = f.data[k]
  BY <1>1 DEF Body
<1> DEFINE front == <<STX>> \o f.cmd
           end   == IF f.rs THEN <<RS>> \o f.data ELSE << >>
<1>3. front \in Seq(Bytes) /\ Len(front) = Len(f.cmd) + 1 /\ front[1] = STX
      /\ \A k \in 1 .. Len(f.cmd) : front[k + 1] = f.cmd[k]
  BY <1>1
<1>4. /\ end \in Seq(Bytes) /\ Len(end) = (IF f.rs THEN Len(f.data) + 1 ELSE 0)
      /\ f.rs => end[1] = RS /\ \A k \in 1 .. Len(f.data) : end[k + 1] = f.data[k]
  BY <1>1
<1>5. Encode(f) = (front \o end) \o <<ETX>>
  BY <1>1 DEF Encode
<1> HIDE DEF front, end
<1>6. ETX \in Bytes
  OBVIOUS
<1>t. f.cmd \in Seq(Bytes) /\ Len(f.cmd) \in Nat /\ Len(front) \in Nat /\ Len(end) \in Nat
  BY <1>1, <1>3, <1>4
<1>7. /\ Encode(f) \in Seq(Bytes) /\ Len(Encode(f)) = Len(front) + Len(end) + 1
      /\ \A k \in 1 .. Len(front) : Encode(f)[k] = front[k]
      /\ \A k \in 1 .. Len(end) : Encode(f)[Len(front) + k] = end[k]
      /\ Encode(f)[Len(front) + Len(end) + 1] = ETX
  <2>1. front \in Seq(Bytes) /\ end \in Seq(Bytes)
    BY <1>3, <1>4
  <2>2. LET c == (front \o end) \o <<ETX>>
        IN /\ c \in Seq(Bytes) /\ Len(c) = Len(front) + Len(end) + 1
           /\ \A k \in 1 .. Len(front) : c[k] = front[k]
           /\ \A k \in 1 .. Len(end) : c[Len(front) + k] = end[k]
           /\ c[Len(front) + Len(end) + 1] = ETX
    BY <1>6, <2>1, Closed
  <2> QED
    BY <1>5, <2>2
<1>8. /\ Encode(f)[1] = STX
      /\ \A k \in 1 .. Len(f.cmd) : Encode(f)[k + 1] = f.cmd[k]
  BY <1>t, <1>3, <1>7
<1>9. CASE f.rs
  <2>1. Len(Encode(f)) = Header(f) + Len(Body(f)) /\ Len(end) = Len(f.data) + 1
    BY <1>1, <1>2, <1>3, <1>4, <1>7, <1>9 DEF Header
  <2>2. \A k \in 1 .. Len(end) : Encode(f)[Len(f.cmd) + 1 + k] = end[k]
    BY <1>3, <1>7
  <2>3. Encode(f)[Header(f)] = RS
    BY <1>1, <1>4, <1>9, <2>1, <2>2 DEF Header
  <2>4. ASSUME NEW k \in 1 .. Len(Body(f))
        PROVE  Encode(f)[Header(f) + k] = Body(f)[k]
    <3>1. CASE k <= Len(f.data)
      <4>1. k + 1 \in 1 .. Len(end) /\ end[k + 1] = f.data[k]
        BY <1>1, <1>4, <1>9, <2>1, <3>1
      <4> QED
        BY <1>1, <1>2, <2>2, <3>1, <4>1 DEF Header
    <3>2. CASE k = Len(f.data) + 1
      BY <1>1, <1>2, <1>3, <1>7, <2>1, <3>2 DEF Header
    <3> QED
      BY <1>1, <1>2, <3>1, <3>2
  <2> QED
    BY <1>1, <1>2, <1>7, <1>8, <1>9, <2>1, <2>3, <2>4
<1>10. CASE ~f.rs
  <2>1. Len(Encode(f)) = Header(f) /\ Len(end) = 0
    BY <1>1, <1>3, <1>4, <1>7, <1>10 DEF Header
  <2>2. Encode(f)[Header(f)] = ETX
    BY <1>1, <1>3, <1>7, <2>1 DEF Header
  <2> QED
    BY <1>1, <1>2, <1>7, <1>8, <1>10, <2>1, <2>2
<1> QED
  BY <1>9, <1>10

LEMMA LesserMin ==
  ASSUME NEW x \in Int, NEW y \in Int
  PROVE  Min({x, y}) = Lesser(x, y) /\ Lesser(x, y) \in {x, y}
         /\ Lesser(x, y) <= x /\ Lesser(x, y) <= y
  BY DEF Min, Lesser

LEMMA FullPackets ==
  /\ PacketSize \in Nat /\ PacketSize > 0 /\ Full(0) = 0 /\ Full(1) = PacketSize
  /\ \A k \in Nat : Full(k) \in Nat /\ Full(k + 1) = Full(k) + PacketSize
  /\ \A k \in Nat \ {0} : Full(k - 1) \in Nat /\ Full(k) = Full(k - 1) + PacketSize
<1>1. PacketSize \in {16, 32}
  BY ReceiverConstants
<1>2. CASE PacketSize = 16
  BY <1>2 DEF Full
<1>3. CASE PacketSize = 32
  BY <1>3 DEF Full
<1> QED
  BY <1>1, <1>2, <1>3

(* The packets behind the first one continue where it ends.                *)
LEMMA Advance ==
  ASSUME NEW s \in Seq(Bytes), NEW r \in Seq(Packets), r # << >>,
         NEW n \in 0 .. Len(s), Continues(r, s, n)
  PROVE  LET m == Lesser(n + PacketSize, Len(s))
         IN m \in n .. Len(s) /\ Head(r) = SubSeq(s, n + 1, m) /\ Continues(Tail(r), s, m)
<1> DEFINE m == Lesser(n + PacketSize, Len(s))
<1>2. m \in n .. Len(s)
  BY FullPackets DEF Lesser
<1>3. Head(r) = SubSeq(s, n + 1, m)
  <2>1. Head(r) = r[1] /\ 1 \in DOMAIN r
    OBVIOUS
  <2>2. r[1] = SubSeq(s, n + Full(1 - 1) + 1, Lesser(n + Full(1), Len(s)))
    BY <2>1 DEF Continues
  <2>3. 1 - 1 = 0
    OBVIOUS
  <2>4. r[1] = SubSeq(s, n + 0 + 1, m)
    BY <2>2, <2>3, FullPackets, Zenon
  <2> QED
    BY <2>1, <2>4
<1>4. Tail(r) \in Seq(Packets) /\ Len(Tail(r)) = Len(r) - 1 /\ Len(r) \in Nat \ {0}
      /\ DOMAIN r = 1 .. Len(r) /\ DOMAIN Tail(r) = 1 .. (Len(r) - 1)
      /\ \A k \in 1 .. (Len(r) - 1) : Tail(r)[k] = r[k + 1]
  OBVIOUS
<1>5. Len(s) <= m + Full(Len(Tail(r)))
  <2>1. Len(s) <= n + Full(Len(r))
    BY DEF Continues
  <2>2. Full(Len(r)) = Full(Len(Tail(r))) + PacketSize /\ Full(Len(Tail(r))) \in Nat
    BY <1>4, FullPackets
  <2>3. \A l, x \in Nat : l <= n + x + PacketSize => l <= Lesser(n + PacketSize, l) + x
    BY FullPackets DEF Lesser
  <2>4. Len(s) \in Nat /\ PacketSize \in Nat
    BY FullPackets
  <2> HIDE DEF m
  <2>5. Len(s) <= Lesser(n + PacketSize, Len(s)) + Full(Len(Tail(r)))
    BY <2>1, <2>2, <2>3, <2>4
  <2> QED
    BY <2>5 DEF m
<1>6. ASSUME NEW k \in 1 .. (Len(r) - 1)
      PROVE  Tail(r)[k] = SubSeq(s, m + Full(k - 1) + 1, Lesser(m + Full(k), Len(s)))
  <2>1. Tail(r)[k] = SubSeq(s, n + Full(k) + 1, Lesser(n + Full(k + 1), Len(s)))
    <3>1. k + 1 \in DOMAIN r /\ (k + 1) - 1 = k
      BY <1>4
    <3> QED
      BY <1>4, <3>1 DEF Continues
  <2>2. Full(k - 1) \in Nat /\ Full(k) = Full(k - 1) + PacketSize
        /\ Full(k + 1) = Full(k) + PacketSize /\ PacketSize \in Nat
    <3>1. k \in Nat \ {0}
      OBVIOUS
    <3> QED
      BY <3>1, FullPackets
  <2>3. CASE n + PacketSize <= Len(s)
    <3>1. m = n + PacketSize
      BY <2>3 DEF Lesser
    <3>2. m + Full(k - 1) = n + Full(k) /\ m + Full(k) = n + Full(k + 1)
      BY <2>2, <3>1
    <3> QED
      BY <2>1, <3>2
  <2>4. CASE n + PacketSize > Len(s)
    <3>1. m = Len(s) /\ n + Full(k) + 1 > Len(s)
      BY <2>2, <2>4 DEF Lesser
    <3>2. Lesser(n + Full(k + 1), Len(s)) = Len(s) /\ Lesser(m + Full(k), Len(s)) = Len(s)
      BY <2>2, <2>4, <3>1 DEF Lesser
    <3>3. SubSeq(s, n + Full(k) + 1, Len(s)) = << >>
          /\ SubSeq(s, m + Full(k - 1) + 1, Len(s)) = << >>
      BY <2>2, <3>1, SubSeqEmpty
    <3> QED
      BY <2>1, <3>2, <3>3
  <2> QED
    BY <2>2, <2>3, <2>4
<1> QED
  BY <1>2, <1>3, <1>4, <1>5, <1>6 DEF Continues

(* An empty packet may follow the last one.                                *)
LEMMA ContinuesEmpty ==
  ASSUME NEW s \in Seq(Bytes), NEW r \in Seq(Packets), NEW n \in 0 .. Len(s),
         Continues(r, s, n)
  PROVE  Continues(Append(r, << >>), s, n)
<1> DEFINE e == Append(r, << >>)
<1>1. /\ DOMAIN e = 1 .. (Len(r) + 1) /\ Len(e) = Len(r) + 1 /\ Len(r) \in Nat
      /\ DOMAIN r = 1 .. Len(r) /\ Len(s) \in Nat
      /\ \A k \in 1 .. Len(r) : e[k] = r[k]
      /\ e[Len(r) + 1] = << >>
  OBVIOUS
<1>2. Len(s) <= n + Full(Len(r)) /\ Full(Len(r) + 1) = Full(Len(r)) + PacketSize
      /\ Full(Len(r)) \in Nat /\ PacketSize \in Nat
  BY <1>1, FullPackets DEF Continues
<1>3. (Len(r) + 1) - 1 = Len(r)
  BY <1>1
<1>4. SubSeq(s, n + Full(Len(r)) + 1, Lesser(n + Full(Len(r) + 1), Len(s))) = << >>
  BY <1>1, <1>2, SubSeqEmpty DEF Lesser
<1>5. \A k \in DOMAIN e :
        e[k] = SubSeq(s, n + Full(k - 1) + 1, Lesser(n + Full(k), Len(s)))
  <2> SUFFICES ASSUME NEW k \in DOMAIN e
               PROVE  e[k] = SubSeq(s, n + Full(k - 1) + 1, Lesser(n + Full(k), Len(s)))
    OBVIOUS
  <2>1. CASE k = Len(r) + 1
    BY <1>1, <1>3, <1>4, <2>1
  <2>2. CASE k \in 1 .. Len(r)
    BY <1>1, <2>2 DEF Continues
  <2> QED
    BY <1>1, <2>1, <2>2
<1>6. Len(s) <= n + Full(Len(e))
  BY <1>1, <1>2
<1> HIDE DEF e
<1> QED
  BY <1>5, <1>6 DEF Continues, e

LEMMA ChopFacts ==
  ASSUME NEW s \in Seq(Bytes), Len(s) > 0
  PROVE  Chop(s) \in Seq(Packets) /\ Chop(s) # << >> /\ Continues(Chop(s), s, 0)
<1> DEFINE n == (Len(s) + PacketSize - 1) \div PacketSize
<1>1. n \in Nat /\ n > 0 /\ Len(s) <= Full(n)
  <2>1. PacketSize \in {16, 32}
    BY ReceiverConstants
  <2>2. CASE PacketSize = 16
    BY <2>2 DEF Full
  <2>3. CASE PacketSize = 32
    BY <2>3 DEF Full
  <2> QED
    BY <2>1, <2>2, <2>3
<1>2. ASSUME NEW k \in 1 .. n
      PROVE  /\ Full(k - 1) \in Nat /\ Full(k) \in Nat
             /\ SubSeq(s, (k - 1) * PacketSize + 1, Min({k * PacketSize, Len(s)}))
                  = SubSeq(s, Full(k - 1) + 1, Lesser(Full(k), Len(s)))
  <2>1. k \in Nat \ {0} /\ k \in Nat
    BY <1>1
  <2>2. Full(k - 1) \in Nat /\ Full(k) \in Nat /\ Len(s) \in Nat
    BY <2>1, FullPackets
  <2>3. Min({Full(k), Len(s)}) = Lesser(Full(k), Len(s))
    BY <2>2, LesserMin
  <2> QED
    BY <2>2, <2>3 DEF Full
<1>3. Chop(s) = [k \in 1 .. n |-> SubSeq(s, Full(k - 1) + 1, Lesser(Full(k), Len(s)))]
  BY <1>2 DEF Chop
<1> HIDE DEF n
<1>4. ASSUME NEW k \in 1 .. n
      PROVE  SubSeq(s, Full(k - 1) + 1, Lesser(Full(k), Len(s))) \in Packets
  <2>0. Full(k - 1) \in Nat /\ Full(k) \in Nat
    BY <1>2, Zenon
  <2>1. \A j \in (Full(k - 1) + 1) .. Lesser(Full(k), Len(s)) : s[j] \in Bytes
    BY <2>0 DEF Lesser
  <2>2. Full(k - 1) + 1 \in Int /\ Lesser(Full(k), Len(s)) \in Int
    BY <2>0 DEF Lesser
  <2> QED
    BY <2>1, <2>2, SubSeqProperties DEF Packets
<1>5. Chop(s) \in Seq(Packets) /\ Len(Chop(s)) = n /\ DOMAIN Chop(s) = 1 .. n
  BY <1>1, <1>3, <1>4
<1>6. ASSUME NEW k \in DOMAIN Chop(s)
      PROVE  Chop(s)[k] = SubSeq(s, 0 + Full(k - 1) + 1, Lesser(0 + Full(k), Len(s)))
  <2>0. Full(k - 1) \in Nat /\ Full(k) \in Nat
    BY <1>2, <1>5, Zenon
  <2>1. 0 + Full(k - 1) = Full(k - 1) /\ 0 + Full(k) = Full(k)
    BY <2>0
  <2> QED
    BY <1>3, <1>5, <2>1
<1>7. Len(s) <= 0 + Full(Len(Chop(s))) /\ Chop(s) # << >>
  BY <1>1, <1>5, FullPackets
<1> QED
  BY <1>5, <1>6, <1>7 DEF Continues

(* What the parser relies on: the first packet of a frame has its name and *)
(* its separator, and no packet ends in front of the checksum of a BIN.    *)
LEMMA TransferFacts ==
  ASSUME HostKeepsProtocol, NEW f \in Frames, NEW t \in Transfers(f)
  PROVE  /\ t \in Seq(Packets) /\ t # << >>
         /\ \E n \in Header(f) .. PacketSize :
              /\ n <= Len(Encode(f)) /\ Head(t) = SubSeq(Encode(f), 1, n)
              /\ Boundary(f, n) /\ Continues(Tail(t), Encode(f), n)
<1> DEFINE s == Encode(f)
<1>1. /\ s \in Seq(Bytes) /\ Len(s) >= Header(f) /\ Header(f) >= 2 /\ Header(f) \in Nat
      /\ Header(f) = Len(f.cmd) + 2 /\ Header(f) < PacketSize
      /\ Len(s) \in Nat /\ PacketSize \in {16, 32}
      /\ Len(f.cmd) \in Nat /\ Len(f.cmd) + 3 <= PacketSize
      /\ ~f.rs => Len(s) = Header(f)
  BY EncodeFacts, ReceiverConstants DEF Header
<1>2. f.cmd # BinStr => Len(s) <= 2 * PacketSize
  BY <1>1 DEF HostKeepsProtocol
<1>3. ASSUME NEW r \in Seq(Packets), r # << >>, Continues(r, s, 0), r = t
      PROVE  \E n \in Header(f) .. PacketSize :
               /\ n <= Len(s) /\ Head(t) = SubSeq(s, 1, n)
               /\ Boundary(f, n) /\ Continues(Tail(t), s, n)
  <2> DEFINE n == Lesser(0 + PacketSize, Len(s))
  <2>1. n = Lesser(PacketSize, Len(s)) /\ n \in Nat /\ n <= PacketSize /\ n <= Len(s)
        /\ n >= Header(f) /\ (n = PacketSize \/ n = Len(s))
    BY <1>1 DEF Lesser
  <2>2. 0 \in 0 .. Len(s)
    BY <1>1
  <2>3. Head(r) = SubSeq(s, 0 + 1, n) /\ Continues(Tail(r), s, n)
    BY <1>1, <1>3, <2>2, Advance
  <2>4. Boundary(f, n)
    BY <1>1, <1>2, <2>1 DEF Boundary, EvenNumber
  <2> HIDE DEF n, s
  <2> QED
    BY <1>1, <1>3, <2>1, <2>3, <2>4
<1>4. Chop(s) \in Seq(Packets) /\ Chop(s) # << >> /\ Continues(Chop(s), s, 0)
  BY <1>1, ChopFacts
<1>5. CASE t = Chop(s)
  BY <1>3, <1>4, <1>5
<1>6. CASE t = Append(Chop(s), << >>)
  <2>1. << >> \in Packets /\ 0 \in 0 .. Len(s)
    BY <1>1 DEF Packets
  <2>2. Append(Chop(s), << >>) \in Seq(Packets) /\ Append(Chop(s), << >>) # << >>
    BY <1>4, <2>1
  <2>3. Continues(Append(Chop(s), << >>), s, 0)
    BY <1>1, <1>4, <2>1, ContinuesEmpty
  <2> QED
    BY <1>3, <1>6, <2>2, <2>3
<1>7. CASE t \in HeaderFirst(f)
  <2>1. PICK n \in {Len(f.cmd) + 2, Len(f.cmd) + 3} :
          /\ n < Len(s) /\ Len(s) - n <= PacketSize
          /\ t = <<SubSeq(s, 1, n), SubSeq(s, n + 1, Len(s))>>
    BY <1>7 DEF HeaderFirst
  <2>2. n \in Header(f) .. PacketSize /\ n \in Nat
    <3>1. /\ Len(f.cmd) \in Nat /\ Header(f) = Len(f.cmd) + 2
          /\ Len(f.cmd) + 3 <= PacketSize /\ PacketSize \in Nat
      BY <1>1
    <3>2. n = Len(f.cmd) + 2 \/ n = Len(f.cmd) + 3
      BY <2>1, Zenon
    <3> HIDE DEF s
    <3> QED
      BY <3>1, <3>2
  <2>3. SubSeq(s, 1, n) \in Packets /\ SubSeq(s, n + 1, Len(s)) \in Packets
    BY <1>1, <2>1, <2>2, SubSeqProperties DEF Packets
  <2>4. t \in Seq(Packets) /\ t # << >> /\ Head(t) = SubSeq(s, 1, n)
        /\ Tail(t) = <<SubSeq(s, n + 1, Len(s))>>
    BY <2>1, <2>3
  <2>5. Boundary(f, n)
    <3>1. Len(s) <= n + PacketSize
      BY <1>1, <2>1, <2>2
    <3>2. n = Header(f) \/ n = Len(f.cmd) + 3
      BY <1>1, <2>1
    <3>3. f.cmd = BinStr => Len(f.cmd) = 3 /\ 6 % 2 = 0 /\ 3 + 3 = 6
      BY DEF BinStr
    <3> QED
      BY <3>1, <3>2, <3>3, Zenon DEF Boundary, EvenNumber
  <2>6. Continues(<<SubSeq(s, n + 1, Len(s))>>, s, n)
    <3>1. /\ n + Full(0) + 1 = n + 1 /\ Lesser(n + Full(1), Len(s)) = Len(s)
          /\ Len(s) <= n + Full(1) /\ 1 - 1 = 0
      <4>1. Full(0) = 0 /\ Full(1) = PacketSize
        BY FullPackets
      <4> QED
        BY <1>1, <2>1, <2>2, <4>1 DEF Lesser
    <3> DEFINE r == <<SubSeq(s, n + 1, Len(s))>>
    <3>2. DOMAIN r = {1} /\ Len(r) = 1 /\ r[1] = SubSeq(s, n + 1, Len(s))
      OBVIOUS
    <3> HIDE DEF r
    <3>3. \A k \in DOMAIN r : r[k] = SubSeq(s, n + Full(k - 1) + 1, Lesser(n + Full(k), Len(s)))
      BY <3>1, <3>2
    <3> QED
      BY <3>1, <3>2, <3>3 DEF Continues, r
  <2>7. n <= Len(s) /\ Continues(Tail(t), s, n)
    <3>1. Continues(Tail(t), s, n)
      BY <2>4, <2>6, Zenon
    <3>2. n < Len(s) /\ n \in Nat /\ Len(s) \in Nat
      BY <1>1, <2>1, <2>2
    <3> HIDE DEF s
    <3> QED
      BY <3>1, <3>2
  <2> HIDE DEF s
  <2>8. \E m \in Header(f) .. PacketSize :
           /\ m <= Len(s) /\ Head(t) = SubSeq(s, 1, m)
           /\ Boundary(f, m) /\ Continues(Tail(t), s, m)
    BY <2>2, <2>4, <2>5, <2>7
  <2> QED
    BY <2>4, <2>8 DEF s
<1>8. t = Chop(s) \/ t = Append(Chop(s), << >>) \/ t \in HeaderFirst(f)
  BY DEF Transfers
<1> QED
  BY <1>3, <1>4, <1>5, <1>6, <1>7, <1>8

(* What HostKeepsProtocol says of a BIN.                                   *)
LEMMA BinFacts ==
  ASSUME HostKeepsProtocol, NEW f \in Frames, f.cmd = BinStr
  PROVE  LET size == 256 * f.data[1] + f.data[2]
         IN /\ f.rs /\ size \in Nat /\ size >= MinBin /\ size <= MaxBin /\ size % 2 = 0
            /\ f.data[1] \in Bytes /\ f.data[2] \in Bytes
            /\ Len(f.data) = size + 3 /\ Len(Body(f)) = size + 4
            /\ Header(f) = 5 /\ Len(Encode(f)) = size + 9
<1> DEFINE size == 256 * f.data[1] + f.data[2]
<1>1. /\ f.rs /\ f.data \in Seq(Bytes) /\ Len(f.data) >= 2
      /\ ValidBinSize(size) /\ Len(f.data) = 2 + size + 1
  BY DEF HostKeepsProtocol, MaxDataFieldSize
<1>2. f.data[1] \in Bytes /\ f.data[2] \in Bytes
  BY <1>1
<1>3. size \in Nat
  <2>1. \A x, y \in Bytes : 256 * x + y \in Nat
    BY DEF Bytes
  <2> QED
    BY <1>2, <2>1
<1>4. Header(f) = 5
  BY DEF Header, BinStr
<1>5. Len(Body(f)) = Len(f.data) + 1 /\ Len(Encode(f)) = Header(f) + Len(Body(f))
  BY <1>1, EncodeFacts
<1>6. size >= MinBin /\ size <= MaxBin /\ size % 2 = 0
  BY <1>1 DEF ValidBinSize, EvenNumber
<1> HIDE DEF size
<1>7. Len(f.data) = size + 3 /\ Len(Body(f)) = size + 4 /\ Len(Encode(f)) = size + 9
  BY <1>1, <1>3, <1>4, <1>5
<1> QED
  BY <1>1, <1>2, <1>3, <1>4, <1>6, <1>7 DEF size

-----------------------------------------------------------------------------
(* The packets on their way.                                               *)

LEMMA QueueFacts ==
  ASSUME NEW w \in Queues, w # << >>
  PROVE  /\ Head(w) \in Seq(Packets) /\ Head(w) # << >> /\ Tail(w) \in Queues
         /\ FirstPacket(w) \in Packets /\ FirstPacket(w) = Head(Head(w))
         /\ AfterFirst(w) \in Queues
         /\ Tail(Head(w)) \in Seq(Packets)
         /\ Tail(Head(w)) = << >> => AfterFirst(w) = Tail(w)
         /\ Tail(Head(w)) # << >> =>
              /\ AfterFirst(w) # << >> /\ Head(AfterFirst(w)) = Tail(Head(w))
              /\ Tail(AfterFirst(w)) = Tail(w)
<1> DEFINE T == Seq(Packets) \ {<< >>}
<1>1. w \in Seq(T) /\ Head(w) \in T /\ Tail(w) \in Seq(T)
  BY DEF Queues
<1>2. Head(w) \in Seq(Packets) /\ Head(w) # << >>
  BY <1>1
<1>3. Head(Head(w)) \in Packets /\ Tail(Head(w)) \in Seq(Packets)
  BY <1>2
<1>4. ASSUME Tail(Head(w)) # << >>
      PROVE  /\ AfterFirst(w) \in Seq(T) /\ AfterFirst(w) # << >>
             /\ Head(AfterFirst(w)) = Tail(Head(w)) /\ Tail(AfterFirst(w)) = Tail(w)
  <2>1. Tail(Head(w)) \in T
    BY <1>3, <1>4
  <2>2. AfterFirst(w) = <<Tail(Head(w))>> \o Tail(w)
    BY <1>4 DEF AfterFirst
  <2> HIDE DEF T
  <2>3. \A x \in T, q \in Seq(T) :
           <<x>> \o q \in Seq(T) /\ <<x>> \o q # << >>
           /\ Head(<<x>> \o q) = x /\ Tail(<<x>> \o q) = q
    OBVIOUS
  <2> QED
    BY <1>1, <2>1, <2>2, <2>3
<1>5. Tail(Head(w)) = << >> => AfterFirst(w) = Tail(w)
  BY DEF AfterFirst
<1> QED
  BY <1>1, <1>2, <1>3, <1>4, <1>5 DEF Queues, FirstPacket

(* The bus moves a packet along the line; a damaged one stays in it.       *)
LEMMA LineBus ==
  ASSUME BusDeliver \/ BusError, NEW w \in Queues, Line(w)
  PROVE  Line(w)'
<1>1. outbox # << >> /\ w = outbox
  BY DEF BusDeliver, BusError, Line
<1>2. CASE BusDeliver
  <2>1. ep1'.int /\ ~ep1'.err /\ ep1'.bytes = FirstPacket(outbox) /\ outbox' = AfterFirst(outbox)
    BY <1>2 DEF BusDeliver, NoPacket
  <2> QED
    BY <1>1, <2>1 DEF Line
<1>3. CASE BusError
  <2>1. ep1'.err /\ outbox' = outbox
    BY <1>3 DEF BusError, NoPacket, hostVars
  <2> QED
    BY <1>1, <2>1 DEF Line
<1> QED
  BY <1>2, <1>3

(* The host adds a transfer at its end.                                    *)
LEMMA LineSend ==
  ASSUME outbox \in Queues, NEW t \in Seq(Packets) \ {<< >>},
         outbox' = Append(outbox, t), UNCHANGED ep1,
         NEW w \in Queues, Line(w)
  PROVE  Append(w, t) \in Queues /\ Line(Append(w, t))'
<1> DEFINE T == Seq(Packets) \ {<< >>}
<1>1. Append(w, t) \in Seq(T) /\ Append(w, t) # << >>
  <2>1. w \in Seq(T) /\ t \in T
    BY DEF Queues
  <2> HIDE DEF T
  <2> QED
    BY <2>1
<1>2. CASE ep1.int /\ ~ep1.err
  <2>1. w # << >> /\ FirstPacket(w) = ep1.bytes /\ AfterFirst(w) = outbox
    BY <1>2 DEF Line
  <2>2. Head(Append(w, t)) = Head(w) /\ Tail(Append(w, t)) = Append(Tail(w), t)
        /\ Tail(w) \in Seq(T) /\ Head(w) \in T /\ t \in T
    <3> HIDE DEF T
    <3>1. w \in Seq(T) /\ t \in T
      BY DEF Queues, T
    <3> QED
      BY <2>1, <3>1
  <2>3. FirstPacket(Append(w, t)) = FirstPacket(w)
    BY <2>2 DEF FirstPacket
  <2>4. AfterFirst(Append(w, t)) = Append(AfterFirst(w), t)
    <3>1. CASE Tail(Head(w)) = << >>
      BY <2>2, <3>1 DEF AfterFirst
    <3>2. CASE Tail(Head(w)) # << >>
      <4>1. Tail(Head(w)) \in T
        BY <2>2, <3>2
      <4>2. AfterFirst(w) = <<Tail(Head(w))>> \o Tail(w)
            /\ AfterFirst(Append(w, t)) = <<Tail(Head(w))>> \o Append(Tail(w), t)
        BY <2>2, <3>2 DEF AfterFirst
      <4> HIDE DEF T
      <4>3. \A x \in T, q \in Seq(T) : <<x>> \o Append(q, t) = Append(<<x>> \o q, t)
        BY <2>2
      <4> QED
        BY <2>2, <4>1, <4>2, <4>3
    <3> QED
      BY <3>1, <3>2
  <2> QED
    BY <1>1, <2>1, <2>3, <2>4 DEF Line, Queues
<1>3. CASE ~(ep1.int /\ ~ep1.err)
  BY <1>1, <1>3 DEF Line, Queues
<1> QED
  BY <1>2, <1>3

(* usb_rx() takes the first packet of the line, or leaves it as it is.     *)
LEMMA LineReceived ==
  ASSUME UsbRx, UNCHANGED outbox, NEW w \in Queues, Line(w)
  PROVE  \/ Received = << >> /\ Line(w)'
         \/ /\ w # << >> /\ Received = FirstPacket(w)
            /\ AfterFirst(w) \in Queues /\ Line(AfterFirst(w))'
<1>1. CASE ep1.int /\ ~ep1.err
  <2>1. w # << >> /\ FirstPacket(w) = ep1.bytes /\ AfterFirst(w) = outbox
    BY <1>1 DEF Line
  <2>2. ~ep1'.int /\ Received = ep1.bytes
    BY <1>1 DEF UsbRx, NoPacket, Received
  <2>3. Line(AfterFirst(w))'
    BY <2>1, <2>2 DEF Line
  <2> QED
    BY <2>1, <2>2, <2>3, QueueFacts
<1>2. CASE ~ep1.int
  BY <1>2 DEF UsbRx, Received, Line
<1>3. CASE ep1.int /\ ep1.err
  <2>1. Received = << >> /\ ep1' = [ep1 EXCEPT !.stall = TRUE] /\ w = outbox
    BY <1>3 DEF UsbRx, Received, Line
  <2>2. ep1'.err
    BY <1>3, <2>1
  <2> QED
    BY <2>1, <2>2 DEF Line
<1> QED
  BY <1>1, <1>2, <1>3

LEMMA LaterTail ==
  ASSUME sent \in Seq(Frames), NEW c \in Nat, NEW q \in Queues, q # << >>, Later(q, c)
  PROVE  c < Len(sent) /\ Head(q) \in Transfers(sent[c + 1]) /\ Later(Tail(q), c + 1)
<1>1. /\ Len(q) \in Nat /\ Len(q) > 0 /\ Head(q) = q[1] /\ Len(Tail(q)) = Len(q) - 1
      /\ \A j \in 1 .. (Len(q) - 1) : Tail(q)[j] = q[j + 1]
  BY DEF Queues
<1>2. Len(q) = Len(sent) - c /\ Len(sent) \in Nat
      /\ \A j \in 1 .. Len(q) : q[j] \in Transfers(sent[c + j])
  BY DEF Later
<1>3. \A j \in 1 .. (Len(q) - 1) : q[j + 1] \in Transfers(sent[(c + 1) + j])
  <2> SUFFICES ASSUME NEW j \in 1 .. (Len(q) - 1)
               PROVE  q[j + 1] \in Transfers(sent[(c + 1) + j])
    OBVIOUS
  <2>1. j + 1 \in 1 .. Len(q) /\ c + (j + 1) = (c + 1) + j
    BY <1>1
  <2> QED
    BY <1>2, <2>1
<1> QED
  BY <1>1, <1>2, <1>3 DEF Later

LEMMA LaterSend ==
  ASSUME sent \in Seq(Frames), NEW c \in 0 .. Len(sent), NEW q \in Queues, Later(q, c),
         NEW f \in Frames, NEW t \in Transfers(f), sent' = Append(sent, f)
  PROVE  Later(Append(q, t), c)'
<1>1. /\ Len(q) \in Nat /\ Len(Append(q, t)) = Len(q) + 1 /\ Append(q, t)[Len(q) + 1] = t
      /\ \A j \in 1 .. Len(q) : Append(q, t)[j] = q[j]
  BY DEF Queues
<1>2. /\ Len(sent) \in Nat /\ Len(sent') = Len(sent) + 1 /\ sent'[Len(sent) + 1] = f
      /\ \A j \in 1 .. Len(sent) : sent'[j] = sent[j]
  OBVIOUS
<1>3. Len(q) = Len(sent) - c /\ \A j \in 1 .. Len(q) : q[j] \in Transfers(sent[c + j])
  BY DEF Later
<1>4. ASSUME NEW j \in 1 .. (Len(q) + 1)
      PROVE  Append(q, t)[j] \in Transfers(sent'[c + j])
  <2>1. CASE j = Len(q) + 1
    BY <1>1, <1>2, <1>3, <2>1
  <2>2. CASE j \in 1 .. Len(q)
    <3>1. c + j \in 1 .. Len(sent)
      BY <1>1, <1>2, <1>3, <2>2
    <3> QED
      BY <1>1, <1>2, <1>3, <2>2, <3>1
  <2>3. j = Len(q) + 1 \/ j \in 1 .. Len(q)
    BY <1>1
  <2> QED
    BY <2>1, <2>2, <2>3
<1>5. Len(Append(q, t)) = Len(sent') - c
  BY <1>1, <1>2, <1>3
<1> QED
  BY <1>1, <1>4, <1>5 DEF Later

LEMMA PositionFacts ==
  ASSUME HostKeepsProtocol, BaseInv, Count < Len(sent)
  PROVE  /\ Count \in Nat /\ Len(sent) \in Nat /\ Current \in Frames
         /\ Wire \in Seq(Bytes) /\ Len(Wire) \in Nat /\ PacketSize \in Nat /\ PacketSize > 0
         /\ Header(Current) \in Nat /\ Header(Current) >= 2 /\ Header(Current) <= Len(Wire)
         /\ Header(Current) < PacketSize
<1>1. Count \in Nat /\ Count + 1 \in 1 .. Len(sent) /\ Len(sent) \in Nat
  BY DEF BaseInv, Count
<1>2. Current \in Frames
  BY <1>1 DEF BaseInv, Current
<1>3. /\ Wire \in Seq(Bytes) /\ Len(Wire) \in Nat /\ Header(Current) \in Nat
      /\ Header(Current) >= 2 /\ Header(Current) <= Len(Wire)
  BY <1>2, EncodeFacts DEF Wire, Header
<1>4. Len(Current.cmd) \in Nat /\ Len(Current.cmd) < CommandSize
  BY <1>2, EncodeFacts
<1>5. Header(Current) < PacketSize /\ PacketSize \in Nat /\ PacketSize > 0
  <2>1. /\ CommandSize + 2 <= PacketSize /\ CommandSize \in Nat
        /\ PacketSize \in Nat /\ PacketSize > 0
    BY ReceiverConstants
  <2> QED
    BY <1>4, <2>1 DEF Header
<1> QED
  BY <1>1, <1>2, <1>3, <1>5

(* What comes once the first packet of the line is taken.                  *)
LEMMA Taken ==
  ASSUME UNCHANGED <<sent, dispatched>>, Len(Wire) \in Nat,
         NEW w \in Queues, w # << >>, AfterFirst(w) \in Queues, Line(AfterFirst(w))',
         NEW m \in Nat, m <= Len(Wire), Continues(Tail(Head(w)), Wire, m),
         Later(Tail(w), Count + 1)
  PROVE  Coming(m)'
<1>1. Count' = Count /\ Wire' = Wire
  BY DEF Count, Current, Wire
<1>2. \A q, c : Later(q, c)' <=> Later(q, c)
  BY DEF Later
<1>3. CASE Tail(Head(w)) = << >>
  <2>1. AfterFirst(w) = Tail(w)
    BY <1>3 DEF AfterFirst
  <2>2. m = Len(Wire)
    <3>1. Len(Wire) <= m + Full(0)
      BY <1>3 DEF Continues
    <3> QED
      BY <3>1, FullPackets
  <2>3. Later(AfterFirst(w), Count + 1)'
    BY <1>1, <1>2, <2>1
  <2> QED
    BY <1>1, <2>2, <2>3 DEF Coming
<1>4. CASE Tail(Head(w)) # << >>
  <2>1. /\ AfterFirst(w) # << >> /\ Head(AfterFirst(w)) = Tail(Head(w))
        /\ Tail(AfterFirst(w)) = Tail(w)
    BY <1>4, QueueFacts
  <2>2. Later(Tail(AfterFirst(w)), Count + 1)'
    BY <1>1, <1>2, <2>1
  <2>3. Continues(Head(AfterFirst(w)), Wire, m)'
    BY <1>1, <2>1 DEF Continues
  <2> QED
    BY <2>1, <2>2, <2>3 DEF Coming
<1> QED
  BY <1>3, <1>4

(* The packet that continues a frame.                                      *)
LEMMA ReadOn ==
  ASSUME HostKeepsProtocol, BaseInv, UsbRx, UNCHANGED <<outbox, sent, dispatched>>,
         NEW n \in Nat, Reading(n), n < Len(Wire)
  PROVE  \/ Received = << >> /\ Reading(n)'
         \/ \E m \in (n + 1) .. Len(Wire) :
              /\ m = Lesser(n + PacketSize, Len(Wire))
              /\ Received = SubSeq(Wire, n + 1, m) /\ Reading(m)'
<1>1. /\ Count < Len(sent) /\ Wire \in Seq(Bytes) /\ Len(Wire) \in Nat /\ Current \in Frames
      /\ Count \in Nat /\ Boundary(Current, n) /\ PacketSize \in Nat /\ PacketSize > 0
  BY PositionFacts DEF Reading
<1>2. Count' = Count /\ Len(sent)' = Len(sent) /\ Current' = Current /\ Wire' = Wire
  BY DEF Count, Current, Wire
<1>3. \A q, c : Later(q, c)' <=> Later(q, c)
  BY DEF Later
<1>4. PICK w \in Queues :
        /\ Line(w)
        /\ w # << >> /\ Continues(Head(w), Wire, n) /\ Later(Tail(w), Count + 1)
  BY <1>1 DEF Reading, Coming
<1>5. CASE Received = << >> /\ Line(w)'
  <2>1. Coming(n)'
    BY <1>2, <1>3, <1>4, <1>5 DEF Coming, Continues
  <2> QED
    BY <1>1, <1>2, <1>5, <2>1 DEF Reading, Boundary
<1>6. CASE Received = FirstPacket(w) /\ AfterFirst(w) \in Queues /\ Line(AfterFirst(w))'
  <2>1. Head(w) \in Seq(Packets) /\ Head(w) # << >> /\ n \in 0 .. Len(Wire)
    BY <1>1, <1>4, QueueFacts
  <2>m. PICK m \in Nat : m = Lesser(n + PacketSize, Len(Wire))
    BY <1>1 DEF Lesser
  <2>2. Head(Head(w)) = SubSeq(Wire, n + 1, m) /\ Continues(Tail(Head(w)), Wire, m)
    BY <1>1, <1>4, <2>m, <2>1, Advance
  <2>3. m \in (n + 1) .. Len(Wire) /\ (m = Len(Wire) \/ m = n + PacketSize)
    BY <1>1, <2>m DEF Lesser
  <2>4. Received = SubSeq(Wire, n + 1, m)
    BY <1>4, <1>6, <2>2 DEF FirstPacket
  <2>5. Coming(m)'
    BY <1>1, <1>4, <1>6, <2>2, <2>3, Taken
  <2>6. Boundary(Current, m)
    <3>1. PacketSize % 2 = 0
      BY ReceiverConstants
    <3>2. CASE m = Len(Wire)
      BY <1>1, <3>2 DEF Boundary, Wire
    <3>3. CASE m = n + PacketSize /\ m # Len(Wire)
      <4>1. ~(Len(Wire) <= n + PacketSize) /\ n # Len(Wire)
        BY <1>1, <2>3, <3>3
      <4>2. Current.cmd = BinStr /\ n % 2 = 0
        BY <1>1, <4>1 DEF Boundary, EvenNumber, Wire
      <4>3. m % 2 = 0
        BY <1>1, <3>1, <3>3, <4>2
      <4> QED
        BY <4>2, <4>3 DEF Boundary, EvenNumber
    <3> QED
      BY <2>3, <3>2, <3>3
  <2>7. Reading(m)'
    <3>1. Boundary(Current, m)'
      BY <1>2, <2>6 DEF Boundary
    <3> QED
      BY <1>1, <1>2, <2>3, <2>5, <3>1 DEF Reading
  <2> QED
    BY <2>m, <2>3, <2>4, <2>7
<1> QED
  BY <1>4, <1>5, <1>6, LineReceived

(* The packet that is read between two frames: what is left of the last    *)
(* one, or the beginning of the next.                                      *)
LEMMA ReadFirst ==
  ASSUME HostKeepsProtocol, BaseInv, UsbRx, UNCHANGED <<outbox, sent, dispatched>>, Between
  PROVE  \/ /\ Received \in Packets /\ Len(Received) <= PacketSize
            /\ \A j \in DOMAIN Received : Received[j] # STX
            /\ Between'
         \/ /\ Count < Len(sent)
            /\ \E n \in Header(Current) .. PacketSize :
                 n <= Len(Wire) /\ Received = SubSeq(Wire, 1, n) /\ Reading(n)'
<1>1. Count \in Nat /\ sent \in Seq(Frames)
  BY DEF BaseInv
<1>2. Count' = Count /\ Len(sent)' = Len(sent) /\ Current' = Current /\ Wire' = Wire
  BY DEF Count, Current, Wire
<1>3. \A q, c : Later(q, c)' <=> Later(q, c)
  BY DEF Later
<1>4. PICK w \in Queues :
        /\ Line(w)
        /\ Later(w, Count) \/ (w # << >> /\ Garbage(Head(w)) /\ Later(Tail(w), Count))
  BY DEF Between
<1>5. CASE Received = << >> /\ Line(w)'
  <2>1. Between'
    BY <1>2, <1>3, <1>4, <1>5 DEF Between, Garbage
  <2>2. << >> \in Packets /\ Len(<< >>) = 0 /\ \A j \in DOMAIN << >> : << >>[j] # STX
    BY DEF Packets
  <2> QED
    BY <1>5, <2>1, <2>2, FullPackets
<1>6. ASSUME w # << >>, Received = FirstPacket(w), AfterFirst(w) \in Queues,
             Line(AfterFirst(w))', Later(w, Count)
      PROVE  /\ Count < Len(sent)
             /\ \E n \in Header(Current) .. PacketSize :
                  n <= Len(Wire) /\ Received = SubSeq(Wire, 1, n) /\ Reading(n)'
  <2>1. Count < Len(sent) /\ Head(w) \in Transfers(Current) /\ Later(Tail(w), Count + 1)
    BY <1>1, <1>4, <1>6, LaterTail DEF Current
  <2>2. Current \in Frames /\ Len(Wire) \in Nat /\ Header(Current) \in Nat /\ PacketSize \in Nat
    BY <2>1, PositionFacts
  <2>3. PICK n \in Header(Current) .. PacketSize :
          /\ n <= Len(Wire) /\ Head(Head(w)) = SubSeq(Wire, 1, n)
          /\ Boundary(Current, n) /\ Continues(Tail(Head(w)), Wire, n)
    BY <2>1, <2>2, TransferFacts DEF Wire
  <2>4. n \in Nat
    BY <2>2
  <2>5. Coming(n)'
    BY <1>6, <2>1, <2>2, <2>3, <2>4, Taken
  <2>6. Boundary(Current, n)'
    BY <1>2, <2>3 DEF Boundary
  <2>7. Reading(n)'
    BY <1>2, <2>1, <2>3, <2>5, <2>6 DEF Reading
  <2> QED
    BY <1>6, <2>1, <2>3, <2>7 DEF FirstPacket
<1>7. ASSUME w # << >>, Received = FirstPacket(w), AfterFirst(w) \in Queues,
             Line(AfterFirst(w))', Garbage(Head(w)), Later(Tail(w), Count)
      PROVE  /\ Received \in Packets /\ Len(Received) <= PacketSize
             /\ \A j \in DOMAIN Received : Received[j] # STX
             /\ Between'
  <2>1. Head(w) \in Seq(Packets) /\ Head(w) # << >> /\ FirstPacket(w) = Head(w)[1]
        /\ 1 \in DOMAIN Head(w) /\ FirstPacket(w) \in Packets
    <3>1. Head(w) \in Seq(Packets) /\ Head(w) # << >> /\ FirstPacket(w) \in Packets
          /\ FirstPacket(w) = Head(Head(w))
      BY <1>7, QueueFacts
    <3> QED
      BY <3>1
  <2>2. /\ Received \in Packets /\ Len(Received) <= PacketSize
        /\ \A j \in DOMAIN Received : Received[j] # STX
    BY <1>7, <2>1 DEF Garbage
  <2>3. CASE Tail(Head(w)) = << >>
    <3>1. AfterFirst(w) = Tail(w)
      BY <2>3 DEF AfterFirst
    <3>2. Later(AfterFirst(w), Count)'
      BY <1>2, <1>3, <1>7, <3>1
    <3> QED
      BY <1>7, <2>2, <3>2 DEF Between
  <2>4. CASE Tail(Head(w)) # << >>
    <3>1. /\ AfterFirst(w) # << >> /\ Head(AfterFirst(w)) = Tail(Head(w))
          /\ Tail(AfterFirst(w)) = Tail(w)
      BY <1>7, <2>4, QueueFacts
    <3>2. Later(Tail(AfterFirst(w)), Count)'
      BY <1>2, <1>3, <1>7, <3>1
    <3>3. Garbage(Tail(Head(w)))
      <4> DEFINE r == Head(w)
      <4>1. \A k \in DOMAIN Tail(r) : k + 1 \in DOMAIN r /\ Tail(r)[k] = r[k + 1]
        BY <2>1
      <4>2. Garbage(r)
        BY <1>7
      <4> HIDE DEF r
      <4>3. Garbage(Tail(r))
        BY <4>1, <4>2 DEF Garbage
      <4> QED
        BY <4>3 DEF r
    <3>4. Garbage(Head(AfterFirst(w)))'
      BY <3>1, <3>3 DEF Garbage
    <3> QED
      BY <1>7, <2>2, <3>1, <3>2, <3>4 DEF Between
  <2> QED
    BY <2>3, <2>4
<1>8. \/ Received = << >> /\ Line(w)'
      \/ /\ w # << >> /\ Received = FirstPacket(w)
         /\ AfterFirst(w) \in Queues /\ Line(AfterFirst(w))'
  BY <1>4, LineReceived
<1> QED
  BY <1>4, <1>5, <1>6, <1>7, <1>8

(* A frame is done: what is left of it holds no STX.                       *)
LEMMA Finished ==
  ASSUME HostKeepsProtocol, BaseInv, UNCHANGED <<outbox, ep1, sent>>,
         NEW x, dispatched' = Append(dispatched, x),
         NEW n \in Nat, Reading(n), \A i \in (n + 1) .. Len(Wire) : Wire[i] # STX
  PROVE  Between'
<1>1. /\ Count < Len(sent) /\ Wire \in Seq(Bytes) /\ Len(Wire) \in Nat /\ n <= Len(Wire)
      /\ Count \in Nat
  BY PositionFacts DEF Reading
<1>2. Count' = Count + 1
  BY DEF Count, BaseInv
<1>3. \A q, c : Later(q, c)' <=> Later(q, c)
  BY DEF Later
<1>4. PICK w \in Queues :
        /\ Line(w)
        /\ \/ n = Len(Wire) /\ Later(w, Count + 1)
           \/ w # << >> /\ Continues(Head(w), Wire, n) /\ Later(Tail(w), Count + 1)
  BY DEF Reading, Coming
<1>5. Line(w)'
  BY <1>4 DEF Line
<1>6. CASE Later(w, Count + 1)
  BY <1>2, <1>3, <1>5, <1>6 DEF Between
<1>7. CASE w # << >> /\ Continues(Head(w), Wire, n) /\ Later(Tail(w), Count + 1)
  <2>1. Garbage(Head(w))
    <3> SUFFICES ASSUME NEW k \in DOMAIN Head(w)
                 PROVE  /\ Len(Head(w)[k]) <= PacketSize
                        /\ \A j \in DOMAIN Head(w)[k] : Head(w)[k][j] # STX
      BY DEF Garbage
    <3>1. k \in Nat \ {0}
      <4>1. Head(w) \in Seq(Packets)
        BY <1>7, QueueFacts
      <4> QED
        BY <4>1
    <3>2. Full(k - 1) \in Nat /\ Full(k) = Full(k - 1) + PacketSize
          /\ PacketSize \in Nat /\ PacketSize > 0
      BY <3>1, FullPackets
    <3> DEFINE a == n + Full(k - 1) + 1
               b == Lesser(n + Full(k), Len(Wire))
    <3>3. Head(w)[k] = SubSeq(Wire, a, b)
      BY <1>7 DEF Continues
    <3>4. a \in Nat /\ b \in Nat /\ a > n /\ b <= Len(Wire) /\ b - a + 1 <= PacketSize
      BY <1>1, <3>2 DEF Lesser
    <3> HIDE DEF a, b
    <3>5. \A j \in DOMAIN SubSeq(Wire, a, b) :
             SubSeq(Wire, a, b)[j] = Wire[a + j - 1] /\ a + j - 1 \in (n + 1) .. Len(Wire)
      BY <1>1, <3>4
    <3>6. Len(SubSeq(Wire, a, b)) <= PacketSize
      BY <1>1, <3>2, <3>4
    <3> QED
      BY <3>3, <3>5, <3>6
  <2>2. Garbage(Head(w))' /\ Later(Tail(w), Count)'
    BY <1>2, <1>3, <1>7, <2>1 DEF Garbage
  <2> QED
    BY <1>5, <1>7, <2>2 DEF Between
<1> QED
  BY <1>4, <1>6, <1>7

-----------------------------------------------------------------------------
(* The steps of the host and the bus keep the invariant: what the loader   *)
(* has of the frame, and what is still to come, stay as they are.          *)

LEMMA HostKeeps ==
  ASSUME HostKeepsProtocol, BaseInv, HostSend
  PROVE  /\ BaseInv'
         /\ Between => Between'
         /\ Count < Len(sent) => Current' = Current
         /\ \A n \in Nat : Reading(n) => Reading(n)'
<1>0. PICK f \in Frames :
        sent' = Append(sent, f) /\ \E t \in Transfers(f) : outbox' = Append(outbox, t)
  BY DEF HostSend, HostKeepsProtocol
<1>1. PICK t \in Transfers(f) : outbox' = Append(outbox, t) /\ sent' = Append(sent, f)
  BY <1>0
<1>2. t \in Seq(Packets) \ {<< >>}
  BY TransferFacts
<1>3. UNCHANGED <<ep1, parserVars, answers, dispatched>>
  BY DEF HostSend
<1>4. /\ Count' = Count /\ Len(sent') = Len(sent) + 1 /\ sent \in Seq(Frames)
      /\ sent' \in Seq(Frames) /\ Count \in 0 .. Len(sent) /\ Len(sent) \in Nat
      /\ \A k \in 1 .. Len(sent) : sent'[k] = sent[k]
  BY <1>1, <1>3 DEF BaseInv, Count
<1>5. \A w \in Queues : Line(w) => Append(w, t) \in Queues /\ Line(Append(w, t))'
  BY <1>1, <1>2, <1>3, LineSend DEF BaseInv
<1>6. \A w \in Queues : w # << >> =>
        /\ Append(w, t) # << >> /\ Head(Append(w, t)) = Head(w)
        /\ Tail(Append(w, t)) = Append(Tail(w), t) /\ Tail(w) \in Queues
  <2> DEFINE T == Seq(Packets) \ {<< >>}
  <2> HIDE DEF T
  <2>1. t \in T
    BY <1>2 DEF T
  <2>2. \A w \in Seq(T) : w # << >> =>
           /\ Append(w, t) # << >> /\ Head(Append(w, t)) = Head(w)
           /\ Tail(Append(w, t)) = Append(Tail(w), t) /\ Tail(w) \in Seq(T)
    BY <2>1
  <2> QED
    BY <2>2 DEF Queues, T
<1>7. \A w \in Queues, c \in 0 .. Len(sent) : Later(w, c) => Later(Append(w, t), c)'
  BY <1>1, <1>4, LaterSend
<1>8. BaseInv'
  <2>1. outbox' \in Queues
    <3> DEFINE T == Seq(Packets) \ {<< >>}
    <3>1. outbox \in Seq(T) /\ t \in T
      BY <1>2 DEF BaseInv, Queues
    <3> HIDE DEF T
    <3>2. Append(outbox, t) \in Seq(T)
      BY <3>1
    <3> QED
      BY <1>1, <3>2 DEF Queues, T
  <2>2. \A k \in 1 .. Count : dispatched[k] = Handed(sent'[k])
    BY <1>4 DEF BaseInv
  <2> QED
    BY <1>3, <1>4, <2>1, <2>2 DEF BaseInv, parserVars, Count
<1>9. ASSUME Between PROVE Between'
  <2>1. PICK w \in Queues :
          /\ Line(w)
          /\ Later(w, Count) \/ (w # << >> /\ Garbage(Head(w)) /\ Later(Tail(w), Count))
    BY <1>9 DEF Between
  <2>2. CASE Later(w, Count)
    <3>1. Later(Append(w, t), Count)'
      BY <1>4, <1>7, <2>2
    <3> QED
      BY <1>5, <2>1, <3>1 DEF Between
  <2>3. CASE w # << >> /\ Garbage(Head(w)) /\ Later(Tail(w), Count)
    <3>1. Later(Append(Tail(w), t), Count)'
      BY <1>4, <1>6, <1>7, <2>3
    <3>2. Later(Tail(Append(w, t)), Count)' /\ Garbage(Head(Append(w, t)))'
      BY <1>6, <2>3, <3>1 DEF Garbage
    <3> QED
      BY <1>5, <1>6, <2>1, <2>3, <3>2 DEF Between
  <2> QED
    BY <2>1, <2>2, <2>3
<1>10. Count < Len(sent) => Current' = Current
  BY <1>4 DEF Current
<1>11. ASSUME NEW n \in Nat, Reading(n) PROVE Reading(n)'
  <2>1. Count < Len(sent) /\ n <= Len(Wire) /\ Boundary(Current, n) /\ Current' = Current
        /\ Wire' = Wire
    BY <1>10, <1>11 DEF Reading, Wire
  <2>2. PICK w \in Queues :
          /\ Line(w)
          /\ \/ n = Len(Wire) /\ Later(w, Count + 1)
             \/ w # << >> /\ Continues(Head(w), Wire, n) /\ Later(Tail(w), Count + 1)
    BY <1>11 DEF Reading, Coming
  <2>3. Count + 1 \in 0 .. Len(sent)
    BY <1>4, <2>1
  <2>4. CASE n = Len(Wire) /\ Later(w, Count + 1)
    <3>1. Later(Append(w, t), Count + 1)'
      BY <1>4, <1>7, <2>3, <2>4
    <3>2. Coming(n)'
      BY <1>5, <2>1, <2>2, <2>4, <3>1 DEF Coming
    <3> QED
      BY <1>4, <2>1, <3>2 DEF Reading, Boundary
  <2>5. CASE w # << >> /\ Continues(Head(w), Wire, n) /\ Later(Tail(w), Count + 1)
    <3>1. Later(Append(Tail(w), t), Count + 1)'
      BY <1>4, <1>6, <1>7, <2>3, <2>5
    <3>2. Later(Tail(Append(w, t)), Count + 1)' /\ Continues(Head(Append(w, t)), Wire, n)'
      BY <1>6, <2>1, <2>5, <3>1 DEF Continues
    <3>3. Coming(n)'
      BY <1>5, <1>6, <2>2, <2>5, <3>2 DEF Coming
    <3> QED
      BY <1>4, <2>1, <3>3 DEF Reading, Boundary
  <2> QED
    BY <2>2, <2>4, <2>5
<1> QED
  BY <1>8, <1>9, <1>10, <1>11

LEMMA BusKeeps ==
  ASSUME BaseInv, BusDeliver \/ BusError
  PROVE  /\ BaseInv'
         /\ Between => Between'
         /\ Current' = Current
         /\ \A n \in Nat : Reading(n) => Reading(n)'
<1>1. UNCHANGED <<sent, parserVars, answers, dispatched>>
  BY DEF BusDeliver, BusError, hostVars
<1>2. Count' = Count /\ Current' = Current /\ Wire' = Wire /\ Len(sent)' = Len(sent)
  BY <1>1 DEF Count, Current, Wire
<1>3. \A q, c : Later(q, c)' <=> Later(q, c)
  BY <1>1 DEF Later
<1>4. \A w \in Queues : Line(w) => Line(w)'
  BY LineBus
<1>5. BaseInv'
  <2>1. outbox' \in Queues
        /\ ep1' \in [int : BOOLEAN, err : BOOLEAN, stall : BOOLEAN, bytes : Packets]
    <3>1. outbox \in Queues /\ outbox # << >>
      BY DEF BaseInv, BusDeliver, BusError
    <3>2. FirstPacket(outbox) \in Packets /\ AfterFirst(outbox) \in Queues
      BY <3>1, QueueFacts
    <3>3. CASE BusDeliver
      BY <3>2, <3>3 DEF BusDeliver, NoPacket
    <3>4. CASE BusError
      <4>1. [FirstPacket(outbox) EXCEPT ![1] = ETX] \in Packets
        <5> DEFINE p == FirstPacket(outbox)
        <5>1. p \in Seq(Bytes) /\ p # << >>
          BY <3>2, <3>4 DEF Packets, BusError
        <5> HIDE DEF p
        <5>2. 1 \in 1 .. Len(p) /\ ETX \in Bytes
          BY <5>1, ControlBytes
        <5>3. [p EXCEPT ![1] = ETX] \in Seq(Bytes)
          BY <5>1, <5>2, ExceptSeq
        <5> QED
          BY <5>3 DEF p, Packets
      <4>2. outbox' = outbox
        BY <3>4 DEF BusError, hostVars
      <4> QED
        BY <3>1, <3>4, <4>1, <4>2 DEF BusError, NoPacket
    <3> QED
      BY <3>3, <3>4
  <2> QED
    BY <1>1, <1>2, <2>1 DEF BaseInv, parserVars, Count
<1>6. ASSUME Between PROVE Between'
  <2>1. PICK w \in Queues :
          /\ Line(w)
          /\ Later(w, Count) \/ (w # << >> /\ Garbage(Head(w)) /\ Later(Tail(w), Count))
    BY <1>6 DEF Between
  <2> QED
    BY <1>2, <1>3, <1>4, <2>1 DEF Between, Garbage
<1>7. ASSUME NEW n \in Nat, Reading(n) PROVE Reading(n)'
  <2>1. PICK w \in Queues :
          /\ Line(w)
          /\ \/ n = Len(Wire) /\ Later(w, Count + 1)
             \/ w # << >> /\ Continues(Head(w), Wire, n) /\ Later(Tail(w), Count + 1)
    BY <1>7 DEF Reading, Coming
  <2>2. Coming(n)'
    BY <1>2, <1>3, <1>4, <2>1 DEF Coming, Continues
  <2> QED
    BY <1>2, <1>7, <2>2 DEF Reading, Boundary
<1> QED
  BY <1>2, <1>5, <1>6, <1>7

LEMMA HoldsFacts ==
  ASSUME HostKeepsProtocol, BaseInv, NEW h \in Nat, Holds(h)
  PROVE  /\ Count < Len(sent) /\ Current \in Frames /\ Current.rs /\ cmd = Current.cmd
         /\ Len(Body(Current)) \in Nat /\ h <= Len(Body(Current))
         /\ Len(Wire) = Header(Current) + Len(Body(Current)) /\ Header(Current) \in Nat
         /\ Header(Current) + h \in Nat /\ Reading(Header(Current) + h)
         /\ \A k \in 1 .. Len(Body(Current)) : Wire[Header(Current) + k] = Body(Current)[k]
         /\ Body(Current) \in Seq(Bytes)
<1>1. Count < Len(sent) /\ Current.rs /\ h <= Len(Body(Current)) /\ cmd = Current.cmd
      /\ Reading(Header(Current) + h)
  BY DEF Holds, Reading
<1>2. Current \in Frames /\ Header(Current) \in Nat
  BY <1>1, PositionFacts
<1> QED
  BY <1>1, <1>2, EncodeFacts DEF Wire

(* While the loader works on a frame, there is one.                        *)
LEMMA AtWork ==
  ASSUME HostKeepsProtocol, IInv, pc # "poll"
  PROVE  Count < Len(sent) /\ Current \in Frames
<1> SUFFICES Count < Len(sent)
  BY PositionFacts DEF IInv
<1>1. CASE pc = "dispatch"
  <2>1. CASE cmd = BinStr
    BY <1>1, <2>1 DEF IInv, ParserInv, DispatchInv, Holds, Reading
  <2>2. CASE cmd # BinStr
    BY <1>1, <2>2 DEF IInv, ParserInv, DispatchInv, Holds, Reading
  <2> QED
    BY <2>1, <2>2
<1>2. CASE pc = "command"
  BY <1>2 DEF IInv, ParserInv, CommandInv, Reading
<1>3. CASE pc = "separator"
  BY <1>3 DEF IInv, ParserInv, SeparatorInv, Reading
<1>4. CASE pc = "bin_size"
  BY <1>4 DEF IInv, ParserInv, BinSizeInv, Holds, Reading
<1>5. CASE pc = "data"
  BY <1>5 DEF IInv, ParserInv, DataInv, Holds, Reading
<1>6. CASE pc = "more_data"
  BY <1>6 DEF IInv, ParserInv, MoreDataInv, Holds, Reading
<1>7. CASE pc = "scan"
  BY <1>7 DEF IInv, ParserInv, ScanInv, Holds, Reading
<1>8. CASE pc = "leftover"
  BY <1>8 DEF IInv, ParserInv, LeftoverInv, Holds, Reading
<1>9. CASE pc = "bin_data"
  BY <1>9 DEF IInv, ParserInv, BinDataInv, Holds, Reading
<1> QED
  BY <1>1, <1>2, <1>3, <1>4, <1>5, <1>6, <1>7, <1>8, <1>9 DEF IInv

(* The part of the invariant that belongs to the loader's position.        *)
LEMMA OnePart ==
  ASSUME BaseInv',
         pc' \in {"poll", "command", "separator", "bin_size", "data", "more_data",
                  "scan", "leftover", "dispatch", "bin_data"},
         pc' = "poll" => PollInv', pc' = "command" => CommandInv',
         pc' = "separator" => SeparatorInv', pc' = "bin_size" => BinSizeInv',
         pc' = "data" => DataInv', pc' = "more_data" => MoreDataInv',
         pc' = "scan" => ScanInv', pc' = "leftover" => LeftoverInv',
         pc' = "dispatch" => DispatchInv', pc' = "bin_data" => BinDataInv'
  PROVE  IInv'
<1>1. PollInv' /\ CommandInv' /\ SeparatorInv'
  BY DEF PollInv, CommandInv, SeparatorInv
<1>2. BinSizeInv' /\ DataInv' /\ MoreDataInv'
  BY DEF BinSizeInv, DataInv, MoreDataInv
<1>3. ScanInv' /\ LeftoverInv'
  BY DEF ScanInv, LeftoverInv
<1>4. DispatchInv' /\ BinDataInv'
  BY DEF DispatchInv, BinDataInv
<1> QED
  BY <1>1, <1>2, <1>3, <1>4 DEF IInv, ParserInv

LEMMA EnvironmentKeeps ==
  ASSUME HostKeepsProtocol, IInv, HostSend \/ BusDeliver \/ BusError
  PROVE  IInv'
<1>1. /\ BaseInv'
      /\ Between => Between'
      /\ Count < Len(sent) => Current' = Current
      /\ \A n \in Nat : Reading(n) => Reading(n)'
  BY HostKeeps, BusKeeps DEF IInv
<1>2. UNCHANGED <<pc, arr, rxd, cmd, bytes, prev, acc, cur, dp, nxt, bin>>
  BY DEF HostSend, BusDeliver, BusError, parserVars
<1>3. CASE pc = "poll"
  <2>1. PollInv
    BY DEF IInv, ParserInv
  <2>2. BaseInv' /\ pc' = "poll" /\ cmd' = cmd /\ (Between => Between')
    BY <1>1, <1>2, <1>3
  <2>3. PollInv'
    BY <1>3, <2>1, <2>2, Zenon DEF PollInv
  <2> QED
    BY <2>2, <2>3, OnePart
<1>4. CASE pc # "poll"
  <2>1. /\ Count < Len(sent) /\ Current \in Frames /\ Current' = Current /\ Wire' = Wire
        /\ BaseInv
    BY <1>1, <1>4, AtWork DEF Wire, IInv
  <2>2. Len(Wire) \in Nat /\ Header(Current) \in Nat
    BY <2>1, PositionFacts DEF IInv
  <2>3. Len(Body(Current)) \in Nat
    BY <2>1, EncodeFacts
  <2>4. \A n \in Nat : Holds(n) => Holds(n)'
    <3> SUFFICES ASSUME NEW n \in Nat, Holds(n) PROVE Holds(n)'
      OBVIOUS
    <3>1. Header(Current) + n \in Nat /\ Reading(Header(Current) + n)
      BY <2>2 DEF Holds
    <3>2. Reading(Header(Current) + n)'
      BY <1>1, <2>1, <3>1
    <3> QED
      BY <1>2, <2>1, <3>2 DEF Holds
  <2>5. ASSUME pc = "command" PROVE CommandInv'
    <3>1. CommandInv /\ bytes + 1 \in Nat
      BY <2>1, <2>5 DEF IInv, ParserInv, BaseInv, Bytes
    <3>2. Reading(bytes + 1)'
      BY <1>1, <1>2, <2>5, <3>1 DEF CommandInv
    <3> QED
      BY <1>2, <2>1, <3>1, <3>2 DEF CommandInv
  <2>6. ASSUME pc = "separator" PROVE SeparatorInv'
    <3>1. SeparatorInv /\ cur + bytes \in Nat
      BY <2>1, <2>6 DEF IInv, ParserInv, BaseInv, Bytes
    <3>2. Reading(cur + bytes)'
      BY <1>1, <1>2, <2>6, <3>1 DEF SeparatorInv
    <3> QED
      BY <1>2, <2>1, <3>1, <3>2 DEF SeparatorInv
  <2>7. ASSUME pc = "bin_size" PROVE BinSizeInv'
    BY <1>2, <2>1, <2>4, <2>7 DEF IInv, ParserInv, BaseInv, BinSizeInv
  <2>8. ASSUME pc = "data" PROVE DataInv'
    BY <1>2, <2>1, <2>4, <2>8 DEF IInv, ParserInv, BaseInv, DataInv
  <2>9. ASSUME pc = "more_data" PROVE MoreDataInv'
    BY <1>2, <2>1, <2>4, <2>9 DEF IInv, ParserInv, BaseInv, MoreDataInv
  <2>10. ASSUME pc = "scan" PROVE ScanInv'
    BY <1>2, <2>1, <2>3, <2>4, <2>10 DEF IInv, ParserInv, BaseInv, ScanInv
  <2>11. ASSUME pc = "leftover" PROVE LeftoverInv'
    BY <1>2, <2>1, <2>3, <2>4, <2>11 DEF IInv, ParserInv, BaseInv, LeftoverInv
  <2>12. ASSUME pc = "dispatch" PROVE DispatchInv'
    <3>1. DispatchInv
      BY DEF IInv, ParserInv
    <3>2. ~Current.rs => Reading(Len(Wire))'
      BY <1>1, <2>1, <2>2, <2>12, <3>1 DEF DispatchInv
    <3> QED
      BY <1>2, <2>1, <2>3, <2>4, <2>12, <3>1, <3>2 DEF DispatchInv
  <2>13. ASSUME pc = "bin_data" PROVE BinDataInv'
    BY <1>2, <2>1, <2>4, <2>13 DEF IInv, ParserInv, BaseInv, BinDataInv
  <2>14. BaseInv' /\ pc' = pc
    BY <1>1, <1>2
  <2> QED
    BY <1>4, <2>14, <2>5, <2>6, <2>7, <2>8, <2>9, <2>10, <2>11, <2>12, <2>13, OnePart
       DEF IInv
<1> QED
  BY <1>3, <1>4

-----------------------------------------------------------------------------
(* The steps of the loader.                                                *)

LEMMA UsbRxFacts ==
  ASSUME BaseInv, UsbRx
  PROVE  /\ Received \in Packets
         /\ ep1' \in [int : BOOLEAN, err : BOOLEAN, stall : BOOLEAN, bytes : Packets]
<1>1. ep1 \in [int : BOOLEAN, err : BOOLEAN, stall : BOOLEAN, bytes : Packets]
  BY DEF BaseInv
<1>2. << >> \in Packets
  BY DEF Packets
<1> QED
  BY <1>1, <1>2 DEF Received, UsbRx, NoPacket

LEMMA StepBase ==
  ASSUME BaseInv, UNCHANGED <<hostVars, answers, dispatched, prev>>,
         UsbRx \/ UNCHANGED ep1,
         arr' \in [0 .. (DataArraySize + PacketSize) -> Bytes],
         rxd' \in [0 .. (RxDataSize + PacketSize) -> Bytes],
         bytes' \in Bytes, acc' \in Nat, cur' \in Nat,
         dp' \in Nat \cup {Null}, nxt' \in Nat \cup {Null}
  PROVE  BaseInv'
<1>1. ep1' \in [int : BOOLEAN, err : BOOLEAN, stall : BOOLEAN, bytes : Packets]
  BY UsbRxFacts DEF BaseInv
<1>2. sent' = sent /\ outbox' = outbox /\ answers' = answers /\ dispatched' = dispatched
      /\ prev' = prev
  BY DEF hostVars
<1> QED
  BY <1>1, <1>2 DEF BaseInv, Count

LEMMA Sizes ==
  /\ PacketSize \in Nat /\ PacketSize >= 16 /\ PacketSize <= 32
  /\ DataArraySize + PacketSize \in Nat /\ RxDataSize + PacketSize \in Nat
  /\ DataArraySize \in Nat /\ RxDataSize \in Nat
  /\ PacketSize <= DataArraySize /\ 3 * PacketSize <= RxDataSize
  /\ MaxBin \in Nat /\ MaxBin + PacketSize < RxDataSize
BY ReceiverConstants

(* A step that does not read a packet.                                     *)
LEMMA Unmoved ==
  ASSUME UNCHANGED <<outbox, ep1, sent, dispatched>>
  PROVE  /\ Count' = Count /\ Current' = Current /\ Wire' = Wire
         /\ \A n : Reading(n) => Reading(n)'
<1>1. Count' = Count /\ Current' = Current /\ Wire' = Wire
  BY DEF Count, Current, Wire
<1>2. ASSUME NEW n, Reading(n) PROVE Reading(n)'
  BY <1>1, <1>2 DEF Reading, Boundary, Coming, Line, Later, Continues
<1> QED
  BY <1>1, <1>2

LEMMA StillHolds ==
  ASSUME HostKeepsProtocol, BaseInv, UNCHANGED <<outbox, ep1, sent, dispatched, cmd>>,
         NEW h \in Nat, Holds(h), \A k \in 0 .. (h - 1) : rxd'[k] = rxd[k]
  PROVE  Holds(h)'
<1>1. Reading(Header(Current) + h)'
  BY Unmoved DEF Holds
<1> QED
  BY <1>1, Unmoved DEF Holds

(* What is left of a frame, and a packet behind it, fits into rx_data.     *)
LEMMA BodyFits ==
  ASSUME HostKeepsProtocol, NEW f \in Frames, f.rs
  PROVE  /\ Len(Body(f)) \in Nat /\ Len(Body(f)) > 0 /\ Len(Body(f)) <= RxDataSize
         /\ f.cmd # BinStr => Len(Body(f)) + PacketSize <= RxDataSize
<1>1. Len(Body(f)) = Len(f.data) + 1 /\ Len(f.data) \in Nat /\ Header(f) \in Nat
      /\ Len(Encode(f)) = Header(f) + Len(Body(f))
  BY EncodeFacts DEF Header
<1>2. CASE f.cmd = BinStr
  <2>1. \E size \in Nat : size <= MaxBin /\ Len(Body(f)) = size + 4
    BY <1>2, BinFacts
  <2> QED
    BY <1>1, <1>2, <2>1, Sizes
<1>3. CASE f.cmd # BinStr
  <2>1. Len(Encode(f)) <= 2 * PacketSize
    BY <1>3 DEF HostKeepsProtocol
  <2> QED
    BY <1>1, <1>3, <2>1, Sizes
<1> QED
  BY <1>2, <1>3

(* A packet of the body is stored behind what rx_data holds of it.         *)
LEMMA HoldsMore ==
  ASSUME HostKeepsProtocol, BaseInv, UsbRx, UNCHANGED <<outbox, sent, dispatched, cmd>>,
         NEW h \in Nat, Holds(h), h < Len(Body(Current)), rxd' = Store(rxd, h, Received)
  PROVE  /\ rxd' \in [0 .. (RxDataSize + PacketSize) -> Bytes]
         /\ \A k \in 0 .. (h - 1) : rxd'[k] = rxd[k]
         /\ \/ Received = << >> /\ Holds(h)'
            \/ \E g \in (h + 1) .. Len(Body(Current)) :
                 /\ g = Lesser(h + PacketSize, Len(Body(Current)))
                 /\ Len(Received) = g - h /\ Holds(g)'
<1> DEFINE N == RxDataSize + PacketSize
           b == Header(Current)
<1>1. /\ Count < Len(sent) /\ Current \in Frames /\ Current.rs /\ cmd = Current.cmd
      /\ Len(Body(Current)) \in Nat /\ h <= Len(Body(Current)) /\ b \in Nat
      /\ Len(Wire) = b + Len(Body(Current)) /\ b + h \in Nat
      /\ Reading(b + h) /\ Body(Current) \in Seq(Bytes)
      /\ \A k \in 1 .. Len(Body(Current)) : Wire[b + k] = Body(Current)[k]
  BY HoldsFacts
<1>2. Len(Body(Current)) <= N /\ N \in Nat /\ PacketSize \in Nat /\ PacketSize > 0
  BY <1>1, BodyFits, Sizes
<1>3. rxd \in [0 .. N -> Bytes] /\ Received \in Seq(Bytes)
  BY UsbRxFacts DEF BaseInv, Packets
<1>4. /\ rxd' \in [0 .. N -> Bytes]
      /\ \A k \in 0 .. N : rxd'[k] = IF h <= k /\ k < h + Len(Received)
                                      THEN Received[k - h + 1] ELSE rxd[k]
  BY <1>2, <1>3, StoreFacts
<1>5. \A k \in 0 .. (h - 1) : rxd'[k] = rxd[k]
  <2> SUFFICES ASSUME NEW k \in 0 .. (h - 1) PROVE rxd'[k] = rxd[k]
    OBVIOUS
  <2>1. k \in 0 .. N /\ ~(h <= k)
    BY <1>1, <1>2
  <2> QED
    BY <1>4, <2>1
<1>6. Count' = Count /\ Current' = Current /\ Wire' = Wire
  BY DEF Count, Current, Wire
<1>7. ASSUME Reading(b + h)' PROVE Holds(h)'
  <2>1. \A k \in 0 .. (h - 1) : rxd'[k] = Body(Current)[k + 1]
    BY <1>5 DEF Holds
  <2> QED
    BY <1>1, <1>6, <1>7, <2>1 DEF Holds
<1>8. ASSUME NEW m \in (b + h + 1) .. Len(Wire), m = Lesser(b + h + PacketSize, Len(Wire)),
             Received = SubSeq(Wire, b + h + 1, m), Reading(m)'
      PROVE  \E g \in (h + 1) .. Len(Body(Current)) :
                 /\ g = Lesser(h + PacketSize, Len(Body(Current)))
                 /\ Len(Received) = g - h /\ Holds(g)'
  <2> DEFINE L == Len(Body(Current))
  <2>1. PICK g \in Nat : g = Lesser(h + PacketSize, L)
    BY <1>1, <1>2 DEF Lesser
  <2>2. m = b + g /\ g \in (h + 1) .. L
    <3> HIDE DEF L, b
    <3>1. /\ h \in Nat /\ L \in Nat /\ b \in Nat /\ PacketSize \in Nat /\ PacketSize > 0
          /\ h < L /\ Len(Wire) = b + L
      BY <1>1, <1>2 DEF L
    <3> QED
      BY <1>8, <2>1, <3>1 DEF Lesser
  <2>3. Wire \in Seq(Bytes) /\ Len(Wire) \in Nat
    BY <1>1, PositionFacts
  <2>4. Len(Received) = g - h /\ \A k \in 1 .. (g - h) : Received[k] = Wire[b + h + k]
    <3>1. b + h + 1 \in Nat /\ m \in Nat /\ m <= Len(Wire) /\ m - (b + h + 1) + 1 = g - h
          /\ b \in Nat /\ b + h + 1 >= 1
      <4>1. b \in Nat /\ m = b + g /\ g > h /\ g <= L /\ L \in Nat /\ Len(Wire) = b + L
        BY <1>1, <2>2
      <4> HIDE DEF b, L
      <4> QED
        BY <4>1
    <3>2. \A s \in Seq(Bytes) : \A x, y \in Nat : x >= 1 /\ x <= y /\ y <= Len(s) =>
            /\ Len(SubSeq(s, x, y)) = y - x + 1
            /\ \A k \in 1 .. (y - x + 1) : SubSeq(s, x, y)[k] = s[x + k - 1]
      OBVIOUS
    <3>3. b + h + 1 <= m
      BY <1>1, <1>8
    <3> DEFINE x == b + h + 1
    <3>4. /\ Len(SubSeq(Wire, x, m)) = m - x + 1
          /\ \A k \in 1 .. (m - x + 1) : SubSeq(Wire, x, m)[k] = Wire[x + k - 1]
      BY <2>3, <3>1, <3>2, <3>3, Zenon
    <3>5. \A k \in Nat : x + k - 1 = b + h + k
      BY <1>1
    <3>6. m - x + 1 = g - h /\ g - h \in Nat /\ Received = SubSeq(Wire, x, m)
      BY <1>8, <2>2, <3>1
    <3> HIDE DEF x
    <3>7. \A k \in 1 .. (g - h) : SubSeq(Wire, x, m)[k] = Wire[b + h + k]
      <4> SUFFICES ASSUME NEW k \in 1 .. (g - h)
                   PROVE  SubSeq(Wire, x, m)[k] = Wire[b + h + k]
        OBVIOUS
      <4>1. k \in Nat
        BY <3>6
      <4>2. SubSeq(Wire, x, m)[k] = Wire[x + k - 1]
        BY <3>4, <3>6
      <4> QED
        BY <3>5, <4>1, <4>2, Zenon
    <3> QED
      BY <3>4, <3>6, <3>7, Zenon
  <2>5. Reading(b + g)'
    <3>1. b' = b
      BY <1>6
    <3>2. m = b' + g
      BY <2>2, <3>1
    <3> QED
      BY <1>8, <3>2
  <2>6. \A k \in 0 .. (g - 1) : rxd'[k] = Body(Current)[k + 1]
    <3> SUFFICES ASSUME NEW k \in 0 .. (g - 1) PROVE rxd'[k] = Body(Current)[k + 1]
      OBVIOUS
    <3>1. CASE k < h
      BY <1>5, <3>1 DEF Holds
    <3>2. CASE h <= k
      <4>1. k \in 0 .. N /\ k < h + Len(Received) /\ k - h + 1 \in 1 .. (g - h)
            /\ k + 1 \in 1 .. L
        BY <1>1, <1>2, <2>2, <2>4, <3>2
      <4>2. rxd'[k] = Wire[b + h + (k - h + 1)]
        BY <1>4, <2>4, <3>2, <4>1
      <4>3. b + h + (k - h + 1) = b + (k + 1)
        BY <1>1
      <4> QED
        BY <1>1, <4>1, <4>2, <4>3
    <3> QED
      BY <3>1, <3>2
  <2>7. Holds(g)'
    BY <1>1, <1>6, <2>2, <2>5, <2>6 DEF Holds
  <2> QED
    BY <2>1, <2>2, <2>4, <2>7
<1>9. \/ Received = << >> /\ Reading(b + h)'
      \/ \E m \in (b + h + 1) .. Len(Wire) :
           /\ m = Lesser(b + h + PacketSize, Len(Wire))
           /\ Received = SubSeq(Wire, b + h + 1, m) /\ Reading(m)'
  <2>1. PICK n \in Nat : n = b + h
    BY <1>1
  <2>2. Reading(n) /\ n < Len(Wire)
    BY <1>1, <2>1
  <2>3. \/ Received = << >> /\ Reading(n)'
        \/ \E m \in (n + 1) .. Len(Wire) :
             /\ m = Lesser(n + PacketSize, Len(Wire))
             /\ Received = SubSeq(Wire, n + 1, m) /\ Reading(m)'
    BY <2>2, ReadOn
  <2>4. b' = b
    BY <1>6
  <2>5. n = b' + h
    BY <2>1, <2>4
  <2> QED
    BY <2>1, <2>3, <2>5
<1>10. \/ Received = << >> /\ Holds(h)'
       \/ \E g \in (h + 1) .. Len(Body(Current)) :
            /\ g = Lesser(h + PacketSize, Len(Body(Current)))
            /\ Len(Received) = g - h /\ Holds(g)'
  BY <1>7, <1>8, <1>9
<1> QED
  BY <1>4, <1>5, <1>10

(* Poll counts no byte but those of the packet, and current_ptr stays in   *)
(* them or right behind.                                                   *)
LEMMA PollRanges ==
  ASSUME HostKeepsProtocol, IInv, Poll, Received # << >>
  PROVE  bytes' \in 0 .. PacketSize /\ cur' \in 0 .. (PacketSize + 1)
<1> DEFINE N == DataArraySize + PacketSize
           stx == FirstIn(arr', 0, {STX})
           l == Len(Received)
<1>1. BaseInv /\ pc = "poll" /\ Between /\ prev = 0 /\ UsbRx
      /\ arr' = Store(arr, 0, Received) /\ UNCHANGED <<outbox, sent, dispatched>>
  BY DEF Poll, IInv, ParserInv, PollInv, BaseInv, hostVars
<1>2. Received \in Seq(Bytes) /\ l \in Nat /\ N \in Nat /\ arr \in [0 .. N -> Bytes]
  BY <1>1, UsbRxFacts, Sizes DEF BaseInv, Packets
<1>3. l <= PacketSize
  <2>1. CASE Count < Len(sent)
    <3>1. Wire \in Seq(Bytes) /\ Len(Wire) \in Nat /\ Header(Current) \in Nat
      BY <1>1, <2>1, PositionFacts
    <3>2. l <= PacketSize \/ \E n \in Header(Current) .. PacketSize :
                                n <= Len(Wire) /\ Received = SubSeq(Wire, 1, n)
      BY <1>1, ReadFirst
    <3> QED
      BY <3>1, <3>2, Sizes
  <2> QED
    BY <1>1, <2>1, ReadFirst
<1>4. arr' \in [0 .. N -> Bytes] /\ 0 \in Nat
  BY <1>1, <1>2, StoreFacts
<1>5. stx \in Nat
  <2>1. \A j \in 0 .. (0 - 1) : arr'[j] \notin {STX}
    OBVIOUS
  <2> QED
    BY <1>2, <1>4, <2>1, FirstBehind
<1>6. U8(l + prev) = l
  <2>1. \A n \in Nat : n <= PacketSize => U8(n + 0) = n
    BY Sizes DEF U8
  <2> QED
    BY <1>1, <1>2, <1>3, <2>1
<1>7. /\ bytes' = IF stx < l THEN l - stx - 1 ELSE 0
      /\ cur' = Min({stx, l}) + 1
  BY <1>6 DEF Poll
<1> HIDE DEF stx, l
<1>8. Min({stx, l}) \in {stx, l} /\ Min({stx, l}) <= l
  <2>1. stx \in Int /\ l \in Int
    BY <1>2, <1>5
  <2>2. Min({stx, l}) = Lesser(stx, l)
    BY <2>1, LesserMin
  <2> QED
    BY <2>1, <2>2, Zenon, LesserMin
<1> QED
  BY <1>2, <1>3, <1>5, <1>7, <1>8, Sizes

LEMMA PollKeeps ==
  ASSUME HostKeepsProtocol, IInv, Poll
  PROVE  IInv'
<1>1. BaseInv /\ pc = "poll" /\ cmd = << >> /\ Between /\ prev = 0
  BY DEF Poll, IInv, ParserInv, PollInv, BaseInv
<1>2. /\ UsbRx /\ arr' = Store(arr, 0, Received)
      /\ UNCHANGED <<hostVars, rxd, cmd, prev, acc, dp, nxt, bin, answers, dispatched>>
  BY <1>1 DEF Poll
<1>3. UNCHANGED <<outbox, sent, dispatched>> /\ cmd' = cmd
  BY <1>2 DEF hostVars
<1> DEFINE N == DataArraySize + PacketSize
<1>4. arr \in [0 .. N -> Bytes] /\ N \in Nat /\ Received \in Seq(Bytes) /\ 0 \in Nat
  BY <1>1, <1>2, Sizes, UsbRxFacts DEF BaseInv, Packets
<1>5. /\ arr' \in [0 .. N -> Bytes]
      /\ \A k \in 0 .. N : arr'[k] = IF 0 <= k /\ k < 0 + Len(Received)
                                      THEN Received[k - 0 + 1] ELSE arr[k]
  BY <1>2, <1>4, StoreFacts
<1>6. \A k \in 0 .. N : k < Len(Received) => arr'[k] = Received[k + 1]
  BY <1>4, <1>5
<1>7. ASSUME bytes' \in Bytes, cur' \in Nat
      PROVE  BaseInv'
  <2>1. /\ rxd' \in [0 .. (RxDataSize + PacketSize) -> Bytes] /\ acc' \in Nat
        /\ dp' \in Nat \cup {Null} /\ nxt' \in Nat \cup {Null}
    BY <1>1, <1>2 DEF BaseInv
  <2> QED
    BY <1>1, <1>2, <1>5, <1>7, <2>1, StepBase
<1>8. CASE /\ Received \in Packets /\ Len(Received) <= PacketSize
           /\ \A j \in DOMAIN Received : Received[j] # STX
           /\ Between'
  <2>1. pc' = "poll" /\ bytes' \in Bytes /\ cur' \in Nat
    <3>1. CASE Received = << >>
      BY <1>1, <3>1 DEF Poll, BaseInv
    <3>2. CASE Received # << >>
      <4>1. Len(Received) \in Nat /\ Len(Received) > 0 /\ Len(Received) <= N + 1
            /\ DOMAIN Received = 1 .. Len(Received)
        BY <1>4, <1>8, <3>2, Sizes
      <4>2. \A j \in 0 .. (Len(Received) - 1) : arr'[j] \notin {STX}
        BY <1>4, <1>6, <1>8, <4>1, Sizes
      <4>3. FirstIn(arr', 0, {STX}) \in Nat /\ FirstIn(arr', 0, {STX}) >= Len(Received)
        BY <1>4, <1>5, <4>1, <4>2, FirstBehind
      <4>4. U8(Len(Received) + prev) = Len(Received)
        <5>1. Len(Received) <= PacketSize /\ prev = 0
          BY <1>1, <1>8, Zenon
        <5>2. \A n \in Nat : n <= PacketSize => U8(n + 0) = n
          BY Sizes DEF U8
        <5> QED
          BY <4>1, <5>1, <5>2, Zenon
      <4>5. ~(FirstIn(arr', 0, {STX}) < U8(Len(Received) + prev))
        BY <4>1, <4>3, <4>4
      <4> QED
        BY <3>2, <4>5, PollRanges, Sizes DEF Poll, Bytes
    <3> QED
      BY <3>1, <3>2
  <2>2. PollInv'
    BY <1>1, <1>3, <1>8 DEF PollInv
  <2> QED
    BY <1>7, <2>1, <2>2, OnePart
<1>9. ASSUME Count < Len(sent), NEW n \in Header(Current) .. PacketSize, n <= Len(Wire),
             Received = SubSeq(Wire, 1, n), Reading(n)'
      PROVE  IInv'
  <2>1. /\ Current \in Frames /\ Wire \in Seq(Bytes) /\ Len(Wire) \in Nat
        /\ Header(Current) \in Nat /\ Header(Current) >= 2 /\ PacketSize \in Nat
    BY <1>1, <1>9, PositionFacts
  <2>2. n \in Nat /\ n >= 2 /\ Len(Received) = n /\ \A k \in 1 .. n : Received[k] = Wire[k]
    BY <1>9, <2>1
  <2>3. \A k \in 0 .. (n - 1) : arr'[k] = Wire[k + 1]
    BY <1>6, <1>9, <2>2, Sizes
  <2>4. Wire[1] = STX
    BY <2>1, EncodeFacts DEF Wire
  <2>5. FirstIn(arr', 0, {STX}) = 0
    <3>1. arr'[0] \in {STX} /\ 0 \in 0 .. N /\ \A j \in 0 .. (0 - 1) : arr'[j] \notin {STX}
      BY <1>4, <2>2, <2>3, <2>4
    <3> QED
      BY <1>4, <1>5, <3>1, FirstFound
  <2>6. U8(Len(Received) + prev) = n
    BY <1>1, <1>9, <2>2, Sizes DEF U8
  <2>7. pc' = "command" /\ bytes' = n - 1 /\ cur' = 1
    <3>1. Min({0, n}) = 0
      BY <2>2, LesserMin DEF Lesser
    <3>2. Received # << >>
      BY <2>2
    <3>3. /\ bytes' = IF 0 < n THEN n - 0 - 1 ELSE 0
          /\ cur' = Min({0, n}) + 1
          /\ pc' = IF 0 < n THEN "command" ELSE "poll"
      BY <2>5, <2>6, <3>2 DEF Poll
    <3> QED
      BY <2>2, <3>1, <3>3
  <2>8. bytes' \in Bytes /\ bytes' + 1 = n /\ bytes' < PacketSize
    BY <1>9, <2>2, <2>7, Sizes DEF Bytes
  <2>9. Count' = Count /\ Current' = Current /\ Wire' = Wire
    BY <1>3 DEF Count, Current, Wire
  <2>10. Reading(bytes + 1)'
    BY <1>9, <2>8
  <2>11. CommandInv'
    BY <1>1, <1>3, <1>9, <2>1, <2>3, <2>7, <2>8, <2>9, <2>10 DEF CommandInv
  <2> QED
    BY <1>7, <2>7, <2>8, <2>11, OnePart
<1> QED
  BY <1>1, <1>2, <1>3, <1>8, <1>9, ReadFirst

(* The separator is in the first packet, so the command never needs        *)
(* another one.                                                            *)
LEMMA SeparatorAt ==
  ASSUME HostKeepsProtocol, BaseInv, Count < Len(sent), cur = 1,
         Header(Current) <= bytes + 1, bytes < PacketSize,
         \A k \in 0 .. bytes : arr[k] = Wire[k + 1]
  PROVE  FirstIn(arr, cur, {ETX, RS}) = Header(Current) - 1
<1> DEFINE N == DataArraySize + PacketSize
           h == Header(Current)
           f == Current
<1>1. /\ f \in Frames /\ Wire \in Seq(Bytes) /\ h \in Nat /\ h >= 2
      /\ arr \in [0 .. N -> Bytes] /\ N \in Nat /\ bytes \in Nat /\ bytes < N
  BY PositionFacts, Sizes DEF BaseInv, Bytes
<1>2. /\ Len(f.cmd) \in Nat /\ h = Len(f.cmd) + 2
      /\ \A k \in 1 .. Len(f.cmd) : f.cmd[k] \notin {ETX, RS} /\ Wire[k + 1] = f.cmd[k]
      /\ Wire[h] \in {ETX, RS}
  BY <1>1, EncodeFacts DEF Wire, Header
<1> HIDE DEF N, h, f
<1>3. h - 1 \in 1 .. N /\ arr[h - 1] \in {ETX, RS}
  BY <1>1, <1>2 DEF h
<1>4. \A j \in 1 .. ((h - 1) - 1) : arr[j] \notin {ETX, RS}
  <2> SUFFICES ASSUME NEW j \in 1 .. ((h - 1) - 1) PROVE arr[j] \notin {ETX, RS}
    OBVIOUS
  <2>1. j \in 0 .. bytes /\ j \in 1 .. Len(f.cmd)
    BY <1>1, <1>2 DEF h
  <2>2. arr[j] = Wire[j + 1]
    BY <2>1
  <2> QED
    BY <1>2, <2>1, <2>2
<1>5. FirstIn(arr, 1, {ETX, RS}) = h - 1
  BY <1>1, <1>3, <1>4, FirstFound
<1> QED
  BY <1>5 DEF h

LEMMA CommandKeeps ==
  ASSUME HostKeepsProtocol, IInv, Command
  PROVE  IInv'
<1> DEFINE N == DataArraySize + PacketSize
           h == Header(Current)
           stop == FirstIn(arr, cur, {ETX, RS})
<1>1. /\ BaseInv /\ pc = "command" /\ Reading(bytes + 1) /\ cmd = << >> /\ cur = 1
      /\ h <= bytes + 1 /\ bytes < PacketSize
      /\ \A k \in 0 .. bytes : arr[k] = Wire[k + 1]
  BY DEF Command, IInv, ParserInv, CommandInv
<1>2. Count < Len(sent)
  BY <1>1 DEF Reading
<1>3. /\ Current \in Frames /\ Wire \in Seq(Bytes) /\ h \in Nat /\ h >= 2
      /\ arr \in [0 .. N -> Bytes] /\ N \in Nat /\ bytes \in Nat /\ bytes < N
      /\ PacketSize \in Nat
  BY <1>1, <1>2, PositionFacts, Sizes DEF BaseInv, Bytes
<1>4. /\ Current.cmd \in Seq(Bytes) /\ Len(Current.cmd) \in Nat /\ h = Len(Current.cmd) + 2
      /\ \A k \in 1 .. Len(Current.cmd) : Wire[k + 1] = Current.cmd[k]
  BY <1>3, EncodeFacts DEF Wire, Header
<1>5. stop = h - 1
  BY <1>1, <1>2, SeparatorAt
<1>6. stop - cur <= bytes /\ ~(stop - cur > bytes)
  BY <1>1, <1>3, <1>5
<1> HIDE DEF stop
<1>7. /\ cmd' = cmd \o Slice(arr, cur, stop) /\ bytes' = bytes - (stop - cur)
      /\ cur' = stop /\ pc' = "separator"
      /\ UNCHANGED <<arr, ep1, hostVars, rxd, prev, acc, dp, nxt, bin, answers, dispatched>>
  <2>1. UNCHANGED <<hostVars, rxd, prev, acc, dp, nxt, bin, answers, dispatched>>
    BY DEF Command
  <2>2. \/ /\ stop - cur <= bytes
           /\ cmd' = cmd \o Slice(arr, cur, stop)
           /\ bytes' = bytes - (stop - cur)
           /\ cur' = stop
           /\ pc' = "separator"
           /\ UNCHANGED <<arr, ep1>>
        \/ stop - cur > bytes
    BY DEF Command, stop
  <2> QED
    BY <1>6, <2>1, <2>2
<1>8. cmd' = Current.cmd
  <2>1. 1 \in Nat /\ h - 1 \in 1 .. (N + 1)
    BY <1>1, <1>3
  <2>2. /\ Slice(arr, 1, h - 1) \in Seq(Bytes) /\ Len(Slice(arr, 1, h - 1)) = (h - 1) - 1
        /\ \A k \in 1 .. ((h - 1) - 1) : Slice(arr, 1, h - 1)[k] = arr[1 + k - 1]
    BY <1>3, <2>1, SliceFacts
  <2>3. \A k \in 1 .. Len(Current.cmd) : Slice(arr, 1, h - 1)[k] = Current.cmd[k]
    <3> SUFFICES ASSUME NEW k \in 1 .. Len(Current.cmd)
                 PROVE  Slice(arr, 1, h - 1)[k] = Current.cmd[k]
      OBVIOUS
    <3>1. k \in 1 .. ((h - 1) - 1) /\ 1 + k - 1 = k /\ k \in 0 .. bytes
      BY <1>1, <1>3, <1>4
    <3>2. Slice(arr, 1, h - 1)[k] = arr[k] /\ arr[k] = Wire[k + 1]
      BY <1>1, <2>2, <3>1
    <3> QED
      BY <1>4, <3>2
  <2>4. Len(Slice(arr, 1, h - 1)) = Len(Current.cmd)
    BY <1>3, <1>4, <2>2
  <2>5. Slice(arr, 1, h - 1) = Current.cmd
    BY <1>4, <2>2, <2>3, <2>4, SeqEqual
  <2>6. cmd' = << >> \o Slice(arr, 1, h - 1)
    BY <1>1, <1>5, <1>7
  <2> QED
    BY <1>4, <2>5, <2>6
<1>9. cur' = h - 1 /\ bytes' = bytes - (h - 2) /\ cur' + bytes' = bytes + 1 /\ bytes' >= 1
      /\ bytes' \in Bytes /\ cur' \in Nat
  <2>1. cur' = h - 1 /\ bytes' = bytes - ((h - 1) - 1)
    BY <1>1, <1>5, <1>7
  <2>2. bytes \in Nat /\ h \in Nat /\ h >= 2 /\ h <= bytes + 1 /\ bytes <= 32
    BY <1>1, <1>3, Sizes
  <2> HIDE DEF h
  <2> QED
    BY <2>1, <2>2 DEF Bytes
<1>10. BaseInv'
  <2>1. /\ arr' \in [0 .. (DataArraySize + PacketSize) -> Bytes]
        /\ rxd' \in [0 .. (RxDataSize + PacketSize) -> Bytes] /\ acc' \in Nat
        /\ dp' \in Nat \cup {Null} /\ nxt' \in Nat \cup {Null}
    BY <1>1, <1>7 DEF BaseInv
  <2> QED
    BY <1>1, <1>7, <1>9, <2>1, StepBase
<1>11. /\ Count' = Count /\ Current' = Current /\ Wire' = Wire
       /\ \A n : Reading(n) => Reading(n)'
  BY <1>7, Unmoved DEF hostVars
<1>12. Reading(cur + bytes)'
  <2>1. PICK n \in Nat : n = bytes + 1
    BY <1>3
  <2> QED
    BY <1>1, <1>9, <1>11, <2>1
<1>13. SeparatorInv'
  <2>1. cmd' = Current'.cmd /\ cur' = Header(Current)' - 1
    BY <1>8, <1>9, <1>11 DEF Header
  <2>2. \A k \in 0 .. (cur' + bytes' - 1) : arr'[k] = Wire'[k + 1]
    BY <1>1, <1>3, <1>7, <1>9, <1>11
  <2>3. cur' + bytes' <= PacketSize
    BY <1>1, <1>3, <1>9
  <2> QED
    BY <1>9, <1>12, <2>1, <2>2, <2>3 DEF SeparatorInv
<1> QED
  BY <1>7, <1>10, <1>13, OnePart

LEMMA SeparatorKeeps ==
  ASSUME HostKeepsProtocol, IInv, Separator
  PROVE  IInv'
<1>1. /\ BaseInv /\ pc = "separator" /\ Reading(cur + bytes) /\ cmd = Current.cmd
      /\ cur = Header(Current) - 1 /\ bytes >= 1 /\ cur + bytes <= PacketSize
      /\ \A k \in 0 .. (cur + bytes - 1) : arr[k] = Wire[k + 1]
  BY DEF Separator, IInv, ParserInv, SeparatorInv
<1>2. Count < Len(sent) /\ cur + bytes <= Len(Wire)
  BY <1>1 DEF Reading
<1>3. Current \in Frames /\ Wire \in Seq(Bytes) /\ Len(Wire) \in Nat /\ Header(Current) \in Nat
  BY <1>1, <1>2, PositionFacts
<1>4. /\ arr \in [0 .. (DataArraySize + PacketSize) -> Bytes]
      /\ rxd \in [0 .. (RxDataSize + PacketSize) -> Bytes]
      /\ bytes \in 0 .. 255 /\ cur \in Nat
  BY <1>1 DEF BaseInv, Bytes
<1>5. PICK h \in Nat, n \in Nat : h = Header(Current) /\ n = bytes - 1
  BY <1>1, <1>3, <1>4
<1>6. /\ cur + 1 = h /\ cur + bytes = h + n /\ h + n <= PacketSize /\ n <= 31
      /\ h + n <= Len(Wire) /\ h + n <= DataArraySize + PacketSize /\ n <= RxDataSize + PacketSize
      /\ cur \in 0 .. (cur + bytes - 1) /\ cur \in 0 .. (DataArraySize + PacketSize) /\ h >= 1
  BY <1>1, <1>2, <1>4, <1>5, Sizes
<1>7. UNCHANGED <<hostVars, ep1, arr, cmd, prev, cur, nxt, bin, answers, dispatched>>
  BY DEF Separator
<1>8. /\ Count' = Count /\ Current' = Current /\ Wire' = Wire
      /\ \A k : Reading(k) => Reading(k)'
  BY <1>7, Unmoved DEF hostVars
<1>9. At(arr, cur) = Wire[h]
  BY <1>1, <1>4, <1>6 DEF At
<1>10. CASE Current.rs
  <2>1. /\ Len(Body(Current)) \in Nat /\ Len(Wire) = h + Len(Body(Current)) /\ Wire[h] = RS
        /\ \A k \in 1 .. Len(Body(Current)) : Wire[h + k] = Body(Current)[k]
    BY <1>3, <1>5, <1>10, EncodeFacts DEF Wire
  <2>2. Behind(bytes) = n /\ n \in Bytes /\ n <= Len(Body(Current))
    <3>1. bytes \in 1 .. 256 /\ n <= Len(Body(Current))
      BY <1>1, <1>4, <1>6, <2>1
    <3> QED
      BY <1>5, <3>1, Counted
  <2>3. /\ rxd' = Store(rxd, 0, Slice(arr, h, h + n))
        /\ acc' = n /\ dp' = n /\ bytes' = 0
        /\ pc' = IF cmd = BinStr THEN "bin_size" ELSE "data"
    BY <1>6, <1>9, <2>1, <2>2 DEF Separator
  <2>4. /\ rxd' \in [0 .. (RxDataSize + PacketSize) -> Bytes]
        /\ \A k \in 0 .. (RxDataSize + PacketSize) : k < n => rxd'[k] = arr[h + k]
    <3>1. PICK N \in Nat, M \in Nat :
            N = DataArraySize + PacketSize /\ M = RxDataSize + PacketSize
      BY Sizes
    <3>2. arr \in [0 .. N -> Bytes] /\ rxd \in [0 .. M -> Bytes] /\ h + n \in h .. (N + 1)
          /\ (h + n) - h = n
      BY <1>4, <1>6, <3>1
    <3>3. /\ Store(rxd, 0, Slice(arr, h, h + n)) \in [0 .. M -> Bytes]
          /\ \A k \in 0 .. M : 0 <= k /\ k - 0 < (h + n) - h =>
               Store(rxd, 0, Slice(arr, h, h + n))[k] = arr[h + (k - 0)]
      BY <3>2, CopyFacts
    <3>4. \A k \in 0 .. M : k < n => Store(rxd, 0, Slice(arr, h, h + n))[k] = arr[h + k]
      BY <3>2, <3>3
    <3> QED
      BY <2>3, <3>1, <3>3, <3>4, Zenon
  <2>5. ASSUME NEW k \in 0 .. (n - 1) PROVE rxd'[k] = Body(Current)[k + 1]
    <3>1. /\ k \in 0 .. (RxDataSize + PacketSize) /\ 0 <= k /\ k < 0 + n /\ k - 0 = k
          /\ h + k \in 0 .. (h + n - 1) /\ h + k + 1 = h + (k + 1)
          /\ k + 1 \in 1 .. Len(Body(Current))
      BY <1>6, <2>1, <2>2, Sizes
    <3>2. rxd'[k] = arr[h + k]
      BY <2>4, <3>1
    <3>3. arr[h + k] = Wire[h + (k + 1)]
      <4>1. \A j \in 0 .. (h + n - 1) : arr[j] = Wire[j + 1]
        <5>1. h + n - 1 = cur + bytes - 1
          BY <1>4, <1>6
        <5> QED
          BY <1>1, <5>1, Zenon
      <4> QED
        BY <3>1, <4>1
    <3> QED
      BY <2>1, <3>1, <3>2, <3>3
  <2>6. Reading(h + n)'
    BY <1>1, <1>6, <1>8
  <2>7. Holds(acc)'
    BY <1>1, <1>5, <1>7, <1>8, <1>10, <2>2, <2>3, <2>5, <2>6 DEF Holds
  <2>8. BaseInv'
    <3>1. /\ arr' \in [0 .. (DataArraySize + PacketSize) -> Bytes] /\ bytes' \in Bytes
          /\ acc' \in Nat /\ cur' \in Nat /\ dp' \in Nat \cup {Null} /\ nxt' \in Nat \cup {Null}
      BY <1>1, <1>7, <2>3 DEF BaseInv, Bytes
    <3> QED
      BY <1>1, <1>7, <2>4, <3>1, StepBase
  <2>9. CASE cmd = BinStr
    <3>1. acc' <= 2 * PacketSize /\ bytes' <= PacketSize
      BY <1>6, <2>3, Sizes
    <3>2. BinSizeInv'
      BY <1>7, <2>3, <2>7, <2>9, <3>1 DEF BinSizeInv
    <3> QED
      BY <2>3, <2>8, <2>9, <3>2, OnePart
  <2>10. CASE cmd # BinStr
    <3>1. DataInv'
      BY <1>7, <2>3, <2>7, <2>10 DEF DataInv
    <3> QED
      BY <2>3, <2>8, <2>10, <3>1, OnePart
  <2> QED
    BY <2>9, <2>10
<1>11. CASE ~Current.rs
  <2>1. Len(Wire) = h /\ Wire[h] = ETX /\ ETX # RS
    BY <1>3, <1>5, <1>11, EncodeFacts DEF Wire, ETX, RS
  <2>2. dp' = Null /\ pc' = "dispatch" /\ UNCHANGED <<rxd, acc, bytes>>
    BY <1>9, <2>1 DEF Separator
  <2>3. BaseInv'
    <3>1. /\ arr' \in [0 .. (DataArraySize + PacketSize) -> Bytes] /\ bytes' \in Bytes
          /\ rxd' \in [0 .. (RxDataSize + PacketSize) -> Bytes]
          /\ acc' \in Nat /\ cur' \in Nat /\ dp' \in Nat \cup {Null} /\ nxt' \in Nat \cup {Null}
      BY <1>1, <1>7, <2>2 DEF BaseInv
    <3> QED
      BY <1>1, <1>7, <3>1, StepBase
  <2>4. cur + bytes = Len(Wire)
    BY <1>5, <1>6, <2>1
  <2>5. Reading(Len(Wire))'
    BY <1>1, <1>8, <2>4
  <2>6. cmd # BinStr
    BY <1>1, <1>3, <1>11, BinFacts
  <2>7. DispatchInv'
    BY <1>1, <1>7, <1>8, <1>11, <2>2, <2>5, <2>6 DEF DispatchInv
  <2> QED
    BY <2>2, <2>3, <2>7, OnePart
<1> QED
  BY <1>10, <1>11

LEMMA BinSizeBytesKeeps ==
  ASSUME HostKeepsProtocol, IInv, BinSizeBytes
  PROVE  IInv'
<1>1. /\ BaseInv /\ pc = "bin_size" /\ Holds(acc) /\ cmd = BinStr /\ dp = acc
      /\ acc < MaxDataFieldSize /\ bytes = 0 /\ acc \in Nat
  BY DEF BinSizeBytes, IInv, ParserInv, BinSizeInv, BaseInv
<1>2. /\ UsbRx /\ bytes' = U8(bytes + Len(Received)) /\ rxd' = Store(rxd, dp, Received)
      /\ acc' = acc + bytes' /\ dp' = dp + bytes'
      /\ UNCHANGED <<hostVars, pc, arr, cmd, prev, cur, nxt, bin, answers, dispatched>>
  BY DEF BinSizeBytes
<1>3. Current \in Frames /\ Current.cmd = BinStr /\ Len(Body(Current)) \in Nat
  BY <1>1, HoldsFacts
<1>4. Len(Body(Current)) >= 4
  <2>1. \E size \in Nat : Len(Body(Current)) = size + 4
    BY <1>3, BinFacts
  <2> QED
    BY <2>1
<1>5. /\ rxd' \in [0 .. (RxDataSize + PacketSize) -> Bytes]
      /\ \/ Received = << >> /\ Holds(acc)'
         \/ \E g \in (acc + 1) .. Len(Body(Current)) :
              /\ g = Lesser(acc + PacketSize, Len(Body(Current)))
              /\ Len(Received) = g - acc /\ Holds(g)'
  <2>1. PICK h \in Nat : h = acc
    BY <1>1
  <2>2. h < Len(Body(Current)) /\ rxd' = Store(rxd, h, Received) /\ Holds(h)
    BY <1>1, <1>2, <1>3, <1>4, <2>1 DEF MaxDataFieldSize
  <2>3. UNCHANGED <<outbox, sent, dispatched, cmd>>
    BY <1>2 DEF hostVars
  <2>4. /\ rxd' \in [0 .. (RxDataSize + PacketSize) -> Bytes]
        /\ \/ Received = << >> /\ Holds(h)'
           \/ \E g \in (h + 1) .. Len(Body(Current)) :
                /\ g = Lesser(h + PacketSize, Len(Body(Current)))
                /\ Len(Received) = g - h /\ Holds(g)'
    BY <1>1, <1>2, <2>2, <2>3, HoldsMore
  <2>5. ASSUME Received = << >>, Holds(h)' PROVE Holds(acc)'
    <3>1. acc' = h
      BY <1>1, <1>2, <2>1, <2>5 DEF U8
    <3> QED
      BY <2>5, <3>1
  <2> QED
    BY <2>1, <2>4, <2>5
<1>6. /\ Holds(acc)' /\ acc' \in Nat /\ dp' = acc' /\ bytes' \in Bytes
      /\ acc' <= 2 * PacketSize /\ bytes' <= PacketSize
      /\ acc' < MaxDataFieldSize => bytes' = 0
  <2>1. CASE Received = << >> /\ Holds(acc)'
    <3>1. bytes' = 0 /\ acc' = acc
      BY <1>1, <1>2, <2>1 DEF U8
    <3> QED
      BY <1>1, <1>2, <2>1, <3>1, Sizes DEF Bytes, MaxDataFieldSize
  <2>2. ASSUME NEW g \in (acc + 1) .. Len(Body(Current)),
               g = Lesser(acc + PacketSize, Len(Body(Current))),
               Len(Received) = g - acc, Holds(g)'
        PROVE  /\ Holds(acc)' /\ acc' \in Nat /\ dp' = acc' /\ bytes' \in Bytes
               /\ acc' <= 2 * PacketSize /\ bytes' <= PacketSize
               /\ acc' < MaxDataFieldSize => bytes' = 0
    <3>1. acc \in 0 .. 1
      BY <1>1 DEF MaxDataFieldSize
    <3>2. g >= 2 /\ g - acc <= PacketSize /\ g - acc \in 0 .. 32 /\ g <= PacketSize + 1
          /\ g \in Nat
      <4>1. PICK a \in {0, 1}, l \in Nat : a = acc /\ l = Len(Body(Current)) /\ l >= 4
        BY <1>3, <1>4, <3>1
      <4>2. PacketSize \in Nat /\ PacketSize >= 16 /\ PacketSize <= 32
        BY Sizes
      <4>3. g = Lesser(a + PacketSize, l)
        BY <2>2, <4>1
      <4>4. /\ g >= 2 /\ g - a <= PacketSize /\ g - a \in 0 .. 32 /\ g <= PacketSize + 1
            /\ g \in Nat
        BY <4>1, <4>2, <4>3 DEF Lesser
      <4> QED
        BY <4>1, <4>4
    <3>3. bytes' = g - acc
      <4>1. \A k \in 0 .. 32 : U8(0 + k) = k
        BY DEF U8
      <4> QED
        BY <1>1, <1>2, <2>2, <3>2, <4>1
    <3>4. acc' = g /\ dp' = g
      BY <1>1, <1>2, <3>1, <3>2, <3>3
    <3>5. Holds(acc)'
      BY <2>2, <3>4
    <3>6. g <= 2 * PacketSize /\ g - acc \in Bytes /\ ~(g < MaxDataFieldSize)
      BY <3>2, Sizes DEF Bytes, MaxDataFieldSize
    <3> QED
      BY <3>2, <3>3, <3>4, <3>5, <3>6
  <2> QED
    BY <1>5, <2>1, <2>2
<1>7. BaseInv'
  <2>1. /\ arr' \in [0 .. (DataArraySize + PacketSize) -> Bytes]
        /\ cur' \in Nat /\ dp' \in Nat \cup {Null} /\ nxt' \in Nat \cup {Null}
    BY <1>1, <1>2, <1>6 DEF BaseInv
  <2> QED
    BY <1>1, <1>2, <1>5, <1>6, <2>1, StepBase
<1>8. BinSizeInv' /\ pc' = "bin_size"
  BY <1>1, <1>2, <1>6 DEF BinSizeInv
<1> QED
  BY <1>7, <1>8, OnePart

(* The first two bytes of the body are the size of a BIN.                  *)
LEMMA SizeHeld ==
  ASSUME HostKeepsProtocol, BaseInv, cmd = BinStr, NEW h \in Nat, h >= 2, Holds(h)
  PROVE  /\ BinSize(rxd, 0) = 256 * Current.data[1] + Current.data[2]
         /\ ValidBinSize(BinSize(rxd, 0)) /\ BinSize(rxd, 0) \in Nat
         /\ BinSize(rxd, 0) <= MaxBin /\ BinSize(rxd, 0) % 2 = 0
         /\ Len(Current.data) = BinSize(rxd, 0) + 3
         /\ Len(Body(Current)) = BinSize(rxd, 0) + 4
         /\ Header(Current) = 5 /\ Len(Wire) = BinSize(rxd, 0) + 9
<1> DEFINE size == 256 * Current.data[1] + Current.data[2]
<1>1. Current \in Frames /\ Current.cmd = BinStr
  BY HoldsFacts
<1>2. /\ size \in Nat /\ size >= MinBin /\ size <= MaxBin /\ size % 2 = 0
      /\ Len(Current.data) = size + 3 /\ Len(Body(Current)) = size + 4
      /\ Header(Current) = 5 /\ Len(Wire) = size + 9
  BY <1>1, BinFacts DEF Wire
<1>3. \A k \in 1 .. Len(Current.data) : Body(Current)[k] = Current.data[k]
  BY <1>1, EncodeFacts
<1> HIDE DEF size
<1>4. rxd[0] = Current.data[1] /\ rxd[0 + 1] = Current.data[2]
  <2>1. 0 \in 0 .. (h - 1) /\ 1 \in 0 .. (h - 1)
    OBVIOUS
  <2>2. rxd[0] = Body(Current)[0 + 1] /\ rxd[1] = Body(Current)[1 + 1]
    BY <2>1 DEF Holds
  <2>3. 1 \in 1 .. Len(Current.data) /\ 2 \in 1 .. Len(Current.data)
    BY <1>2
  <2> QED
    BY <1>3, <2>2, <2>3
<1>5. At(rxd, 0) = rxd[0] /\ At(rxd, 0 + 1) = rxd[0 + 1]
  BY Sizes DEF At, BaseInv
<1>6. BinSize(rxd, 0) = size
  BY <1>4, <1>5 DEF BinSize, size
<1> QED
  BY <1>2, <1>6 DEF ValidBinSize, EvenNumber, size

LEMMA BinSizeCheckKeeps ==
  ASSUME HostKeepsProtocol, IInv, BinSizeCheck
  PROVE  IInv'
<1>1. /\ BaseInv /\ pc = "bin_size" /\ Holds(acc) /\ cmd = BinStr /\ dp = acc
      /\ acc >= 2 /\ acc \in Nat
  BY DEF BinSizeCheck, IInv, ParserInv, BinSizeInv, BaseInv, MaxDataFieldSize
<1>2. ValidBinSize(BinSize(rxd, 0))
  BY <1>1, SizeHeld
<1>3. /\ nxt' = dp /\ dp' = 0 /\ pc' = "dispatch"
      /\ UNCHANGED <<hostVars, ep1, arr, rxd, cmd, bytes, prev, acc, cur, bin, answers,
                     dispatched>>
  BY <1>2 DEF BinSizeCheck
<1>4. BaseInv'
  <2>1. /\ arr' \in [0 .. (DataArraySize + PacketSize) -> Bytes] /\ bytes' \in Bytes
        /\ rxd' \in [0 .. (RxDataSize + PacketSize) -> Bytes] /\ acc' \in Nat
        /\ cur' \in Nat /\ dp' \in Nat \cup {Null} /\ nxt' \in Nat \cup {Null}
    BY <1>1, <1>3 DEF BaseInv
  <2> QED
    BY <1>1, <1>3, <2>1, StepBase
<1>5. Holds(nxt)'
  <2>1. PICK h \in Nat : h = acc
    BY <1>1
  <2>2. Holds(h)'
    <3>1. Holds(h) /\ UNCHANGED <<outbox, ep1, sent, dispatched, cmd>>
          /\ \A k \in 0 .. (h - 1) : rxd'[k] = rxd[k]
      BY <1>1, <1>3, <2>1 DEF hostVars
    <3> QED
      BY <1>1, <3>1, StillHolds
  <2>3. nxt' = h
    BY <1>1, <1>3, <2>1
  <2> QED
    BY <2>2, <2>3
<1>6. DispatchInv'
  <2>1. Current' = Current /\ Current.rs /\ cmd = Current.cmd
    BY <1>1, <1>3, Unmoved DEF hostVars, Holds
  <2>2. nxt' = acc /\ nxt' \in Nat /\ nxt' >= MaxDataFieldSize /\ dp' = 0 /\ cmd' = BinStr
    BY <1>1, <1>3 DEF MaxDataFieldSize
  <2> QED
    BY <1>1, <1>3, <1>5, <2>1, <2>2 DEF DispatchInv
<1> QED
  BY <1>3, <1>4, <1>6, OnePart

(* The data of a command other than BIN ends at the first ETX.             *)
LEMMA BodyFacts ==
  ASSUME HostKeepsProtocol, NEW f \in Frames, f.rs, f.cmd # BinStr
  PROVE  /\ Len(Body(f)) \in Nat /\ Len(Body(f)) >= 1 /\ Body(f)[Len(Body(f))] = ETX
         /\ \A k \in 1 .. (Len(Body(f)) - 1) : Body(f)[k] # ETX /\ Body(f)[k] # NUL
<1>1. /\ f.data \in Seq(Bytes) /\ Len(Body(f)) = Len(f.data) + 1
      /\ Body(f)[Len(f.data) + 1] = ETX
      /\ \A k \in 1 .. Len(f.data) : Body(f)[k] = f.data[k]
  BY EncodeFacts
<1>2. \A k \in DOMAIN f.data : f.data[k] \notin {ETX, NUL}
  BY DEF HostKeepsProtocol
<1>3. Len(f.data) \in Nat /\ DOMAIN f.data = 1 .. Len(f.data)
  BY <1>1
<1>4. \A k \in 1 .. Len(f.data) : Body(f)[k] # ETX /\ Body(f)[k] # NUL
  BY <1>1, <1>2, <1>3
<1>5. Len(Body(f)) - 1 = Len(f.data) /\ Len(Body(f)) = Len(f.data) + 1
  BY <1>1, <1>3
<1> QED
  BY <1>1, <1>3, <1>4, <1>5

(* Where ETX is in rx_data, once the first h bytes of the data are there.  *)
LEMMA EtxAt ==
  ASSUME HostKeepsProtocol, BaseInv, NEW h \in Nat, Holds(h), cmd # BinStr,
         NEW from \in 0 .. h
  PROVE  /\ h < Len(Body(Current)) /\ from = 0 => FirstIn(rxd, from, {ETX}) \in Nat
                                                  /\ FirstIn(rxd, from, {ETX}) >= h
         /\ h = Len(Body(Current)) /\ from < h => FirstIn(rxd, from, {ETX}) = h - 1
<1> DEFINE L == Len(Body(Current))
<1>1. Current \in Frames /\ Current.rs /\ Current.cmd # BinStr /\ h <= L /\ L \in Nat
  BY HoldsFacts
<1>2. /\ L >= 1 /\ Body(Current)[L] = ETX
      /\ \A k \in 1 .. (L - 1) : Body(Current)[k] # ETX
      /\ L <= RxDataSize
  BY <1>1, BodyFacts, BodyFits
<1>3. \A k \in 0 .. (h - 1) : rxd[k] = Body(Current)[k + 1]
  BY DEF Holds
<1>4. PICK M \in Nat : M = RxDataSize + PacketSize
  BY Sizes
<1>5. rxd \in [0 .. M -> Bytes] /\ L <= M
  BY <1>1, <1>2, <1>4, Sizes DEF BaseInv
<1> HIDE DEF L
<1>6. \A k \in 0 .. (h - 1) : k < L - 1 => rxd[k] \notin {ETX}
  <2> SUFFICES ASSUME NEW k \in 0 .. (h - 1), k < L - 1 PROVE rxd[k] \notin {ETX}
    OBVIOUS
  <2>1. k + 1 \in 1 .. (L - 1)
    BY <1>1
  <2> QED
    BY <1>2, <1>3, <2>1
<1>7. ASSUME h < L, from = 0
      PROVE  FirstIn(rxd, from, {ETX}) \in Nat /\ FirstIn(rxd, from, {ETX}) >= h
  <2>1. \A j \in 0 .. (h - 1) : rxd[j] \notin {ETX}
    BY <1>1, <1>6, <1>7
  <2>2. h <= M + 1
    BY <1>1, <1>5
  <2>3. 0 \in Nat
    OBVIOUS
  <2>4. FirstIn(rxd, 0, {ETX}) \in Nat /\ (h > 0 => FirstIn(rxd, 0, {ETX}) >= h)
    BY <1>5, <2>1, <2>2, <2>3, FirstBehind
  <2> QED
    BY <1>7, <2>4
<1>8. ASSUME h = L, from < h
      PROVE  FirstIn(rxd, from, {ETX}) = h - 1
  <2>1. h - 1 \in from .. M /\ h - 1 \in 0 .. (h - 1) /\ h - 1 + 1 = L
    BY <1>1, <1>2, <1>5, <1>8
  <2>2. rxd[h - 1] \in {ETX}
    BY <1>2, <1>3, <2>1
  <2>3. \A j \in from .. ((h - 1) - 1) : rxd[j] \notin {ETX}
    BY <1>1, <1>6, <1>8
  <2>4. from \in Nat
    OBVIOUS
  <2> QED
    BY <1>5, <2>1, <2>2, <2>3, <2>4, FirstFound
<1> QED
  BY <1>7, <1>8 DEF L

LEMMA DataKeeps ==
  ASSUME HostKeepsProtocol, IInv, Data
  PROVE  IInv'
<1> DEFINE L == Len(Body(Current))
           etx == FirstIn(rxd, 0, {ETX})
<1>1. /\ BaseInv /\ pc = "data" /\ Holds(acc) /\ cmd # BinStr /\ dp = acc /\ acc \in Nat
  BY DEF Data, IInv, ParserInv, DataInv, BaseInv
<1>2. UNCHANGED <<hostVars, ep1, arr, rxd, cmd, bytes, acc, cur, nxt, bin, answers, dispatched>>
  BY DEF Data
<1>3. Current \in Frames /\ Current.rs /\ L \in Nat /\ acc <= L /\ Current.cmd # BinStr
  BY <1>1, HoldsFacts
<1>4. Current' = Current
  BY <1>2, Unmoved DEF hostVars
<1>5. PICK h \in Nat : h = acc
  BY <1>1
<1>6. Holds(h)'
  <2>1. Holds(h) /\ UNCHANGED <<outbox, ep1, sent, dispatched, cmd>>
        /\ \A k \in 0 .. (h - 1) : rxd'[k] = rxd[k]
    BY <1>1, <1>2, <1>5 DEF hostVars
  <2> QED
    BY <1>1, <2>1, StillHolds
<1>7. ASSUME prev' = 0, dp' \in Nat PROVE BaseInv'
  <2>1. /\ arr' \in [0 .. (DataArraySize + PacketSize) -> Bytes] /\ bytes' \in Bytes
        /\ rxd' \in [0 .. (RxDataSize + PacketSize) -> Bytes] /\ acc' \in Nat
        /\ cur' \in Nat /\ dp' \in Nat \cup {Null} /\ nxt' \in Nat \cup {Null}
    BY <1>1, <1>2, <1>7 DEF BaseInv
  <2>2. prev' = prev
    BY <1>1, <1>7 DEF BaseInv
  <2> QED
    BY <1>1, <1>2, <2>1, <2>2, StepBase
<1>8. CASE h = L
  <2>1. L >= 1
    BY <1>3, BodyFacts
  <2>2. etx = h - 1
    <3>1. 0 \in 0 .. h /\ 0 < h
      BY <1>8, <2>1
    <3> QED
      BY <1>1, <1>5, <1>8, <3>1, EtxAt
  <2>3. acc - etx = 1 /\ etx + 1 = L /\ etx < acc
    BY <1>5, <1>8, <2>2
  <2>4. Behind(1) = 0
    BY Counted
  <2>5. prev' = 0 /\ dp' = L /\ pc' = "leftover"
    BY <2>3, <2>4 DEF Data
  <2>6. LeftoverInv'
    <3>1. Body(Current)' = Body(Current)
      BY <1>4 DEF Body
    <3>2. Holds(Len(Body(Current)))'
      BY <1>6, <1>8, <3>1
    <3> QED
      BY <1>1, <1>2, <2>5, <3>1, <3>2 DEF LeftoverInv
  <2> QED
    BY <1>3, <1>7, <2>5, <2>6, OnePart
<1>9. CASE h < L
  <2>1. etx \in Nat /\ etx >= h
    <3>1. 0 \in 0 .. h
      OBVIOUS
    <3> QED
      BY <1>1, <1>5, <1>9, <3>1, EtxAt
  <2>2. ~(etx < acc)
    BY <1>5, <2>1
  <2>3. prev' = 0 /\ dp' = acc /\ pc' = "more_data"
    BY <2>2 DEF Data
  <2>4. MoreDataInv'
    <3>1. Len(Body(Current))' = L /\ acc' = h
      BY <1>2, <1>4, <1>5 DEF Body
    <3>2. Holds(acc)'
      BY <1>6, <3>1
    <3> QED
      BY <1>1, <1>2, <1>9, <2>3, <3>1, <3>2 DEF MoreDataInv
  <2> QED
    BY <1>1, <1>7, <2>3, <2>4, OnePart
<1> QED
  BY <1>3, <1>5, <1>8, <1>9

LEMMA MoreDataKeeps ==
  ASSUME HostKeepsProtocol, IInv, MoreData
  PROVE  IInv'
<1>1. /\ BaseInv /\ pc = "more_data" /\ Holds(acc) /\ cmd # BinStr /\ dp = acc /\ acc \in Nat
      /\ acc < Len(Body(Current))
  BY DEF MoreData, IInv, ParserInv, MoreDataInv, BaseInv
<1>2. /\ UsbRx /\ rxd' = Store(rxd, dp, Received) /\ bytes' = Len(Received)
      /\ pc' = IF Received = << >> THEN "more_data" ELSE "scan"
      /\ UNCHANGED <<hostVars, arr, cmd, prev, acc, cur, dp, nxt, bin, answers, dispatched>>
  BY DEF MoreData
<1>3. PICK h \in Nat, b \in Nat, l \in Nat :
        h = acc /\ b = Header(Current) /\ l = Len(Body(Current))
  BY <1>1, HoldsFacts
<1>4. /\ Current \in Frames /\ Current.rs /\ Current.cmd # BinStr /\ Len(Wire) = b + l
      /\ Reading(b + h)
  BY <1>1, <1>3, HoldsFacts
<1>5. Lesser(h + PacketSize, l) = l /\ l - h <= PacketSize
  <2>1. Len(Wire) <= b + h + PacketSize
    BY <1>4 DEF Reading, Boundary, Wire
  <2> QED
    BY <1>1, <1>3, <1>4, <2>1, Sizes DEF Lesser
<1>6. Current' = Current
  BY <1>2 DEF Current, Count, hostVars
<1>7. /\ rxd' \in [0 .. (RxDataSize + PacketSize) -> Bytes]
      /\ \/ Received = << >> /\ Holds(h)'
         \/ Len(Received) = l - h /\ Holds(l)'
  <2>1. h < Len(Body(Current)) /\ rxd' = Store(rxd, h, Received) /\ Holds(h)
        /\ UNCHANGED <<outbox, sent, dispatched, cmd>>
    BY <1>1, <1>2, <1>3 DEF hostVars
  <2>2. /\ rxd' \in [0 .. (RxDataSize + PacketSize) -> Bytes]
        /\ \/ Received = << >> /\ Holds(h)'
           \/ \E g \in (h + 1) .. Len(Body(Current)) :
                /\ g = Lesser(h + PacketSize, Len(Body(Current)))
                /\ Len(Received) = g - h /\ Holds(g)'
    BY <1>1, <1>2, <2>1, HoldsMore
  <2>3. ASSUME NEW g, g = Lesser(h + PacketSize, Len(Body(Current))),
               Len(Received) = g - h, Holds(g)'
        PROVE  Len(Received) = l - h /\ Holds(l)'
    <3>1. g = l
      BY <1>3, <1>5, <2>3
    <3> QED
      BY <2>3, <3>1
  <2> QED
    BY <2>2, <2>3
<1>8. ASSUME bytes' \in Bytes PROVE BaseInv'
  <2>1. /\ arr' \in [0 .. (DataArraySize + PacketSize) -> Bytes] /\ acc' \in Nat
        /\ cur' \in Nat /\ dp' \in Nat \cup {Null} /\ nxt' \in Nat \cup {Null}
    BY <1>1, <1>2 DEF BaseInv
  <2> QED
    BY <1>1, <1>2, <1>7, <1>8, <2>1, StepBase
<1>9. CASE Received = << >> /\ Holds(h)'
  <2>1. bytes' = 0 /\ pc' = "more_data"
    BY <1>2, <1>9
  <2>2. MoreDataInv'
    <3>1. acc' = h /\ Len(Body(Current))' = Len(Body(Current))
      BY <1>2, <1>3, <1>6 DEF Body
    <3>2. Holds(acc)'
      BY <1>9, <3>1
    <3> QED
      BY <1>1, <1>2, <3>1, <3>2 DEF MoreDataInv
  <2>3. 0 \in Bytes
    BY DEF Bytes
  <2> QED
    BY <1>8, <2>1, <2>2, <2>3, OnePart
<1>10. CASE Len(Received) = l - h /\ Holds(l)'
  <2>1. l - h > 0 /\ l - h <= 32
    BY <1>1, <1>3, <1>5, Sizes
  <2>2. bytes' = l - h /\ pc' = "scan" /\ bytes' \in Bytes
    <3>1. Received # << >> /\ l - h \in Bytes
      BY <1>10, <2>1 DEF Bytes
    <3> QED
      BY <1>2, <1>10, <3>1
  <2>3. ScanInv'
    <3>1. l = Len(Body(Current))'
      BY <1>3, <1>6 DEF Body
    <3>2. Holds(Len(Body(Current)))'
      BY <1>10, <3>1
    <3>3. dp' = h /\ dp' + bytes' = l /\ bytes' \in 1 .. PacketSize
      BY <1>1, <1>2, <1>3, <1>5, <2>1, <2>2, Sizes
    <3> QED
      BY <1>1, <1>2, <3>1, <3>2, <3>3 DEF ScanInv
  <2> QED
    BY <1>8, <2>2, <2>3, OnePart
<1> QED
  BY <1>7, <1>9, <1>10

LEMMA ScanKeeps ==
  ASSUME HostKeepsProtocol, IInv, Scan
  PROVE  IInv'
<1> DEFINE etx == FirstIn(rxd, dp, {ETX})
<1>1. /\ BaseInv /\ pc = "scan" /\ Holds(Len(Body(Current))) /\ cmd # BinStr
      /\ dp \in Nat /\ bytes > 0 /\ dp + bytes = Len(Body(Current)) /\ bytes \in 0 .. 255
      /\ prev = 0
  BY DEF Scan, IInv, ParserInv, ScanInv, BaseInv, Bytes
<1>2. PICK h \in Nat : h = Len(Body(Current))
  BY <1>1
<1>3. etx = h - 1
  <2>1. dp \in 0 .. h /\ dp < h /\ Holds(h)
    BY <1>1, <1>2
  <2> QED
    BY <1>1, <1>2, <2>1, EtxAt
<1> DEFINE left == IF bytes = 0 THEN 256 ELSE bytes
<1>4. left = bytes /\ etx < dp + left /\ left - (etx - dp) = 1 /\ etx + 1 = h
  BY <1>1, <1>2, <1>3
<1> HIDE DEF etx, left
<1>5. /\ bytes' = U8(left - (etx - dp))
      /\ prev' = IF bytes' # 0 THEN Behind(bytes') ELSE prev
      /\ dp' = etx + 1 /\ pc' = "leftover" /\ UNCHANGED <<ep1, rxd>>
      /\ UNCHANGED <<hostVars, arr, cmd, acc, cur, nxt, bin, answers, dispatched>>
  BY <1>4 DEF Scan, etx, left
<1>6. bytes' = 1 /\ prev' = prev /\ dp' = h
  <2>1. U8(1) = 1 /\ Behind(1) = 0
    BY Counted DEF U8
  <2> QED
    BY <1>1, <1>4, <1>5, <2>1
<1>7. BaseInv'
  <2>1. /\ arr' \in [0 .. (DataArraySize + PacketSize) -> Bytes] /\ bytes' \in Bytes
        /\ rxd' \in [0 .. (RxDataSize + PacketSize) -> Bytes] /\ acc' \in Nat
        /\ cur' \in Nat /\ dp' \in Nat \cup {Null} /\ nxt' \in Nat \cup {Null}
    BY <1>1, <1>5, <1>6 DEF BaseInv, Bytes
  <2> QED
    BY <1>1, <1>5, <1>6, <2>1, StepBase
<1>8. LeftoverInv'
  <2>1. Holds(h)'
    <3>1. Holds(h) /\ UNCHANGED <<outbox, ep1, sent, dispatched, cmd>>
          /\ \A k \in 0 .. (h - 1) : rxd'[k] = rxd[k]
      BY <1>1, <1>2, <1>5 DEF hostVars
    <3> QED
      BY <1>1, <3>1, StillHolds
  <2>2. Current' = Current
    BY <1>5 DEF Current, Count, hostVars
  <2>3. h = Len(Body(Current))'
    BY <1>2, <2>2 DEF Body
  <2>4. Holds(Len(Body(Current)))'
    BY <2>1, <2>3
  <2> QED
    BY <1>1, <1>5, <1>6, <2>3, <2>4 DEF LeftoverInv
<1> QED
  BY <1>5, <1>7, <1>8, OnePart

LEMMA LeftoverKeeps ==
  ASSUME HostKeepsProtocol, IInv, Leftover
  PROVE  IInv'
<1>1. /\ BaseInv /\ pc = "leftover" /\ Holds(Len(Body(Current))) /\ cmd # BinStr
      /\ dp = Len(Body(Current)) /\ prev = 0
  BY DEF Leftover, IInv, ParserInv, LeftoverInv, BaseInv
<1>2. PICK h \in Nat : h = Len(Body(Current)) /\ h <= RxDataSize /\ dp = h /\ Holds(h)
      /\ Current.rs /\ cmd = Current.cmd
  <2>1. Current \in Frames /\ Current.rs /\ Len(Body(Current)) \in Nat /\ cmd = Current.cmd
    BY <1>1, HoldsFacts DEF Holds
  <2> QED
    BY <1>1, <2>1, BodyFits
<1>3. /\ arr' = Store(arr, 0, Slice(rxd, dp, dp + prev))
      /\ rxd' = Store(rxd, dp + prev, <<NUL>>) /\ dp' = 0 /\ pc' = "dispatch"
      /\ UNCHANGED <<hostVars, ep1, cmd, bytes, prev, acc, cur, nxt, bin, answers, dispatched>>
  BY DEF Leftover
<1>4. PICK N \in Nat, M \in Nat : N = DataArraySize + PacketSize /\ M = RxDataSize + PacketSize
  BY Sizes
<1>5. arr \in [0 .. N -> Bytes] /\ rxd \in [0 .. M -> Bytes] /\ h < M
  BY <1>1, <1>2, <1>4, Sizes DEF BaseInv
<1>6. arr' \in [0 .. N -> Bytes]
  <2>1. h + prev = h /\ h \in h .. (M + 1) /\ 0 \in Nat
    BY <1>1, <1>5
  <2>2. Store(arr, 0, Slice(rxd, h, h)) \in [0 .. N -> Bytes]
    BY <1>5, <2>1, CopyFacts
  <2> QED
    BY <1>2, <1>3, <2>1, <2>2
<1>7. /\ rxd' \in [0 .. M -> Bytes] /\ rxd'[h] = NUL
      /\ \A k \in 0 .. (h - 1) : rxd'[k] = rxd[k]
  <2>1. <<NUL>> \in Seq(Bytes) /\ Len(<<NUL>>) = 1 /\ <<NUL>>[1] = NUL
    BY ControlBytes
  <2>2. rxd' = Store(rxd, h, <<NUL>>)
    BY <1>1, <1>2, <1>3
  <2>3. /\ rxd' \in [0 .. M -> Bytes]
        /\ \A k \in 0 .. M : rxd'[k] = IF h <= k /\ k < h + Len(<<NUL>>)
                                        THEN <<NUL>>[k - h + 1] ELSE rxd[k]
    BY <1>5, <2>1, <2>2, StoreFacts
  <2>4. h \in 0 .. M /\ h <= h /\ h < h + 1 /\ h - h + 1 = 1
        /\ \A k \in 0 .. (h - 1) : k \in 0 .. M /\ ~(h <= k)
    BY <1>5
  <2> QED
    BY <2>1, <2>3, <2>4
<1>8. BaseInv'
  <2>1. bytes' \in Bytes /\ acc' \in Nat /\ cur' \in Nat /\ dp' \in Nat \cup {Null}
        /\ nxt' \in Nat \cup {Null}
    BY <1>1, <1>3 DEF BaseInv
  <2> QED
    BY <1>1, <1>3, <1>4, <1>6, <1>7, <2>1, StepBase
<1>9. DispatchInv'
  <2>1. Holds(h)'
    <3>1. UNCHANGED <<outbox, ep1, sent, dispatched, cmd>>
      BY <1>3 DEF hostVars
    <3> QED
      BY <1>1, <1>2, <1>7, <3>1, StillHolds
  <2>2. Current' = Current /\ cmd' = cmd
    BY <1>3 DEF Current, Count, hostVars
  <2>3. h = Len(Body(Current))'
    BY <1>2, <2>2 DEF Body
  <2>4. Holds(Len(Body(Current)))' /\ rxd'[Len(Body(Current))'] = NUL
    BY <1>7, <2>1, <2>3
  <2> QED
    BY <1>1, <1>2, <1>3, <2>2, <2>4 DEF DispatchInv
<1> QED
  BY <1>3, <1>8, <1>9, OnePart

(* A frame is handed to its handler, which answers it.                     *)
LEMMA FrameDone ==
  ASSUME HostKeepsProtocol, BaseInv,
         UNCHANGED <<hostVars, ep1, arr, bytes, prev, acc, cur, nxt>>,
         dispatched' = Append(dispatched, Handed(Current)), answers' = answers + 1,
         pc' = "poll", cmd' = << >>, dp' = Null,
         rxd' \in [0 .. (RxDataSize + PacketSize) -> Bytes],
         NEW n \in Nat, Reading(n), \A i \in (n + 1) .. Len(Wire) : Wire[i] # STX
  PROVE  IInv'
<1>1. UNCHANGED <<sent, outbox, ep1>>
  BY DEF hostVars
<1>2. Between'
  BY <1>1, Finished
<1>3. PollInv'
  BY <1>2 DEF PollInv
<1>4. /\ Count \in Nat /\ Count < Len(sent) /\ Current \in Frames /\ Len(sent) \in Nat
      /\ dispatched \in Seq({Handed(f) : f \in Frames}) /\ Count = Len(dispatched)
      /\ \A k \in 1 .. Count : dispatched[k] = Handed(sent[k])
  BY PositionFacts DEF Reading, BaseInv, Count
<1>5. dispatched' \in Seq({Handed(f) : f \in Frames}) /\ Count' = Count + 1
  <2> DEFINE H == {Handed(f) : f \in Frames}
  <2>1. Handed(Current) \in H /\ dispatched \in Seq(H)
    BY <1>4
  <2> HIDE DEF H
  <2>2. dispatched' \in Seq(H) /\ Len(dispatched') = Len(dispatched) + 1
    BY <2>1
  <2> QED
    BY <1>4, <2>2 DEF H, Count
<1>6. \A k \in 1 .. (Count + 1) : dispatched'[k] = Handed(sent[k])
  <2> SUFFICES ASSUME NEW k \in 1 .. (Count + 1)
               PROVE  dispatched'[k] = Handed(sent[k])
    OBVIOUS
  <2>1. CASE k = Count + 1
    BY <1>4, <2>1 DEF Current
  <2>2. CASE k \in 1 .. Count
    BY <1>4, <2>2
  <2>3. k = Count + 1 \/ k \in 1 .. Count
    BY <1>4
  <2> QED
    BY <2>1, <2>2, <2>3
<1>7. BaseInv'
  <2>1. /\ sent' \in Seq(Frames) /\ outbox' \in Queues
        /\ ep1' \in [int : BOOLEAN, err : BOOLEAN, stall : BOOLEAN, bytes : Packets]
        /\ arr' \in [0 .. (DataArraySize + PacketSize) -> Bytes]
        /\ bytes' \in Bytes /\ prev' = 0 /\ acc' \in Nat /\ cur' \in Nat
        /\ dp' \in Nat \cup {Null} /\ nxt' \in Nat \cup {Null}
    BY <1>1 DEF BaseInv
  <2>2. answers' = Count' /\ Count' \in 0 .. Len(sent')
        /\ \A k \in 1 .. Count' : dispatched'[k] = Handed(sent'[k])
    <3>1. answers = Count /\ sent' = sent
      BY <1>1 DEF BaseInv
    <3> QED
      BY <1>4, <1>5, <1>6, <3>1
  <2> QED
    BY <1>5, <2>1, <2>2 DEF BaseInv
<1> QED
  BY <1>3, <1>7, OnePart

(* The data of a command other than BIN is handed over as it was sent.     *)
LEMMA StringFacts ==
  ASSUME HostKeepsProtocol, BaseInv, cmd # BinStr,
         Holds(Len(Body(Current))), rxd[Len(Body(Current))] = NUL
  PROVE  CString(rxd) = Body(Current)
<1>1. PICK h \in Nat : h = Len(Body(Current)) /\ h <= RxDataSize /\ Holds(h) /\ h >= 1
  <2>1. Current \in Frames /\ Current.rs /\ Len(Body(Current)) \in Nat
    <3>1. Count < Len(sent) /\ Current.rs
      BY DEF Holds, Reading
    <3>2. Current \in Frames
      BY <3>1, PositionFacts
    <3> QED
      BY <3>1, <3>2, BodyFits
  <2> QED
    BY <2>1, BodyFits
<1>2. /\ Current \in Frames /\ Current.rs /\ Current.cmd # BinStr /\ Body(Current) \in Seq(Bytes)
  BY <1>1, HoldsFacts
<1>3. \A k \in 1 .. h : Body(Current)[k] # NUL
  <2>1. Body(Current)[h] = ETX /\ \A k \in 1 .. (h - 1) : Body(Current)[k] # NUL
    BY <1>1, <1>2, BodyFacts
  <2>2. ETX # NUL
    BY DEF ETX, NUL
  <2>3. \A k \in 1 .. h : k = h \/ k \in 1 .. (h - 1)
    BY <1>1
  <2> QED
    BY <2>1, <2>2, <2>3
<1>4. PICK M \in Nat : M = RxDataSize + PacketSize
  BY Sizes
<1>5. rxd \in [0 .. M -> Bytes] /\ h \in 0 .. M
  BY <1>1, <1>4, Sizes DEF BaseInv
<1>6. \A k \in 0 .. (h - 1) : rxd[k] = Body(Current)[k + 1]
  BY <1>1 DEF Holds
<1>7. FirstIn(rxd, 0, {NUL}) = h
  <2>1. \A j \in 0 .. (h - 1) : rxd[j] \notin {NUL}
    BY <1>3, <1>6
  <2>2. rxd[h] \in {NUL} /\ 0 \in Nat
    BY <1>1
  <2> QED
    BY <1>5, <2>1, <2>2, FirstFound
<1>8. /\ Slice(rxd, 0, h) \in Seq(Bytes) /\ Len(Slice(rxd, 0, h)) = h
      /\ \A k \in 1 .. h : Slice(rxd, 0, h)[k] = rxd[k - 1]
  <2>1. 0 \in Nat /\ h \in 0 .. (M + 1) /\ h - 0 = h
    BY <1>5
  <2>2. /\ Slice(rxd, 0, h) \in Seq(Bytes) /\ Len(Slice(rxd, 0, h)) = h - 0
        /\ \A k \in 1 .. (h - 0) : Slice(rxd, 0, h)[k] = rxd[0 + k - 1]
    BY <1>5, <2>1, SliceFacts
  <2>3. \A k \in 1 .. h : 0 + k - 1 = k - 1
    OBVIOUS
  <2> QED
    BY <2>1, <2>2, <2>3
<1>9. \A k \in 1 .. h : Slice(rxd, 0, h)[k] = Body(Current)[k]
  <2> SUFFICES ASSUME NEW k \in 1 .. h PROVE Slice(rxd, 0, h)[k] = Body(Current)[k]
    OBVIOUS
  <2>1. k - 1 \in 0 .. (h - 1) /\ (k - 1) + 1 = k
    OBVIOUS
  <2> QED
    BY <1>6, <1>8, <2>1
<1>10. Slice(rxd, 0, h) = Body(Current)
  BY <1>1, <1>2, <1>8, <1>9, SeqEqual
<1> QED
  BY <1>7, <1>10 DEF CString

LEMMA DispatchKeeps ==
  ASSUME HostKeepsProtocol, IInv, Dispatch
  PROVE  IInv'
<1>1. /\ BaseInv /\ pc = "dispatch" /\ cmd = Current.cmd /\ cmd # BinStr
      /\ Count < Len(sent) /\ Current \in Frames
      /\ ~Current.rs => dp = Null /\ Reading(Len(Wire))
      /\ Current.rs => dp = 0
      /\ Current.rs => Holds(Len(Body(Current))) /\ rxd[Len(Body(Current))] = NUL
  BY AtWork DEF Dispatch, IInv, ParserInv, DispatchInv
<1>2. Current \in [cmd : Seq(Bytes), rs : BOOLEAN, data : Seq(Bytes)]
      /\ (~Current.rs => Current.data = << >>)
  BY <1>1 DEF HostKeepsProtocol
<1>3. /\ dispatched' = Append(dispatched,
           [cmd |-> cmd, rs |-> dp # Null, data |-> IF dp = Null THEN << >> ELSE CString(rxd)])
      /\ answers' = answers + 1 /\ pc' = "poll" /\ cmd' = << >> /\ dp' = Null
      /\ UNCHANGED <<hostVars, ep1, arr, rxd, bytes, prev, acc, cur, nxt, bin>>
  BY DEF Dispatch
<1>4. [cmd |-> cmd, rs |-> dp # Null, data |-> IF dp = Null THEN << >> ELSE CString(rxd)]
        = Handed(Current)
  <2>1. CASE Current.rs
    <3>1. CString(rxd) = Append(Current.data, ETX) /\ dp # Null
      BY <1>1, <2>1, StringFacts DEF Body, Null
    <3>2. Handed(Current) = [Current EXCEPT !.data = Append(Current.data, ETX)]
      BY <1>1, <2>1 DEF Handed
    <3> QED
      BY <1>1, <1>2, <2>1, <3>1, <3>2
  <2>2. CASE ~Current.rs
    <3>1. dp = Null
      BY <1>1, <2>2
    <3>2. Handed(Current) = [Current EXCEPT !.data = Current.data]
      BY <1>1, <2>2 DEF Handed
    <3> QED
      BY <1>1, <1>2, <2>2, <3>1, <3>2
  <2> QED
    BY <2>1, <2>2
<1>5. Reading(Len(Wire)) /\ Len(Wire) \in Nat
  <2>1. Len(Wire) \in Nat /\ Len(Body(Current)) \in Nat
    BY <1>1, PositionFacts, EncodeFacts
  <2>2. CASE Current.rs
    <3>1. Len(Wire) = Header(Current) + Len(Body(Current))
      BY <1>1, <2>2, EncodeFacts DEF Wire
    <3> QED
      BY <1>1, <2>1, <2>2, <3>1 DEF Holds
  <2> QED
    BY <1>1, <2>1, <2>2
<1>6. \A i \in (Len(Wire) + 1) .. Len(Wire) : Wire[i] # STX
  BY <1>5
<1>7. rxd' \in [0 .. (RxDataSize + PacketSize) -> Bytes]
  BY <1>1, <1>3 DEF BaseInv
<1> QED
  BY <1>1, <1>3, <1>4, <1>5, <1>6, <1>7, FrameDone

LEMMA DispatchBinKeeps ==
  ASSUME HostKeepsProtocol, IInv, DispatchBin
  PROVE  IInv'
<1>1. /\ BaseInv /\ pc = "dispatch" /\ cmd = Current.cmd /\ cmd = BinStr
      /\ Count < Len(sent) /\ Current \in Frames
      /\ Current.rs => dp = 0
      /\ nxt \in Nat /\ nxt >= 2 /\ Holds(nxt)
  BY AtWork DEF DispatchBin, IInv, ParserInv, DispatchInv, MaxDataFieldSize
<1>2. dp = 0
  BY <1>1 DEF Holds
<1>3. /\ bin' = [size  |-> BinSize(rxd, dp), src |-> dp + MaxDataFieldSize, to |-> nxt,
                 total |-> IF nxt < dp + MaxDataFieldSize THEN 2 ^ 16
                           ELSE nxt - (dp + MaxDataFieldSize)]
      /\ pc' = "bin_data"
      /\ UNCHANGED <<hostVars, ep1, arr, rxd, cmd, bytes, prev, acc, cur, dp, nxt, answers,
                     dispatched>>
  BY DEF DispatchBin
<1>4. bin' = [size |-> BinSize(rxd, 0), src |-> MaxDataFieldSize, to |-> nxt,
              total |-> nxt - MaxDataFieldSize]
  <2>1. dp + MaxDataFieldSize = MaxDataFieldSize /\ ~(nxt < dp + MaxDataFieldSize)
    BY <1>1, <1>2 DEF MaxDataFieldSize
  <2>2. bin' = [size |-> BinSize(rxd, dp), src |-> dp + MaxDataFieldSize, to |-> nxt,
                total |-> nxt - (dp + MaxDataFieldSize)]
    BY <1>3, <2>1, Zenon
  <2> QED
    BY <1>2, <2>1, <2>2, Zenon
<1>5. BaseInv'
  <2>1. /\ arr' \in [0 .. (DataArraySize + PacketSize) -> Bytes] /\ bytes' \in Bytes
        /\ rxd' \in [0 .. (RxDataSize + PacketSize) -> Bytes] /\ acc' \in Nat
        /\ cur' \in Nat /\ dp' \in Nat \cup {Null} /\ nxt' \in Nat \cup {Null}
    BY <1>1, <1>3 DEF BaseInv
  <2> QED
    BY <1>1, <1>3, <2>1, StepBase
<1>6. Holds(bin.to)'
  <2>1. PICK h \in Nat : h = nxt
    BY <1>1
  <2>2. Holds(h)'
    <3>1. Holds(h) /\ UNCHANGED <<outbox, ep1, sent, dispatched, cmd>>
          /\ \A k \in 0 .. (h - 1) : rxd'[k] = rxd[k]
      BY <1>1, <1>3, <2>1 DEF hostVars
    <3> QED
      BY <1>1, <3>1, StillHolds
  <2>3. bin'.to = h
    BY <1>4, <2>1
  <2> QED
    BY <2>2, <2>3
<1>7. BinDataInv'
  <2>1. bin'.to = nxt /\ rxd' = rxd /\ cmd' = cmd
    BY <1>3, <1>4
  <2>2. bin' = [size |-> BinSize(rxd', 0), src |-> MaxDataFieldSize, to |-> bin'.to,
                total |-> bin'.to - MaxDataFieldSize]
    BY <1>4, <2>1, Zenon
  <2>3. bin'.to \in Nat /\ bin'.to >= MaxDataFieldSize /\ cmd' = BinStr
    BY <1>1, <2>1 DEF MaxDataFieldSize
  <2>4. BinSize(rxd', 0) = BinSize(rxd, 0)'
    BY DEF BinSize, At
  <2> QED
    BY <1>6, <2>2, <2>3, <2>4, Zenon DEF BinDataInv
<1> QED
  BY <1>3, <1>5, <1>7, OnePart

LEMMA BinReceiveKeeps ==
  ASSUME HostKeepsProtocol, IInv, BinReceive
  PROVE  IInv'
<1>1. /\ BaseInv /\ pc = "bin_data" /\ Holds(bin.to) /\ cmd = BinStr
      /\ bin = [size |-> BinSize(rxd, 0), src |-> MaxDataFieldSize, to |-> bin.to,
                total |-> bin.to - MaxDataFieldSize]
      /\ bin.to \in Nat /\ bin.to >= 2 /\ bin.total < bin.size
  BY DEF BinReceive, IInv, ParserInv, BinDataInv, MaxDataFieldSize
<1>2. /\ UsbRx /\ rxd' = Store(rxd, bin.to, Received)
      /\ bin' = [bin EXCEPT !.total = @ + Len(Received), !.to = @ + Len(Received)]
      /\ UNCHANGED <<hostVars, pc, arr, cmd, bytes, prev, acc, cur, dp, nxt, answers,
                     dispatched>>
  BY DEF BinReceive
<1>3. PICK h \in Nat : h = bin.to /\ h >= 2 /\ Holds(h)
  BY <1>1
<1>4. /\ BinSize(rxd, 0) \in Nat /\ Len(Body(Current)) = BinSize(rxd, 0) + 4
  BY <1>1, <1>3, SizeHeld
<1>5. bin.total = h - 2 /\ bin.size = BinSize(rxd, 0) /\ bin.src = MaxDataFieldSize
  <2>1. bin.total = bin.to - MaxDataFieldSize /\ bin.size = BinSize(rxd, 0)
        /\ bin.src = MaxDataFieldSize
    BY <1>1
  <2> QED
    BY <1>3, <2>1 DEF MaxDataFieldSize
<1>6. h < Len(Body(Current))
  BY <1>1, <1>3, <1>4, <1>5
<1>7. /\ rxd' \in [0 .. (RxDataSize + PacketSize) -> Bytes]
      /\ \A k \in 0 .. (h - 1) : rxd'[k] = rxd[k]
      /\ \/ Received = << >> /\ Holds(h)'
         \/ \E g \in (h + 1) .. Len(Body(Current)) :
              /\ g = Lesser(h + PacketSize, Len(Body(Current)))
              /\ Len(Received) = g - h /\ Holds(g)'
  <2>1. UNCHANGED <<outbox, sent, dispatched, cmd>> /\ rxd' = Store(rxd, h, Received)
    BY <1>2, <1>3 DEF hostVars
  <2> QED
    BY <1>1, <1>2, <1>3, <1>6, <2>1, HoldsMore
<1>8. PICK g \in Nat : g >= h /\ Len(Received) = g - h /\ Holds(g)'
  <2>1. Len(Body(Current)) \in Nat
    BY <1>4
  <2>2. CASE Received = << >> /\ Holds(h)'
    <3>1. Len(Received) = h - h /\ h >= h
      BY <2>2
    <3> QED
      BY <2>2, <3>1
  <2>3. CASE \E g \in (h + 1) .. Len(Body(Current)) : Len(Received) = g - h /\ Holds(g)'
    BY <2>1, <2>3
  <2> QED
    BY <1>7, <2>2, <2>3
<1>9. bin' = [size |-> BinSize(rxd, 0), src |-> MaxDataFieldSize, to |-> g,
              total |-> g - MaxDataFieldSize]
  <2>1. bin = [size |-> BinSize(rxd, 0), src |-> MaxDataFieldSize, to |-> h,
               total |-> h - MaxDataFieldSize]
    BY <1>1, <1>3
  <2>2. bin' = [size |-> BinSize(rxd, 0), src |-> MaxDataFieldSize, to |-> h + Len(Received),
                total |-> (h - MaxDataFieldSize) + Len(Received)]
    BY <1>2, <2>1
  <2>3. h + Len(Received) = g /\ (h - MaxDataFieldSize) + Len(Received) = g - MaxDataFieldSize
    BY <1>8 DEF MaxDataFieldSize
  <2> QED
    BY <2>2, <2>3
<1>10. BaseInv'
  <2>1. /\ arr' \in [0 .. (DataArraySize + PacketSize) -> Bytes] /\ bytes' \in Bytes
        /\ acc' \in Nat /\ cur' \in Nat /\ dp' \in Nat \cup {Null} /\ nxt' \in Nat \cup {Null}
    BY <1>1, <1>2 DEF BaseInv
  <2> QED
    BY <1>1, <1>2, <1>7, <2>1, StepBase
<1>11. BinSize(rxd', 0) = BinSize(rxd, 0)
  <2>1. rxd'[0] = rxd[0] /\ rxd'[0 + 1] = rxd[0 + 1]
    BY <1>3, <1>7
  <2>2. DOMAIN rxd' = DOMAIN rxd
    BY <1>1, <1>7 DEF BaseInv
  <2> QED
    BY <2>1, <2>2 DEF BinSize, At
<1>12. BinDataInv' /\ pc' = "bin_data"
  <2>1. bin'.to = g
    BY <1>9
  <2>2. Holds(bin.to)'
    BY <1>8, <2>1
  <2>3. bin' = [size |-> BinSize(rxd', 0), src |-> MaxDataFieldSize, to |-> bin'.to,
                total |-> bin'.to - MaxDataFieldSize]
    BY <1>9, <1>11, <2>1, Zenon
  <2>4. bin'.to \in Nat /\ bin'.to >= MaxDataFieldSize
    BY <1>3, <1>8, <2>1 DEF MaxDataFieldSize
  <2>5. BinSize(rxd', 0) = BinSize(rxd, 0)' /\ cmd' = BinStr /\ pc' = "bin_data"
    BY <1>1, <1>2 DEF BinSize, At
  <2> QED
    BY <2>2, <2>3, <2>4, <2>5, Zenon DEF BinDataInv
<1> QED
  BY <1>10, <1>12, OnePart

(* The payload that is moved and handed over is the one that was sent.     *)
LEMMA PayloadFacts ==
  ASSUME HostKeepsProtocol, BaseInv, NEW h \in Nat, Holds(h),
         NEW size \in Nat, size <= MaxBin, Len(Current.data) = size + 3, h >= size + 2,
         NEW src \in 2 .. 5, NEW moved, moved = Store(rxd, src, Slice(rxd, 2, 2 + size))
  PROVE  /\ moved \in [0 .. (RxDataSize + PacketSize) -> Bytes]
         /\ Slice(moved, src, src + size) = SubSeq(Current.data, 3, 2 + size)
<1>1. PICK M \in Nat : M = RxDataSize + PacketSize
  BY Sizes
<1>2. Current \in Frames
  BY HoldsFacts
<1>3. rxd \in [0 .. M -> Bytes] /\ 5 + size <= M
  BY <1>1, <1>2, Sizes DEF BaseInv
<1>4. M \in Nat /\ rxd \in [0 .. M -> Bytes] /\ 5 + size <= M
  BY <1>1, <1>3
<1>5. /\ moved \in [0 .. M -> Bytes]
      /\ Slice(moved, src, src + size) \in Seq(Bytes)
      /\ Len(Slice(moved, src, src + size)) = size
      /\ \A k \in 1 .. size : Slice(moved, src, src + size)[k] = rxd[k + 1]
  <2>1. PICK end \in 2 .. (M + 1), last \in src .. (M + 1) :
          end = 2 + size /\ last = src + size /\ last - src = end - 2 /\ end - 2 = size
    BY <1>4
  <2>2. last - src = end - 2
    BY <2>1
  <2> DEFINE m == Store(rxd, src, Slice(rxd, 2, end))
  <2>3. /\ m \in [0 .. M -> Bytes]
        /\ Slice(m, src, last) \in Seq(Bytes) /\ Len(Slice(m, src, last)) = end - 2
        /\ \A k \in 1 .. (end - 2) : Slice(m, src, last)[k] = rxd[k + 1]
    BY <1>4, <2>2, BlockMoved
  <2>4. m = moved
    BY <2>1
  <2> HIDE DEF m
  <2> QED
    BY <2>1, <2>3, <2>4
<1>6. ASSUME NEW k \in 1 .. size
      PROVE  Slice(moved, src, src + size)[k] = Current.data[k + 2]
  <2>1. k + 1 \in 0 .. (h - 1) /\ (k + 1) + 1 = k + 2 /\ k + 2 \in 1 .. Len(Current.data)
    BY <1>2
  <2>2. rxd[k + 1] = Body(Current)[k + 2]
    BY <2>1 DEF Holds
  <2>3. Body(Current)[k + 2] = Current.data[k + 2]
    BY <1>2, <2>1, EncodeFacts
  <2> QED
    BY <1>5, <2>2, <2>3
<1> DEFINE s == SubSeq(Current.data, 3, 2 + size)
           r == Slice(moved, src, src + size)
<1>7. s \in Seq(Bytes) /\ Len(s) = size /\ \A k \in 1 .. size : s[k] = Current.data[k + 2]
  <2>1. Current.data \in Seq(Bytes)
    BY <1>2, EncodeFacts
  <2>2. \A k \in 1 .. size : 3 + k - 1 = k + 2
    OBVIOUS
  <2> QED
    BY <1>2, <2>1, <2>2
<1>8. r \in Seq(Bytes) /\ Len(r) = size /\ \A k \in 1 .. size : r[k] = Current.data[k + 2]
  BY <1>5, <1>6
<1> HIDE DEF s, r
<1>9. r = s
  BY <1>7, <1>8, SeqEqual
<1> QED
  BY <1>1, <1>5, <1>9 DEF s, r

(* Behind the payload the wire has the checksum and ETX, and no packet     *)
(* ends in front of the checksum.                                          *)
LEMMA PayloadEnds ==
  ASSUME HostKeepsProtocol, BaseInv, cmd = BinStr, NEW h \in Nat, Holds(h),
         h >= BinSize(rxd, 0) + 2, h >= 2
  PROVE  \A i \in (5 + h + 1) .. Len(Wire) : Wire[i] # STX
<1>1. PICK size \in Nat :
        /\ size = BinSize(rxd, 0) /\ size % 2 = 0 /\ Len(Body(Current)) = size + 4
        /\ Header(Current) = 5 /\ Len(Wire) = size + 9
  BY SizeHeld
<1>2. /\ Current \in Frames /\ Current.rs /\ Current.cmd = BinStr /\ Reading(5 + h)
      /\ \A k \in 1 .. Len(Body(Current)) : Wire[Header(Current) + k] = Body(Current)[k]
  BY <1>1, HoldsFacts
<1>3. (5 + h) % 2 = 0 \/ 5 + h = size + 9 \/ 5 + h = 5
  BY <1>1, <1>2 DEF Reading, Boundary, EvenNumber, Wire
<1>4. 5 + h >= size + 8
  <2>1. h >= size + 2
    BY <1>1
  <2>2. (size + 7) % 2 = 1
    BY <1>1
  <2>3. h # size + 2
    BY <1>3, <2>2
  <2> QED
    BY <2>1, <2>3
<1>5. Wire[size + 9] = ETX
  <2>1. size + 4 \in 1 .. Len(Body(Current)) /\ 5 + (size + 4) = size + 9
    BY <1>1
  <2>2. Body(Current)[size + 4] = ETX
    <3>1. Len(Body(Current)) = Len(Current.data) + 1 /\ Len(Current.data) \in Nat
          /\ Body(Current)[Len(Current.data) + 1] = ETX
      BY <1>2, EncodeFacts
    <3> QED
      BY <1>1, <3>1
  <2>3. Wire[Header(Current) + (size + 4)] = Body(Current)[size + 4]
    BY <1>2, <2>1
  <2> QED
    BY <1>1, <2>1, <2>2, <2>3
<1>6. ASSUME NEW i \in (5 + h + 1) .. Len(Wire) PROVE Wire[i] # STX
  <2>1. i = size + 9
    BY <1>1, <1>4
  <2> QED
    BY <1>5, <2>1 DEF ETX, STX
<1> QED
  BY <1>6

LEMMA BinAckKeeps ==
  ASSUME HostKeepsProtocol, IInv, BinAck
  PROVE  IInv'
<1>1. /\ BaseInv /\ pc = "bin_data" /\ Holds(bin.to) /\ cmd = BinStr
      /\ bin = [size |-> BinSize(rxd, 0), src |-> MaxDataFieldSize, to |-> bin.to,
                total |-> bin.to - MaxDataFieldSize]
      /\ bin.to \in Nat /\ bin.to >= 2 /\ bin.total >= bin.size
  BY DEF BinAck, IInv, ParserInv, BinDataInv, MaxDataFieldSize
<1>2. PICK h \in Nat : h = bin.to /\ h >= 2 /\ Holds(h)
  BY <1>1
<1>3. PICK size \in Nat : size = BinSize(rxd, 0)
  BY <1>1, <1>2, SizeHeld
<1>4. bin.src = 2 /\ bin.size = size /\ h >= size + 2
  <2>1. bin.total = bin.to - MaxDataFieldSize /\ bin.size = BinSize(rxd, 0)
        /\ bin.src = MaxDataFieldSize
    BY <1>1
  <2> QED
    BY <1>1, <1>2, <1>3, <2>1 DEF MaxDataFieldSize
<1>5. PICK src \in 2 .. 5 : src = 2 + ((4 - ((RxDataAlign + 2) % 4)) % 4)
  <2>1. (4 - ((RxDataAlign + 2) % 4)) % 4 \in 0 .. 3
    BY ReceiverConstants
  <2> QED
    BY <2>1
<1>6. /\ rxd' = Store(rxd, src, Slice(rxd, 2, 2 + size))
      /\ dispatched' = Append(dispatched,
           [cmd |-> cmd, rs |-> TRUE, data |-> Slice(rxd', src, src + size)])
      /\ answers' = answers + 1 /\ pc' = "poll" /\ cmd' = << >> /\ dp' = Null
      /\ UNCHANGED <<hostVars, ep1, arr, bytes, prev, acc, cur, nxt, bin>>
  BY <1>4, <1>5 DEF BinAck
<1>7. /\ rxd' \in [0 .. (RxDataSize + PacketSize) -> Bytes]
      /\ Slice(rxd', src, src + size) = SubSeq(Current.data, 3, 2 + size)
  <2>1. size <= MaxBin /\ Len(Current.data) = size + 3
    BY <1>1, <1>2, <1>3, SizeHeld
  <2> QED
    BY <1>1, <1>2, <1>4, <1>6, <2>1, PayloadFacts
<1>8. /\ Current \in Frames /\ Current.rs /\ Current.cmd = BinStr
      /\ size = 256 * Current.data[1] + Current.data[2] /\ Reading(5 + h)
      /\ Current.data[1] \in Bytes /\ Current.data[2] \in Bytes
  BY <1>1, <1>2, <1>3, HoldsFacts, SizeHeld, BinFacts
<1>9. [cmd |-> cmd, rs |-> TRUE, data |-> Slice(rxd', src, src + size)] = Handed(Current)
  <2>1. Current \in [cmd : Seq(Bytes), rs : BOOLEAN, data : Seq(Bytes)]
    BY <1>8 DEF HostKeepsProtocol
  <2>2. 2 + 256 * Current.data[1] + Current.data[2] = 2 + size
    <3>1. PICK x \in Bytes, y \in Bytes : x = Current.data[1] /\ y = Current.data[2]
      BY <1>8, Zenon
    <3>2. size = 256 * x + y
      BY <1>8, <3>1, Zenon
    <3>3. 2 + 256 * x + y = 2 + size
      BY <3>2 DEF Bytes
    <3> QED
      BY <3>1, <3>3, Zenon
  <2>3. Handed(Current) = [Current EXCEPT !.data =
                             SubSeq(Current.data, 3, 2 + 256 * Current.data[1] + Current.data[2])]
    BY <1>8 DEF Handed
  <2>4. Handed(Current) = [Current EXCEPT !.data = SubSeq(Current.data, 3, 2 + size)]
    BY <2>2, <2>3, Zenon
  <2> QED
    BY <1>1, <1>7, <1>8, <2>1, <2>4
<1>10. \A i \in (5 + h + 1) .. Len(Wire) : Wire[i] # STX
  BY <1>1, <1>2, <1>3, <1>4, PayloadEnds
<1>11. 5 + h \in Nat
  OBVIOUS
<1> QED
  BY <1>1, <1>6, <1>7, <1>8, <1>9, <1>10, <1>11, FrameDone

-----------------------------------------------------------------------------
(* The invariant holds at first and is kept by every step.                 *)

LEMMA InitIInv ==
  ASSUME HostKeepsProtocol, Init
  PROVE  IInv
<1>1. /\ sent = << >> /\ outbox = << >> /\ ep1 = NoPacket /\ pc = "poll" /\ cmd = << >>
      /\ bytes = 0 /\ prev = 0 /\ acc = 0 /\ cur = 0 /\ dp = Null /\ nxt = Null
      /\ answers = 0 /\ dispatched = << >>
  BY DEF Init
<1>2. /\ arr \in [0 .. (DataArraySize + PacketSize) -> Bytes]
      /\ rxd \in [0 .. (RxDataSize + PacketSize) -> Bytes]
  BY ControlBytes DEF Init
<1>3. << >> \in Queues /\ << >> \in Packets /\ << >> \in Seq({Handed(f) : f \in Frames})
      /\ << >> \in Seq(Frames) /\ 0 \in Bytes /\ Len(<< >>) = 0
  BY DEF Queues, Packets, Bytes
<1>4. Count = 0 /\ Len(sent) = 0
  BY <1>1 DEF Count
<1>5. ep1 \in [int : BOOLEAN, err : BOOLEAN, stall : BOOLEAN, bytes : Packets]
  BY <1>1, <1>3 DEF NoPacket
<1>6. BaseInv
  BY <1>1, <1>2, <1>3, <1>4, <1>5 DEF BaseInv
<1>7. Line(<< >>) /\ Later(<< >>, Count)
  BY <1>1, <1>4 DEF Line, Later, NoPacket
<1>8. PollInv
  BY <1>1, <1>3, <1>7 DEF PollInv, Between
<1>9. ParserInv
  BY <1>1, <1>8 DEF ParserInv, CommandInv, SeparatorInv, BinSizeInv, DataInv, MoreDataInv,
                    ScanInv, LeftoverInv, DispatchInv, BinDataInv
<1> QED
  BY <1>1, <1>6, <1>9 DEF IInv

LEMMA StutterKeeps ==
  ASSUME HostKeepsProtocol, IInv, UNCHANGED vars
  PROVE  IInv'
<1>1. /\ UNCHANGED <<sent, outbox, ep1, dispatched, answers>>
      /\ UNCHANGED <<pc, arr, rxd, cmd, bytes, prev, acc, cur, dp, nxt, bin>>
  BY DEF vars, hostVars, parserVars
<1>2. Count' = Count /\ Current' = Current /\ Wire' = Wire
      /\ \A n : Reading(n) => Reading(n)'
  BY <1>1, Unmoved
<1>3. BaseInv'
  BY <1>1, <1>2 DEF IInv, BaseInv
<1>4. PollInv'
  <2>1. \A q, c : Later(q, c)' <=> Later(q, c)
    BY <1>1 DEF Later
  <2>2. \A w : Line(w)' <=> Line(w)
    BY <1>1 DEF Line
  <2> QED
    BY <1>1, <1>2, <2>1, <2>2 DEF IInv, ParserInv, PollInv, Between, Garbage
<1>5. \A n : Holds(n) => Holds(n)'
  BY <1>1, <1>2 DEF Holds
<1>6. CommandInv' /\ SeparatorInv'
  BY <1>1, <1>2 DEF IInv, ParserInv, CommandInv, SeparatorInv
<1>7. BinSizeInv' /\ DataInv' /\ MoreDataInv'
  BY <1>1, <1>2, <1>5 DEF IInv, ParserInv, BinSizeInv, DataInv, MoreDataInv
<1>8. ScanInv' /\ LeftoverInv'
  BY <1>1, <1>2, <1>5 DEF IInv, ParserInv, ScanInv, LeftoverInv
<1>9. DispatchInv' /\ BinDataInv'
  BY <1>1, <1>2, <1>5 DEF IInv, ParserInv, DispatchInv, BinDataInv
<1> QED
  BY <1>1, <1>3, <1>4, <1>6, <1>7, <1>8, <1>9 DEF IInv, ParserInv

LEMMA StepKeeps ==
  ASSUME HostKeepsProtocol, IInv, [Next]_vars
  PROVE  IInv'
<1>1. CASE HostSend \/ BusDeliver \/ BusError
  BY <1>1, EnvironmentKeeps
<1>2. CASE Poll \/ Command \/ Separator
  BY <1>2, PollKeeps, CommandKeeps, SeparatorKeeps
<1>3. CASE BinSizeBytes \/ BinSizeCheck \/ Data
  BY <1>3, BinSizeBytesKeeps, BinSizeCheckKeeps, DataKeeps
<1>4. CASE MoreData \/ Scan \/ Leftover
  BY <1>4, MoreDataKeeps, ScanKeeps, LeftoverKeeps
<1>5. CASE Dispatch \/ DispatchBin \/ BinReceive \/ BinAck
  BY <1>5, DispatchKeeps, DispatchBinKeeps, BinReceiveKeeps, BinAckKeeps
<1>6. CASE UNCHANGED vars
  BY <1>6, StutterKeeps
<1> QED
  BY <1>1, <1>2, <1>3, <1>4, <1>5, <1>6 DEF Next, Loader

(* A host that keeps the protocol is understood wherever the bus and the   *)
(* packet boundaries put its bytes: IInv holds in every state.             *)
THEOREM Invariance ==
  ASSUME HostKeepsProtocol
  PROVE  Spec => []IInv
<1>1. Init => IInv
  BY InitIInv
<1>2. IInv /\ [Next]_vars => IInv'
  BY StepKeeps
<1> QED
  BY <1>1, <1>2, PTL DEF Spec

-----------------------------------------------------------------------------
(* What the invariant is for.                                              *)

(* The counters and pointers of hitagi_read_packets(): no count exceeds a  *)
(* packet, and the data in rx_data never more than two.                    *)
Pointers == {Null} \cup 0 .. (2 * PacketSize)

Ranges ==
  /\ bytes <= PacketSize /\ cur <= PacketSize + 1 /\ acc <= 2 * PacketSize
  /\ dp \in Pointers /\ nxt \in Pointers

(* A body that is not the payload of a BIN is in two packets.              *)
LEMMA ShortBody ==
  ASSUME HostKeepsProtocol, BaseInv, cmd # BinStr, NEW h \in Nat, Holds(h)
  PROVE  h <= 2 * PacketSize /\ Len(Body(Current)) \in 0 .. (2 * PacketSize)
<1>1. /\ Current \in Frames /\ Current.rs /\ Current.cmd # BinStr
      /\ Len(Body(Current)) \in Nat /\ h <= Len(Body(Current)) /\ Header(Current) \in Nat
      /\ Len(Wire) = Header(Current) + Len(Body(Current))
  BY HoldsFacts
<1>2. Len(Wire) <= 2 * PacketSize
  BY <1>1 DEF HostKeepsProtocol, Wire
<1> QED
  BY <1>1, <1>2, Sizes

LEMMA RangesKept ==
  ASSUME HostKeepsProtocol, IInv, IInv', Ranges, [Next]_vars
  PROVE  Ranges'
<1>1. /\ BaseInv /\ bytes \in Nat /\ cur \in Nat /\ acc \in Nat
      /\ bytes' \in Nat /\ cur' \in Nat /\ acc' \in Nat
      /\ BaseInv' /\ ParserInv' /\ ParserInv
  <2>1. BaseInv /\ ParserInv /\ BaseInv' /\ ParserInv'
    BY DEF IInv
  <2>2. bytes \in Nat /\ cur \in Nat /\ acc \in Nat
    BY <2>1 DEF BaseInv, Bytes
  <2>3. bytes' \in Nat /\ cur' \in Nat /\ acc' \in Nat
    BY <2>1 DEF BaseInv, Bytes
  <2> QED
    BY <2>1, <2>2, <2>3
<1>2. CASE HostSend \/ BusDeliver \/ BusError \/ UNCHANGED vars
  BY <1>2 DEF HostSend, BusDeliver, BusError, vars, parserVars, Ranges, Pointers
<1>3. CASE Poll
  <2>1. UNCHANGED <<acc, dp, nxt>>
    BY <1>3 DEF Poll
  <2>2. CASE Received = << >>
    BY <1>3, <2>1, <2>2 DEF Poll, Ranges, Pointers
  <2>3. CASE Received # << >>
    BY <1>3, <2>1, <2>3, PollRanges DEF Ranges, Pointers
  <2> QED
    BY <2>2, <2>3
<1>4. CASE Command
  <2>1. UNCHANGED <<acc, dp, nxt>> /\ pc' \in {"command", "separator"}
    BY <1>4 DEF Command
  <2>2. CASE pc' = "separator"
    BY <1>1, <2>1, <2>2, Sizes DEF ParserInv, SeparatorInv, Ranges, Pointers
  <2>3. CASE pc' = "command"
    BY <1>1, <2>1, <2>3, Sizes DEF ParserInv, CommandInv, Ranges, Pointers
  <2> QED
    BY <2>1, <2>2, <2>3
<1>5. CASE Separator
  <2>0. UNCHANGED <<cur, nxt>>
    BY <1>5 DEF Separator
  <2>1. CASE dp' = Null /\ UNCHANGED <<acc, bytes>>
    BY <2>0, <2>1 DEF Ranges, Pointers
  <2>2. CASE bytes' = 0 /\ acc' = Behind(bytes) /\ dp' = acc'
    <3>1. bytes >= 1 /\ bytes <= PacketSize
      BY <1>1, <1>5 DEF Separator, ParserInv, SeparatorInv, Ranges
    <3>2. bytes \in 1 .. 256
      BY <1>1, <3>1, Sizes
    <3>3. acc' = bytes - 1
      BY <2>2, <3>2, Counted
    <3> QED
      BY <1>1, <2>0, <2>2, <3>1, <3>3, Sizes DEF Ranges, Pointers
  <2> QED
    BY <1>5, <2>1, <2>2 DEF Separator
<1>6. CASE BinSizeBytes
  <2>1. UNCHANGED <<cur, nxt>> /\ pc' = "bin_size"
    BY <1>6 DEF BinSizeBytes
  <2> QED
    BY <1>1, <2>1 DEF ParserInv, BinSizeInv, Ranges, Pointers
<1>7. CASE BinSizeCheck
  <2>1. UNCHANGED <<bytes, cur, acc>>
        /\ ((nxt' = dp /\ dp' = 0) \/ UNCHANGED <<nxt, dp>>)
    BY <1>7 DEF BinSizeCheck
  <2> QED
    BY <2>1, Sizes DEF Ranges, Pointers
<1>8. CASE Data
  <2>1. UNCHANGED <<bytes, cur, acc, nxt>> /\ pc' \in {"leftover", "more_data"}
    BY <1>8 DEF Data
  <2>2. CASE pc' = "more_data"
    BY <1>1, <2>1, <2>2 DEF ParserInv, MoreDataInv, Ranges, Pointers
  <2>3. CASE pc' = "leftover"
    <3>1. dp' = Len(Body(Current))' /\ Holds(acc) /\ cmd # BinStr /\ Current' = Current
      BY <1>1, <1>8, <2>3, Unmoved DEF Data, ParserInv, DataInv, LeftoverInv, hostVars
    <3>2. Len(Body(Current)) \in 0 .. (2 * PacketSize)
      BY <1>1, <3>1, ShortBody
    <3> QED
      BY <2>1, <3>1, <3>2 DEF Body, Ranges, Pointers
  <2> QED
    BY <2>1, <2>2, <2>3
<1>9. CASE MoreData
  <2>1. UNCHANGED <<cur, acc, dp, nxt>> /\ bytes' = Len(Received)
        /\ pc' = IF Received = << >> THEN "more_data" ELSE "scan"
    BY <1>9 DEF MoreData
  <2>2. CASE Received = << >>
    BY <2>1, <2>2, Sizes DEF Ranges, Pointers
  <2>3. CASE Received # << >>
    BY <1>1, <2>1, <2>3, Sizes DEF ParserInv, ScanInv, Ranges, Pointers
  <2> QED
    BY <2>2, <2>3
<1>10. CASE Scan
  <2>1. /\ Holds(Len(Body(Current))) /\ cmd # BinStr /\ bytes \in 1 .. PacketSize
        /\ dp \in Nat /\ dp + bytes = Len(Body(Current)) /\ pc = "scan"
    BY <1>1, <1>10 DEF Scan, ParserInv, ScanInv
  <2>2. PICK h \in Nat : h = Len(Body(Current))
    BY <1>1, <2>1
  <2>3. FirstIn(rxd, dp, {ETX}) = h - 1
    <3>1. dp \in 0 .. h /\ dp < h /\ Holds(h)
      BY <1>1, <2>1, <2>2
    <3> QED
      BY <1>1, <2>1, <2>2, <3>1, EtxAt
  <2>4. UNCHANGED <<cur, acc, nxt>> /\ bytes' = U8(1) /\ dp' = h
    <3>1. bytes # 0 /\ h - 1 < dp + bytes /\ bytes - ((h - 1) - dp) = 1 /\ (h - 1) + 1 = h
      BY <1>1, <2>1, <2>2
    <3> QED
      BY <1>10, <2>3, <3>1 DEF Scan
  <2>5. h \in 0 .. (2 * PacketSize)
    BY <1>1, <2>1, <2>2, ShortBody
  <2> QED
    BY <2>4, <2>5, Sizes DEF U8, Ranges, Pointers
<1>11. CASE Leftover \/ Dispatch \/ DispatchBin \/ BinReceive \/ BinAck
  <2>1. UNCHANGED <<bytes, cur, acc, nxt>> /\ (dp' = 0 \/ dp' = Null \/ dp' = dp)
    BY <1>11 DEF Leftover, Dispatch, DispatchBin, BinReceive, BinAck
  <2> QED
    BY <2>1, Sizes DEF Ranges, Pointers
<1> QED
  BY <1>2, <1>3, <1>4, <1>5, <1>6, <1>7, <1>8, <1>9, <1>10, <1>11 DEF Next, Loader

(* Every variable of hitagi_read_packets() keeps its type and its range:   *)
(* no subtraction of the parser goes below zero, and no packet is counted  *)
(* twice.                                                                  *)
THEOREM TypeCorrectness ==
  ASSUME HostKeepsProtocol
  PROVE  Spec => []TypeOK
<1>1. IInv /\ Ranges => TypeOK
  <2> SUFFICES ASSUME IInv, Ranges PROVE TypeOK
    OBVIOUS
  <2>1. outbox \in Seq(Seq(Seq(Bytes)))
    <3>1. Seq(Packets) \ {<< >>} \subseteq Seq(Packets)
      OBVIOUS
    <3>2. \A S, T : S \subseteq T => Seq(S) \subseteq Seq(T)
      OBVIOUS
    <3>3. outbox \in Seq(Seq(Packets))
      BY <3>1, <3>2, Zenon DEF IInv, BaseInv, Queues
    <3> QED
      BY <3>3 DEF Packets
  <2>2. /\ bytes \in 0 .. PacketSize /\ prev \in 0 .. PacketSize
        /\ cur \in 0 .. (PacketSize + 1) /\ acc \in 0 .. (2 * PacketSize)
        /\ dp \in {Null} \cup 0 .. (2 * PacketSize)
        /\ nxt \in {Null} \cup 0 .. (2 * PacketSize)
    BY Sizes DEF IInv, BaseInv, Bytes, Ranges, Pointers
  <2>3. /\ sent \in Seq(Frames) /\ answers \in Nat
        /\ ep1.int \in BOOLEAN /\ ep1.err \in BOOLEAN /\ ep1.stall \in BOOLEAN
    BY DEF IInv, BaseInv
  <2> QED
    BY <2>1, <2>2, <2>3 DEF IInv, TypeOK
<1>2. Init => Ranges
  BY Sizes DEF Init, Ranges, Pointers
<1>3. IInv /\ IInv' /\ Ranges /\ [Next]_vars => Ranges'
  BY RangesKept
<1> QED
  BY Invariance, <1>1, <1>2, <1>3, PTL DEF Spec

(* No packet and no terminating NUL is written past the end of the buffers *)
(* data_array, rx_data and rx_command.                                     *)
THEOREM BufferSafety ==
  ASSUME HostKeepsProtocol
  PROVE  Spec => []BuffersHold
<1>1. IInv => BuffersHold
  <2> SUFFICES ASSUME IInv PROVE BuffersHold
    OBVIOUS
  <2>1. /\ BaseInv /\ prev = 0
        /\ PollInv /\ CommandInv /\ SeparatorInv /\ BinSizeInv /\ DataInv
        /\ MoreDataInv /\ ScanInv /\ LeftoverInv /\ DispatchInv /\ BinDataInv
    BY DEF IInv, ParserInv, BaseInv
  <2>2. Len(cmd) < CommandSize
    <3>1. CASE cmd = << >>
      BY <3>1, ReceiverConstants
    <3>2. CASE cmd # << >>
      <4>1. pc # "poll" /\ cmd = Current.cmd
        BY <2>1, <3>2 DEF IInv, PollInv, CommandInv, SeparatorInv, BinSizeInv, DataInv,
                          MoreDataInv, ScanInv, LeftoverInv, DispatchInv, BinDataInv, Holds
      <4> QED
        BY <4>1, AtWork, EncodeFacts
    <3> QED
      BY <3>1, <3>2
  <2>3. pc = "poll" => prev + PacketSize <= DataArraySize
    BY <2>1, Sizes
  <2>4. pc = "bin_size" => dp + PacketSize <= RxDataSize
    <3>1. acc \in Nat
      BY <2>1 DEF BaseInv
    <3> QED
      BY <2>1, <3>1, Sizes DEF BinSizeInv
  <2>5. ASSUME pc \in {"more_data", "scan", "leftover"}
        PROVE  /\ Current \in Frames /\ Current.rs /\ Current.cmd # BinStr
               /\ Len(Body(Current)) \in Nat
               /\ Len(Body(Current)) + PacketSize <= RxDataSize
    <3>1. Current \in Frames /\ Current.rs /\ Current.cmd # BinStr
      BY <2>1, <2>5, AtWork DEF MoreDataInv, ScanInv, LeftoverInv, Holds
    <3> QED
      BY <3>1, BodyFits
  <2>6. pc = "more_data" => dp + PacketSize <= RxDataSize
    <3>1. acc \in Nat
      BY <2>1 DEF BaseInv
    <3> QED
      BY <2>1, <2>5, <3>1, Sizes DEF MoreDataInv
  <2>7. pc = "scan" => dp + bytes + PacketSize <= RxDataSize
    BY <2>1, <2>5, Sizes DEF ScanInv
  <2>8. pc = "leftover" => prev <= DataArraySize /\ dp + prev < RxDataSize
    BY <2>1, <2>5, Sizes DEF LeftoverInv
  <2>9. pc = "bin_data" /\ bin.total < bin.size => bin.to + PacketSize <= RxDataSize
    <3> SUFFICES ASSUME pc = "bin_data", bin.total < bin.size
                 PROVE  bin.to + PacketSize <= RxDataSize
      OBVIOUS
    <3>1. PICK h \in Nat :
            /\ h = bin.to /\ h >= 2 /\ Holds(h) /\ cmd = BinStr
            /\ bin.total = h - 2 /\ bin.size = BinSize(rxd, 0)
      <4>1. /\ Holds(bin.to) /\ cmd = BinStr /\ bin.to \in Nat /\ bin.to >= 2
            /\ bin = [size |-> BinSize(rxd, 0), src |-> 2, to |-> bin.to,
                      total |-> bin.to - 2]
        BY <2>1 DEF BinDataInv, MaxDataFieldSize
      <4>2. bin.total = bin.to - 2 /\ bin.size = BinSize(rxd, 0)
        BY <4>1
      <4> QED
        BY <4>1, <4>2
    <3>2. BinSize(rxd, 0) \in Nat /\ BinSize(rxd, 0) <= MaxBin
      BY <2>1, <3>1, SizeHeld
    <3> QED
      BY <3>1, <3>2, Sizes
  <2>10. pc = "bin_data" => bin.src + 3 + bin.size <= RxDataSize
    <3> SUFFICES ASSUME pc = "bin_data" PROVE bin.src + 3 + bin.size <= RxDataSize
      OBVIOUS
    <3>1. /\ Holds(bin.to) /\ cmd = BinStr /\ bin.to \in Nat /\ bin.to >= 2
          /\ bin = [size |-> BinSize(rxd, 0), src |-> 2, to |-> bin.to,
                    total |-> bin.to - 2]
      BY <2>1 DEF BinDataInv, MaxDataFieldSize
    <3>2. PICK h \in Nat : h = bin.to /\ h >= 2 /\ Holds(h)
      BY <3>1
    <3>3. BinSize(rxd, 0) \in Nat /\ BinSize(rxd, 0) <= MaxBin
      BY <2>1, <3>1, <3>2, SizeHeld
    <3>4. bin.src = 2 /\ bin.size = BinSize(rxd, 0)
      BY <3>1
    <3> QED
      BY <3>3, <3>4, Sizes
  <2> QED
    BY <2>2, <2>3, <2>4, <2>6, <2>7, <2>8, <2>9, <2>10 DEF BuffersHold
<1> QED
  BY Invariance, <1>1, PTL

(* The name of a command ends within the packet it was found in, and the   *)
(* scan for ETX always has bytes to look at.                               *)
THEOREM ReadsReceived ==
  ASSUME HostKeepsProtocol
  PROVE  Spec => []ReadsOnlyReceived
<1>1. IInv => ReadsOnlyReceived
  <2> SUFFICES ASSUME IInv PROVE ReadsOnlyReceived
    OBVIOUS
  <2>1. BaseInv /\ CommandInv /\ ScanInv
    BY DEF IInv, ParserInv
  <2>2. ASSUME pc = "command" PROVE FirstIn(arr, cur, {ETX, RS}) - cur < bytes
    <3>1. /\ Count < Len(sent) /\ cur = 1 /\ Header(Current) <= bytes + 1
          /\ bytes < PacketSize /\ \A k \in 0 .. bytes : arr[k] = Wire[k + 1]
      BY <2>1, <2>2 DEF CommandInv, Reading
    <3>2. FirstIn(arr, cur, {ETX, RS}) = Header(Current) - 1
      BY <2>1, <3>1, SeparatorAt
    <3>3. bytes \in Nat
      BY <2>1 DEF BaseInv, Bytes
    <3>4. Header(Current) \in Nat
      BY <2>1, <3>1, PositionFacts
    <3> QED
      BY <3>1, <3>2, <3>3, <3>4
  <2>3. pc = "scan" => bytes > 0
    BY <2>1 DEF ScanInv
  <2> QED
    BY <2>2, <2>3 DEF ReadsOnlyReceived
<1> QED
  BY Invariance, <1>1, PTL

(* The receiving half implements the channel: the host sends a frame, the  *)
(* hand-over to a handler takes it, and every other step is internal.      *)
THEOREM Refinement ==
  ASSUME HostKeepsProtocol
  PROVE  Spec => ImplementsChannel
<1> DEFINE promised == [k \in DOMAIN sent |-> Handed(sent[k])]
<1>1. Init => Frame!Init
  BY DEF Init, Frame!Init
<1>2. IInv /\ IInv' /\ [Next]_vars => [Frame!Next]_<<promised, dispatched>>
  <2> SUFFICES ASSUME IInv, IInv', [Next]_vars
               PROVE  [Frame!Next]_<<promised, dispatched>>
    OBVIOUS
  <2>1. /\ sent \in Seq(Frames) /\ Count \in 0 .. Len(sent)
        /\ dispatched \in Seq({Handed(f) : f \in Frames})
    BY DEF IInv, BaseInv
  <2>2. CASE HostSend
    <3>1. PICK f \in Frames : sent' = Append(sent, f) /\ dispatched' = dispatched
      BY <2>2 DEF HostSend
    <3>2. promised' = Append(promised, Handed(f))
      BY <2>1, <3>1
    <3>3. Frame!Send(Handed(f))
      BY <3>1, <3>2 DEF Frame!Send
    <3> QED
      BY <3>3 DEF Frame!Next
  <2>3. CASE Dispatch \/ BinAck
    <3>1. PICK x : dispatched' = Append(dispatched, x)
      BY <2>3 DEF Dispatch, BinAck
    <3>2. sent' = sent
      BY <2>3 DEF Dispatch, BinAck, hostVars
    <3>3. /\ Count' \in 0 .. Len(sent)
          /\ \A k \in 1 .. Count' : dispatched'[k] = Handed(sent[k])
      BY <3>2 DEF IInv, BaseInv
    <3>4. Count' = Count + 1 /\ dispatched'[Count + 1] = x /\ Count \in Nat
      BY <2>1, <3>1 DEF Count
    <3>5. Count < Len(sent) /\ x = Handed(sent[Count + 1])
      BY <2>1, <3>3, <3>4
    <3>6. /\ Len(promised) = Len(sent) /\ promised' = promised
          /\ promised[Count + 1] = Handed(sent[Count + 1])
      BY <2>1, <3>2, <3>5
    <3> HIDE DEF promised
    <3>7. Frame!Take
      BY <3>1, <3>5, <3>6 DEF Frame!Take, Count, promised
    <3> QED
      BY <3>7 DEF Frame!Next
  <2>4. CASE UNCHANGED <<sent, dispatched>>
    BY <2>4
  <2>5. ASSUME BusDeliver \/ BusError \/ Poll \/ Command \/ Separator
        PROVE  UNCHANGED <<sent, dispatched>>
    BY <2>5 DEF BusDeliver, BusError, Poll, Command, Separator, hostVars
  <2>6. ASSUME BinSizeBytes \/ BinSizeCheck \/ Data \/ MoreData
        PROVE  UNCHANGED <<sent, dispatched>>
    BY <2>6 DEF BinSizeBytes, BinSizeCheck, Data, MoreData, hostVars
  <2>7. ASSUME Scan \/ Leftover \/ DispatchBin \/ BinReceive \/ UNCHANGED vars
        PROVE  UNCHANGED <<sent, dispatched>>
    BY <2>7 DEF Scan, Leftover, DispatchBin, BinReceive, vars, hostVars
  <2> QED
    BY <2>2, <2>3, <2>4, <2>5, <2>6, <2>7 DEF Next, Loader
<1> QED
  BY Invariance, <1>1, <1>2, PTL DEF Spec, ImplementsChannel, Frame!Spec
=============================================================================
