--------------------------- MODULE RealignProofs ---------------------------
(***************************************************************************)
(* For every buffer, every alignment and every payload that fits, the loop *)
(* of hitagi_command_BIN() moves the payload and nothing else. The         *)
(* invariant says which bytes the first i iterations have moved, and that  *)
(* the bytes still to be read are as they were. In the end the loop has    *)
(* done the one move that FrameReceiver makes of it.                       *)
(***************************************************************************)
EXTENDS Realign, ByteMemory, TLAPS

(* What has been moved, while the loop runs: the last i bytes, shift       *)
(* further right; everything outside of their target is untouched.         *)
Moved ==
  /\ \A k \in 0 .. (size - 1) : k >= size - i => mem[source0 + k + shift] = mem0[source0 + k]
  /\ \A b \in Indices :
       b < source0 + shift + size - i \/ b >= source0 + shift + size => mem[b] = mem0[b]

Inv ==
  /\ TypeOK
  /\ mem0 \in [Indices -> Values]
  /\ pc = "start" => source = source0 /\ shift = 0 /\ i = 0 /\ mem = mem0
  /\ pc # "start" => shift = ShiftFor(base + source0)
  /\ pc = "shifting" => shift # 0 /\ source = source0 /\ ptr = source + size - 1 - i
  /\ pc = "aligned" => source = source0 + shift /\ (shift = 0 \/ i = size)
  /\ shift = 0 => mem = mem0
  /\ Moved

(* The shift is below four and brings the address to a boundary.           *)
LEMMA ShiftBound ==
  ASSUME NEW a \in Nat
  PROVE  ShiftFor(a) \in 0 .. 3 /\ (a + ShiftFor(a)) % Align = 0
  BY DEF ShiftFor, Align

LEMMA InvInit == Init => Inv
  BY RealignConstants DEF Init, Inv, TypeOK, Moved, Indices

LEMMA StartKeepsInv == Inv /\ Start => Inv'
<1> SUFFICES ASSUME Inv, Start PROVE Inv'
  OBVIOUS
<1> USE RealignConstants
<1>1. base + source \in Nat /\ source = source0 /\ shift = 0 /\ i = 0 /\ mem = mem0
  BY DEF Inv, TypeOK, Start
<1>2. shift' \in 0 .. 3 /\ shift' = ShiftFor(base + source0)
  BY <1>1, ShiftBound DEF Start
<1>3. CASE shift' = 0
  BY <1>1, <1>2, <1>3 DEF Start, Inv, TypeOK, Moved, Indices
<1>4. CASE shift' # 0
  BY <1>1, <1>2, <1>4 DEF Start, Inv, TypeOK, Moved, Indices
<1>5. QED
  BY <1>3, <1>4

LEMMA ShiftKeepsInv == Inv /\ Shift => Inv'
<1> SUFFICES ASSUME Inv, Shift PROVE Inv'
  OBVIOUS
<1> USE RealignConstants
<1>1. /\ size \in Nat /\ i \in Nat /\ i < size /\ shift \in 1 .. 3 /\ source0 \in Nat
      /\ source0 <= MaxSource /\ size <= MaxSize /\ ptr = source0 + size - 1 - i
  BY DEF Inv, TypeOK, Shift
<1>2. ptr \in Indices /\ ptr + shift \in Indices
  BY <1>1 DEF Indices
<1>3. mem[ptr] = mem0[ptr]
  BY <1>1, <1>2 DEF Inv, Moved
<1>4. mem' = [mem EXCEPT ![ptr + shift] = mem0[ptr]] /\ i' = i + 1 /\ ptr' = ptr - 1
  BY <1>3 DEF Shift
<1>5. mem' \in [Indices -> Values]
  BY <1>2, <1>4 DEF Inv, TypeOK
<1>6. Moved'
  <2>1. ASSUME NEW k \in 0 .. (size - 1), k >= size - (i + 1)
        PROVE  mem'[source0 + k + shift] = mem0[source0 + k]
    <3>1. source0 + k + shift \in Indices
      BY <1>1 DEF Indices
    <3>2. CASE k = size - (i + 1)
      BY <1>1, <1>2, <1>4, <3>2 DEF Inv, TypeOK
    <3>3. CASE k >= size - i
      <4>1. mem[source0 + k + shift] = mem0[source0 + k]
        BY <3>3 DEF Inv, Moved
      <4>2. source0 + k + shift # ptr + shift
        BY <1>1, <3>3
      <4>3. QED
        BY <1>2, <1>4, <3>1, <4>1, <4>2 DEF Inv, TypeOK
    <3>4. QED
      BY <1>1, <2>1, <3>2, <3>3
  <2>2. ASSUME NEW b \in Indices,
               b < source0 + shift + size - (i + 1) \/ b >= source0 + shift + size
        PROVE  mem'[b] = mem0[b]
    <3>1. b # ptr + shift
      BY <1>1, <2>2 DEF Indices
    <3>2. mem[b] = mem0[b]
      BY <1>1, <2>2 DEF Inv, Moved, Indices
    <3>3. QED
      BY <1>2, <1>4, <3>1, <3>2 DEF Inv, TypeOK
  <2>3. QED
    BY <1>4, <2>1, <2>2 DEF Moved, Shift, Indices
<1>7. TypeOK'
  BY <1>1, <1>4, <1>5 DEF Inv, TypeOK, Shift
<1>8. UNCHANGED <<base, size, source, shift, pc, mem0, source0>>
  BY DEF Shift
<1>9. (pc # "start" => shift = ShiftFor(base + source0))'
  BY <1>8 DEF Inv, ShiftFor
<1>10. (mem0 \in [Indices -> Values])' /\ (shift = 0 => mem = mem0)'
  BY <1>1, <1>8 DEF Inv, Indices
<1>11. pc' = "shifting" /\ source' = source0' /\ ptr' = source' + size' - 1 - i'
  BY <1>1, <1>4, <1>8 DEF Inv, Shift
<1>12. QED
  BY <1>1, <1>6, <1>7, <1>8, <1>9, <1>10, <1>11 DEF Inv

LEMMA ShiftedKeepsInv == Inv /\ Shifted => Inv'
<1> SUFFICES ASSUME Inv, Shifted PROVE Inv'
  OBVIOUS
<1>1. source' = source0 + shift /\ source0 + shift + size <= RxDataSize
  BY RealignConstants DEF Inv, TypeOK, Shifted
<1>2. QED
  BY <1>1 DEF Inv, TypeOK, Moved, Shifted, Indices

(* The invariant holds in every reachable state.                           *)
THEOREM Invariance == Spec => []Inv
<1>1. Inv /\ [Next]_vars => Inv'
  <2> SUFFICES ASSUME Inv, [Next]_vars PROVE Inv'
    OBVIOUS
  <2>1. CASE UNCHANGED vars
    BY <2>1 DEF vars, Inv, TypeOK, Moved, Indices
  <2>2. QED
    BY <2>1, StartKeepsInv, ShiftKeepsInv, ShiftedKeepsInv DEF Next
<1>2. QED
  BY InvInit, <1>1, PTL DEF Spec

(* The shift is within 0..3 and the payload never leaves rx_data           *)
(* (hitagi.c:446-457).                                                     *)
THEOREM TypeCorrectness == Spec => []TypeOK
  BY Invariance, PTL DEF Inv

(* The payload is moved whole and ends up aligned, although source and     *)
(* target overlap (hitagi.c:448-457).                                      *)
THEOREM PayloadIsAligned == Spec => []PayloadAligned
<1>1. Inv => PayloadAligned
  <2> SUFFICES ASSUME Inv, pc = "aligned" PROVE PayloadAligned
    BY DEF PayloadAligned
  <2> USE RealignConstants
  <2>1. base + source0 \in Nat /\ source = source0 + shift
    BY DEF Inv, TypeOK
  <2>2. (base + source) % Align = 0
    <3>1. ((base + source0) + ShiftFor(base + source0)) % Align = 0
      BY <2>1, ShiftBound
    <3>2. base + source = (base + source0) + shift
      BY <2>1 DEF Inv, TypeOK
    <3>3. QED
      BY <3>1, <3>2 DEF Inv
  <2>3. ASSUME NEW k \in 0 .. (size - 1) PROVE mem[source + k] = mem0[source0 + k]
    <3>1. /\ source0 \in Nat /\ shift \in Nat /\ size \in Nat
          /\ source + k = source0 + k + shift
      BY <2>1 DEF Inv, TypeOK
    <3>2. CASE shift = 0
      BY <3>1, <3>2 DEF Inv
    <3>3. CASE i = size
      BY <3>1, <3>3 DEF Inv, Moved
    <3>4. QED
      BY <3>2, <3>3 DEF Inv
  <2>4. QED
    BY <2>2, <2>3 DEF PayloadAligned
<1>2. QED
  BY Invariance, <1>1, PTL

(* No byte outside of the target is ever written (hitagi.c:450-453).       *)
THEOREM NothingElseMoved == Spec => []NothingElse
<1>1. Inv => NothingElse
  BY DEF Inv, TypeOK, Moved, NothingElse, Indices
<1>2. QED
  BY Invariance, <1>1, PTL

(* Read from a copy of the whole payload, as FrameReceiver does it.        *)
OneMove == Store(mem0, source, Slice(mem0, source0, source0 + size))

LEMMA MovedAtOnce == Inv /\ pc = "aligned" => mem = OneMove
<1> SUFFICES ASSUME Inv, pc = "aligned" PROVE mem = OneMove
  OBVIOUS
<1> DEFINE payload == Slice(mem0, source0, source0 + size)
<1>1. /\ source0 \in Nat /\ shift \in Nat /\ size \in Nat /\ source = source0 + shift
      /\ source0 + size <= RxDataSize /\ RxDataSize \in Nat
  BY RealignConstants DEF Inv, TypeOK
<1>2. mem \in [Indices -> Values] /\ mem0 \in [Indices -> Values]
  BY DEF Inv, TypeOK
<1>3. /\ Len(payload) = size
      /\ \A k \in 1 .. size : payload[k] = mem0[source0 + k - 1]
  <2>1. payload = [k \in 1 .. size |-> At(mem0, source0 + k - 1)]
    BY <1>1 DEF Slice
  <2>2. \A k \in 1 .. size : source0 + k - 1 \in Indices
    BY <1>1 DEF Indices
  <2>3. \A k \in 1 .. size : At(mem0, source0 + k - 1) = mem0[source0 + k - 1]
    BY <1>2, <2>2 DEF At
  <2> HIDE DEF payload
  <2>4. \A k \in 1 .. size : payload[k] = mem0[source0 + k - 1]
    BY <2>1, <2>3
  <2> QED
    BY <1>1, <2>1, <2>4
<1> HIDE DEF payload
<1>4. /\ \A k \in 0 .. (size - 1) : mem[source0 + k + shift] = mem0[source0 + k]
      /\ \A b \in Indices : b < source0 + shift \/ b >= source0 + shift + size => mem[b] = mem0[b]
  <2>1. CASE shift = 0
    BY <1>1, <2>1 DEF Inv
  <2>2. CASE i = size
    BY <1>1, <2>2 DEF Inv, Moved
  <2> QED
    BY <2>1, <2>2 DEF Inv
<1>5. ASSUME NEW b \in Indices
      PROVE  mem[b] = IF b \in source .. (source + Len(payload) - 1)
                      THEN payload[b - source + 1] ELSE mem0[b]
  <2>1. b \in Nat
    BY DEF Indices
  <2>2. CASE b \in source .. (source + size - 1)
    <3> DEFINE k == b - source
    <3>1. /\ k \in 0 .. (size - 1) /\ source0 + k + shift = b
          /\ k + 1 \in 1 .. size /\ source0 + (k + 1) - 1 = source0 + k
      BY <1>1, <2>1, <2>2
    <3> HIDE DEF k
    <3>2. mem[b] = mem0[source0 + k] /\ payload[k + 1] = mem0[source0 + k]
      BY <1>3, <1>4, <3>1
    <3> QED
      BY <1>3, <2>2, <3>2 DEF k
  <2>3. CASE b \notin source .. (source + size - 1)
    BY <1>1, <1>3, <1>4, <2>1, <2>3
  <2> QED
    BY <2>2, <2>3
<1> QED
  BY <1>2, <1>5 DEF OneMove, Store, payload

(* The loop over overlapping bytes (hitagi.c:441-457) leaves in rx_data    *)
(* what BinAck of FrameReceiver says in one step.                          *)
THEOREM LoopIsOneMove == Spec => [](pc = "aligned" => mem = OneMove)
  BY Invariance, MovedAtOnce, PTL
=============================================================================
