------------------------------ MODULE Realign ------------------------------
(***************************************************************************)
(* The loop of hitagi_command_BIN() that shifts the payload of a BIN       *)
(* command to the right, inside rx_data, until it starts at a multiple of  *)
(* four bytes. Source and target overlap, so the copy runs from the last   *)
(* byte to the first. FrameReceiver takes what it does as one step         *)
(* (BinAck); here every iteration is a step.                               *)
(***************************************************************************)
EXTENDS Integers

CONSTANTS
  Values,           \* the values of a byte
  Buffers,          \* what rx_data may hold
  RxDataSize,       \* USB_MAX_RX_DATA_SIZE
  Bases,            \* the addresses rx_data may have
  MaxSource,        \* the payload starts at index 1 .. MaxSource of rx_data
  MaxSize           \* MAX_BIN_PACKET_SIZE

ASSUME RealignConstants ==
  /\ RxDataSize \in Nat /\ MaxSize \in Nat /\ MaxSource \in Nat /\ Bases \subseteq Nat
  /\ Buffers \subseteq [0 .. (RxDataSize - 1) -> Values]
  /\ MaxSource + MaxSize + 3 <= RxDataSize

VARIABLES
  mem,              \* rx_data
  base, size,       \* its address, and received_packet_size
  source,           \* source_ptr, an index of rx_data
  shift,            \* nr_shift_right
  ptr,              \* data_aligned_ptr, an index of rx_data
  i,                \* the loop counter
  pc,               \* "start", "shifting" or "aligned"
  mem0, source0     \* rx_data and source_ptr at the start

vars == <<mem, base, size, source, shift, ptr, i, pc, mem0, source0>>

Align == 4          \* sizeof(u32)

(* Mutant: the second reduction is left out.                               *)
ShiftFor_Four(a) == Align - (a % Align)

ShiftFor(a) == (Align - (a % Align)) % Align

Start ==
  /\ pc = "start"
  /\ shift' = ShiftFor(base + source)
  /\ IF shift' = 0 THEN pc' = "aligned" /\ UNCHANGED ptr
                   ELSE pc' = "shifting" /\ ptr' = source + size - 1
  /\ UNCHANGED <<mem, base, size, source, i, mem0, source0>>

(* Mutants: the copy runs from the first byte to the last, or takes one    *)
(* byte more.                                                              *)
Shift_OneMore ==
  /\ pc = "shifting" /\ i <= size
  /\ mem' = [mem EXCEPT ![ptr + shift] = mem[ptr]]
  /\ i' = i + 1 /\ ptr' = ptr - 1
  /\ UNCHANGED <<base, size, source, shift, pc, mem0, source0>>

Shift_Forward ==
  /\ pc = "shifting" /\ i < size
  /\ mem' = [mem EXCEPT ![source + i + shift] = mem[source + i]]
  /\ i' = i + 1 /\ ptr' = ptr - 1
  /\ UNCHANGED <<base, size, source, shift, pc, mem0, source0>>

Shift ==
  /\ pc = "shifting" /\ i < size
  /\ mem' = [mem EXCEPT ![ptr + shift] = mem[ptr]]
  /\ i' = i + 1 /\ ptr' = ptr - 1
  /\ UNCHANGED <<base, size, source, shift, pc, mem0, source0>>

Shifted ==
  /\ pc = "shifting" /\ i = size
  /\ source' = source + shift /\ pc' = "aligned"
  /\ UNCHANGED <<mem, base, size, shift, ptr, i, mem0, source0>>

Init ==
  /\ mem \in Buffers /\ mem0 = mem
  /\ base \in Bases /\ size \in 0 .. MaxSize
  /\ source \in 0 .. MaxSource /\ source0 = source
  /\ shift = 0 /\ ptr = 0 /\ i = 0 /\ pc = "start"

Next == Start \/ Shift \/ Shifted

Spec == Init /\ [][Next]_vars

-----------------------------------------------------------------------------
(* Properties.                                                             *)

Indices == 0 .. (RxDataSize - 1)

(* The payload is shifted by at most three bytes, as the comment in the    *)
(* code says ("Within 0..3"), and stays inside rx_data.                    *)
TypeOK ==
  /\ mem \in [Indices -> Values] /\ mem0 \in Buffers
  /\ base \in Bases /\ size \in 0 .. MaxSize /\ shift \in 0 .. 3
  /\ source0 \in 0 .. MaxSource /\ source \in Nat /\ source + size <= RxDataSize
  /\ i \in 0 .. size /\ ptr \in Int /\ pc \in {"start", "shifting", "aligned"}

(* At the end the payload starts at a multiple of four and is the one the  *)
(* host sent, although the shift has overwritten part of it on the way.    *)
PayloadAligned ==
  pc = "aligned" =>
    /\ (base + source) % Align = 0
    /\ \A k \in 0 .. (size - 1) : mem[source + k] = mem0[source0 + k]

(* At no time has a byte changed that the shifted payload does not cover:  *)
(* neither the size field before it nor what is behind it.                 *)
NothingElse ==
  \A b \in Indices :
    mem[b] # mem0[b] => source0 + shift <= b /\ b < source0 + shift + size
=============================================================================
