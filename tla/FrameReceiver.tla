--------------------------- MODULE FrameReceiver ----------------------------
(***************************************************************************)
(* The receiving half of the loader: hitagi_read_packets(), which cuts the *)
(* byte stream of USB endpoint 1 into Motorola Flash Protocol frames       *)
(*                                                                         *)
(*     STX command [RS data] ETX                                           *)
(*                                                                         *)
(* usb_rx(), which empties the endpoint, the receive loop of               *)
(* hitagi_command_BIN(), and the hand-over to the command handlers.        *)
(*                                                                         *)
(* The loader is a single thread that polls: between two calls of usb_rx() *)
(* nothing else touches its memory, so one action stands for the code from *)
(* one such call (or one decision) to the next. The host and the USB       *)
(* controller run concurrently: they fill the endpoint between any two     *)
(* actions. A frame is a record [cmd, rs, data]; rs says whether the       *)
(* separator is present.                                                   *)
(***************************************************************************)
EXTENDS ByteMemory, SequencesExt

CONSTANTS
  Frames,                 \* the frames the host may send
  MaxFrames,              \* how many of them it sends (bound of the model)
  Window,                 \* how many of them may be unanswered at a time
  Coalesce,               \* does the host put several frames into one packet?
  PacketSize,             \* bytes in a full USB packet of endpoint 1
  DataArraySize,          \* USB_DATA_ARRAY_SIZE
  RxDataSize,             \* USB_MAX_RX_DATA_SIZE
  RxDataAlign,            \* the address of rx_data modulo 4
  CommandSize,            \* MAX_COMMAND_STR_SIZE
  MinBin, MaxBin          \* MIN_BIN_PACKET_SIZE, MAX_BIN_PACKET_SIZE

ASSUME ReceiverConstants ==
  /\ MaxFrames \in Nat /\ Window \in Nat \ {0} /\ Coalesce \in BOOLEAN
  /\ PacketSize \in {16, 32}     \* the LTE1 and the LTE2 build
  /\ DataArraySize \in Nat /\ RxDataSize \in Nat /\ CommandSize \in Nat \ {0}
  /\ RxDataAlign \in 0 .. 3 /\ MinBin \in Nat /\ MaxBin \in Nat
  (* 32; 8192 + 128; 12; 8 and 8192 in the code                            *)
  /\ PacketSize <= DataArraySize /\ CommandSize + 2 <= PacketSize
  /\ 3 * PacketSize <= RxDataSize /\ MaxBin + PacketSize < RxDataSize

BinStr == <<66, 73, 78>>         \* "BIN"
MaxDataFieldSize == 2            \* MAX_DATA_FIELD_SIZE
EvenNumber == 2                  \* EVEN_NUMBER
Null == -1                       \* a NULL pointer; others are indices
Bytes == 0 .. 255                \* the values of a u8

VARIABLES
  sent,                   \* frames the host has sent
  outbox,                 \* transfers queued in the host: sequences of packets
  ep1,                    \* endpoint 1: [int, err, stall, bytes]
  pc,                     \* where the loader is
  arr,                    \* data_array
  rxd,                    \* rx_data
  cmd,                    \* rx_command[0 .. command_ptr)
  bytes,                  \* bytes_received, a u8
  prev,                   \* previous_command_offset, a u8
  acc,                    \* accumulated_bytes_received
  cur,                    \* current_ptr, an index of data_array
  dp,                     \* data_ptr, an index of rx_data or Null
  nxt,                    \* buffer_next_byte, an index of rx_data or Null
  bin,                    \* the locals of hitagi_command_BIN
  answers,                \* answers sent to the host
  dispatched              \* what the command handlers were given

hostVars   == <<sent, outbox>>
parserVars == <<pc, arr, rxd, cmd, bytes, prev, acc, cur, dp, nxt, bin>>
vars       == <<hostVars, ep1, parserVars, answers, dispatched>>

-----------------------------------------------------------------------------
(* The host and the bus.                                                   *)

ValidBinSize(n) == n >= MinBin /\ n <= MaxBin /\ n % EvenNumber = 0

NoPacket == [int |-> FALSE, err |-> FALSE, stall |-> FALSE, bytes |-> << >>]

(* How the host writes a frame on the wire.                                *)
Encode(f) == <<STX>> \o f.cmd \o (IF f.rs THEN <<RS>> \o f.data ELSE << >>) \o <<ETX>>

(* A transfer of s as USB packets: all of them full but the last.          *)
Chop(s) ==
  [k \in 1 .. ((Len(s) + PacketSize - 1) \div PacketSize) |->
     SubSeq(s, (k - 1) * PacketSize + 1, Min({k * PacketSize, Len(s)}))]

(* The host may also write the header of a frame, up to RS or the first    *)
(* byte of the data, ahead of the rest, when the rest fits into a packet.  *)
HeaderFirst(f) ==
  {<<SubSeq(Encode(f), 1, n), SubSeq(Encode(f), n + 1, Len(Encode(f)))>> :
     n \in {k \in {Len(f.cmd) + 2, Len(f.cmd) + 3} :
             f.rs /\ k < Len(Encode(f)) /\ Len(Encode(f)) - k <= PacketSize}}

(* The host sends a frame as a transfer of its own, which it may end with  *)
(* an empty packet when the last one is full; or, when it coalesces, adds  *)
(* the frame to the bytes it has not sent yet.                             *)
Transfers(f) ==
  LET s == Encode(f)
  IN {Chop(s)} \cup (IF Len(s) % PacketSize = 0 THEN {Append(Chop(s), << >>)} ELSE {})
              \cup HeaderFirst(f)

HostSend ==
  /\ Len(sent) < MaxFrames
  /\ Len(sent) < answers + Window
  /\ \E f \in Frames :
       /\ sent' = Append(sent, f)
       /\ IF Coalesce
          THEN outbox' = <<Chop(FlattenSeq(FlattenSeq(outbox)) \o Encode(f))>>
          ELSE \E t \in Transfers(f) : outbox' = Append(outbox, t)
  /\ UNCHANGED <<ep1, parserVars, answers, dispatched>>

(* What the parser takes for granted and the loader does not check: a      *)
(* transfer for every frame, names without control characters, a BIN whose *)
(* size field tells the truth, and data that ends in the second packet.    *)
HostKeepsProtocol ==
  /\ ~Coalesce
  /\ \A f \in Frames :
       /\ f \in [cmd : Seq(Bytes), rs : BOOLEAN, data : Seq(Bytes)]
       /\ Len(f.cmd) < CommandSize /\ \A k \in DOMAIN f.cmd : f.cmd[k] \notin {ETX, RS}
       /\ ~f.rs => f.data = << >> /\ f.cmd # BinStr
       /\ f.rs /\ f.cmd = BinStr =>
            /\ Len(f.data) >= MaxDataFieldSize
            /\ LET size == 256 * f.data[1] + f.data[2]
               IN ValidBinSize(size) /\ Len(f.data) = MaxDataFieldSize + size + 1
       /\ f.rs /\ f.cmd # BinStr =>
            /\ Len(Encode(f)) <= 2 * PacketSize
            /\ \A k \in DOMAIN f.data : f.data[k] \notin {ETX, NUL}

FirstPacket(q) == Head(Head(q))
AfterFirst(q) ==
  IF Tail(Head(q)) = << >> THEN Tail(q) ELSE <<Tail(Head(q))>> \o Tail(q)

(* A packet reaches the endpoint, which raises EP1_int; until the flag is  *)
(* cleared the controller refuses the next one.                            *)
BusDeliver ==
  /\ outbox # << >> /\ ~ep1.int
  /\ ep1' = [NoPacket EXCEPT !.int = TRUE, !.bytes = FirstPacket(outbox)]
  /\ outbox' = AfterFirst(outbox)
  /\ UNCHANGED <<sent, parserVars, answers, dispatched>>

(* A packet is damaged on the way: the endpoint raises ERRF and holds what *)
(* arrived, and the host keeps the packet.                                 *)
BusError ==
  /\ outbox # << >> /\ ~ep1.int /\ FirstPacket(outbox) # << >>
  /\ ep1' = [NoPacket EXCEPT !.int = TRUE, !.err = TRUE,
                             !.bytes = [FirstPacket(outbox) EXCEPT ![1] = ETX]]
  /\ UNCHANGED <<hostVars, parserVars, answers, dispatched>>

-----------------------------------------------------------------------------
(* usb_rx(): the bytes it returns, and what it does to the endpoint.       *)

Received == IF ep1.int /\ ~ep1.err THEN ep1.bytes ELSE << >>

UsbRx ==
  ep1' = IF ~ep1.int THEN ep1
         ELSE IF ep1.err THEN [ep1 EXCEPT !.stall = TRUE]
         ELSE NoPacket

-----------------------------------------------------------------------------
(* hitagi_read_packets().                                                  *)

(* Read a packet behind what the last frame left, and skip to STX.         *)
Poll ==
  /\ pc = "poll"
  /\ UsbRx
  /\ arr' = Store(arr, prev, Received)
  /\ IF Received = << >>
     THEN UNCHANGED <<pc, bytes, cur>>
     ELSE LET n   == U8(Len(Received) + prev)
              stx == FirstIn(arr', 0, {STX})
          IN /\ pc'    = IF stx < n THEN "command" ELSE "poll"
             /\ bytes' = IF stx < n THEN n - stx - 1 ELSE 0
             /\ cur'   = Min({stx, n}) + 1
  /\ UNCHANGED <<hostVars, rxd, cmd, prev, acc, dp, nxt, bin, answers, dispatched>>

(* Copy the command up to RS or ETX. The test for the end of the packet    *)
(* decrements after comparing, so the command takes one byte more than     *)
(* the packet holds before the next packet is read over it.                *)
Command ==
  /\ pc = "command"
  /\ Len(cmd) < CommandSize
  /\ LET stop == FirstIn(arr, cur, {ETX, RS})
     IN \/ /\ stop - cur <= bytes
           /\ cmd'   = cmd \o Slice(arr, cur, stop)
           /\ bytes' = bytes - (stop - cur)
           /\ cur'   = stop
           /\ pc'    = "separator"
           /\ UNCHANGED <<arr, ep1>>
        \/ /\ stop - cur > bytes
           /\ cmd'   = cmd \o Slice(arr, cur, cur + bytes + 1)
           /\ UsbRx
           /\ arr'   = Store(arr, 0, Received)
           /\ bytes' = Len(Received)
           /\ cur'   = 0
           /\ UNCHANGED pc
  /\ UNCHANGED <<hostVars, rxd, prev, acc, dp, nxt, bin, answers, dispatched>>

(* Mutant: the separator and one byte more are taken off the count.        *)
Behind_OffByOne(n) == U8(n - 2)

(* How many bytes are behind the separator, or behind ETX, when n bytes    *)
(* are counted from it on.                                                 *)
Behind(n) == U8(n - 1)

(* After RS, the rest of the packet is the start of the data.              *)
Separator ==
  /\ pc = "separator"
  /\ IF At(arr, cur) = RS
     THEN LET n == Behind(bytes)
          IN /\ rxd' = Store(rxd, 0, Slice(arr, cur + 1, cur + 1 + n))
             /\ acc' = n /\ dp' = n /\ bytes' = 0
             /\ pc'  = IF cmd = BinStr THEN "bin_size" ELSE "data"
     ELSE /\ dp' = Null /\ pc' = "dispatch"
          /\ UNCHANGED <<rxd, acc, bytes>>
  /\ UNCHANGED <<hostVars, ep1, arr, cmd, prev, cur, nxt, bin, answers, dispatched>>

(* BIN: read on until the two bytes of the size are there.                 *)
BinSizeBytes ==
  /\ pc = "bin_size" /\ acc < MaxDataFieldSize
  /\ UsbRx
  /\ bytes' = U8(bytes + Len(Received))
  /\ rxd'   = Store(rxd, dp, Received)
  /\ acc'   = acc + bytes'
  /\ dp'    = dp + bytes'
  /\ UNCHANGED <<hostVars, pc, arr, cmd, prev, cur, nxt, bin, answers, dispatched>>

BinSize(mem, at) == 256 * At(mem, at) + At(mem, at + 1)

(* BIN: check the size. A refused frame is answered with ERR and goes to   *)
(* the handler all the same, with the pointers as they are.                *)
BinSizeCheck ==
  /\ pc = "bin_size" /\ acc >= MaxDataFieldSize
  /\ pc' = "dispatch"
  /\ IF ValidBinSize(BinSize(rxd, 0))
     THEN nxt' = dp /\ dp' = 0 /\ UNCHANGED answers
     ELSE answers' = answers + 1 /\ UNCHANGED <<nxt, dp>>
  /\ UNCHANGED <<hostVars, ep1, arr, rxd, cmd, bytes, prev, acc, cur, bin, dispatched>>

(* Other commands: look for ETX in the data at hand; what is behind it in  *)
(* the packet belongs to the next frame.                                   *)
Data ==
  /\ pc = "data"
  /\ LET etx == FirstIn(rxd, 0, {ETX})
     IN IF etx < acc
        THEN prev' = Behind(acc - etx) /\ dp' = etx + 1 /\ pc' = "leftover"
        ELSE prev' = 0 /\ dp' = acc /\ pc' = "more_data"
  /\ UNCHANGED <<hostVars, ep1, arr, rxd, cmd, bytes, acc, cur, nxt, bin, answers, dispatched>>

(* Mutant: it does not wait for the packet.                                *)
MoreData_NoWait ==
  /\ pc = "more_data"
  /\ UsbRx
  /\ rxd' = Store(rxd, dp, Received) /\ bytes' = Len(Received) /\ pc' = "scan"
  /\ UNCHANGED <<hostVars, arr, cmd, prev, acc, cur, dp, nxt, bin, answers, dispatched>>

(* No ETX yet: wait for the next packet ...                                *)
MoreData ==
  /\ pc = "more_data"
  /\ UsbRx
  /\ rxd'   = Store(rxd, dp, Received)
  /\ bytes' = Len(Received)
  /\ pc'    = IF Received = << >> THEN "more_data" ELSE "scan"
  /\ UNCHANGED <<hostVars, arr, cmd, prev, acc, cur, dp, nxt, bin, answers, dispatched>>

(* ... and scan it. At its end the loop reads once and, whatever it got,   *)
(* goes on: with nothing received the counter wraps from 0 to 255 and the  *)
(* scan runs over the old contents of rx_data.                             *)
Scan ==
  /\ pc = "scan"
  /\ LET left == IF bytes = 0 THEN 256 ELSE bytes
         etx  == FirstIn(rxd, dp, {ETX})
     IN IF etx < dp + left
        THEN /\ bytes' = U8(left - (etx - dp))
             /\ prev'  = IF bytes' # 0 THEN Behind(bytes') ELSE prev
             /\ dp'    = etx + 1
             /\ pc'    = "leftover"
             /\ UNCHANGED <<ep1, rxd>>
        ELSE /\ UsbRx
             /\ rxd'   = Store(rxd, dp + left, Received)
             /\ bytes' = Len(Received)
             /\ dp'    = dp + left
             /\ UNCHANGED <<pc, prev>>
  /\ UNCHANGED <<hostVars, arr, cmd, acc, cur, nxt, bin, answers, dispatched>>

(* Mutant: the data is not terminated.                                     *)
Leftover_NoNul ==
  /\ pc = "leftover"
  /\ arr' = Store(arr, 0, Slice(rxd, dp, dp + prev))
  /\ dp'  = 0
  /\ pc'  = "dispatch"
  /\ UNCHANGED <<hostVars, ep1, rxd, cmd, bytes, prev, acc, cur, nxt, bin, answers, dispatched>>

(* Copy the bytes of the next frame back to data_array and terminate the   *)
(* data: the NUL goes behind ETX and behind the bytes copied back.         *)
Leftover ==
  /\ pc = "leftover"
  /\ arr' = Store(arr, 0, Slice(rxd, dp, dp + prev))
  /\ rxd' = Store(rxd, dp + prev, <<NUL>>)
  /\ dp'  = 0
  /\ pc'  = "dispatch"
  /\ UNCHANGED <<hostVars, ep1, cmd, bytes, prev, acc, cur, nxt, bin, answers, dispatched>>

(* hitagi_commands(): every handler but BIN reads what it was given and    *)
(* sends one answer (an unknown command is answered with ERR).             *)
Dispatch ==
  /\ pc = "dispatch" /\ cmd # BinStr
  /\ dispatched' = Append(dispatched,
       [cmd |-> cmd, rs |-> dp # Null, data |-> IF dp = Null THEN << >> ELSE CString(rxd)])
  /\ answers' = answers + 1
  /\ pc' = "poll" /\ cmd' = << >> /\ dp' = Null
  /\ UNCHANGED <<hostVars, ep1, arr, rxd, bytes, prev, acc, cur, nxt, bin>>

(* hitagi_command_BIN(): the number of payload bytes at hand is the        *)
(* difference of two pointers, as a u32: huge when it is negative.         *)
DispatchBin ==
  /\ pc = "dispatch" /\ cmd = BinStr
  /\ bin' = [size  |-> BinSize(rxd, dp), src |-> dp + MaxDataFieldSize, to |-> nxt,
             total |-> IF nxt < dp + MaxDataFieldSize THEN 2 ^ 16
                       ELSE nxt - (dp + MaxDataFieldSize)]
  /\ pc' = "bin_data"
  /\ UNCHANGED <<hostVars, ep1, arr, rxd, cmd, bytes, prev, acc, cur, dp, nxt, answers, dispatched>>

(* Mutant: the bytes of a packet are not counted.                          *)
BinReceive_NotCounted ==
  /\ pc = "bin_data" /\ bin.total < bin.size
  /\ UsbRx
  /\ rxd' = Store(rxd, bin.to, Received) /\ bin' = [bin EXCEPT !.to = @ + Len(Received)]
  /\ UNCHANGED <<hostVars, pc, arr, cmd, bytes, prev, acc, cur, dp, nxt, answers, dispatched>>

BinReceive ==
  /\ pc = "bin_data" /\ bin.total < bin.size
  /\ UsbRx
  /\ rxd' = Store(rxd, bin.to, Received)
  /\ bin' = [bin EXCEPT !.total = @ + Len(Received), !.to = @ + Len(Received)]
  /\ UNCHANGED <<hostVars, pc, arr, cmd, bytes, prev, acc, cur, dp, nxt, answers, dispatched>>

(* The payload is there: answer ACK, move it right to the next multiple of *)
(* four bytes (module Realign has that loop) and use it from there.        *)
BinAck ==
  /\ pc = "bin_data" /\ bin.total >= bin.size
  /\ answers' = answers + 1
  /\ LET shift == (4 - ((RxDataAlign + bin.src) % 4)) % 4
         src   == bin.src + shift
     IN /\ rxd' = Store(rxd, src, Slice(rxd, bin.src, bin.src + bin.size))
        /\ dispatched' = Append(dispatched,
             [cmd |-> cmd, rs |-> TRUE, data |-> Slice(rxd', src, src + bin.size)])
  /\ pc' = "poll" /\ cmd' = << >> /\ dp' = Null
  /\ UNCHANGED <<hostVars, ep1, arr, bytes, prev, acc, cur, nxt, bin>>

-----------------------------------------------------------------------------
(* The buffers are longer than in C by the longest write (ByteMemory); they *)
(* start with what the memory held, here a byte the parser would stop at.  *)
Init ==
  /\ sent = << >> /\ outbox = << >> /\ ep1 = NoPacket
  /\ pc = "poll" /\ cmd = << >> /\ bytes = 0 /\ prev = 0 /\ acc = 0 /\ cur = 0
  /\ dp = Null /\ nxt = Null /\ bin = [size |-> 0, src |-> 0, to |-> 0, total |-> 0]
  /\ answers = 0 /\ dispatched = << >>
  /\ \E garbage \in {STX, ETX} :
       /\ arr = [k \in 0 .. (DataArraySize + PacketSize) |-> garbage]
       /\ rxd = [k \in 0 .. (RxDataSize + PacketSize) |-> garbage]

Loader ==
  \/ Poll \/ Command \/ Separator \/ BinSizeBytes \/ BinSizeCheck \/ Data
  \/ MoreData \/ Scan \/ Leftover \/ Dispatch \/ DispatchBin \/ BinReceive \/ BinAck

Next == HostSend \/ BusDeliver \/ BusError \/ Loader

(* The loader never sleeps, and a host that has started a transfer goes on *)
(* with it; the host need not send, and the bus need not fail.             *)
Fairness == WF_vars(Loader) /\ WF_vars(BusDeliver)

Spec == Init /\ [][Next]_vars /\ Fairness

-----------------------------------------------------------------------------
(* Properties.                                                             *)

(* Every variable keeps its type and its range: no count of bytes exceeds  *)
(* a packet (one that wraps below 0 does, and one that takes a packet in   *)
(* twice), current_ptr does not run past the byte behind a packet, and the *)
(* data are in two packets when a pointer into rx_data is kept.            *)
TypeOK ==
  /\ sent \in Seq(Frames)
  /\ outbox \in Seq(Seq(Seq(Bytes)))
  /\ ep1.int \in BOOLEAN /\ ep1.err \in BOOLEAN /\ ep1.stall \in BOOLEAN
  /\ pc \in {"poll", "command", "separator", "bin_size", "data", "more_data",
             "scan", "leftover", "dispatch", "bin_data"}
  /\ bytes \in 0 .. PacketSize /\ prev \in 0 .. PacketSize /\ cur \in 0 .. (PacketSize + 1)
  /\ acc \in 0 .. (2 * PacketSize)
  /\ dp \in {Null} \cup 0 .. (2 * PacketSize) /\ nxt \in {Null} \cup 0 .. (2 * PacketSize)
  /\ answers \in Nat

(* The refinement: what the loader hands to its command handlers are the   *)
(* frames the host sent, in order and once each. A BIN handler is given    *)
(* the payload behind the size field; the data of any other command ends   *)
(* with ETX, because the terminating NUL is put behind it.                 *)
Handed(f) ==
  [f EXCEPT !.data = IF f.cmd = BinStr THEN SubSeq(@, 3, 2 + 256 * @[1] + @[2])
                     ELSE IF f.rs THEN Append(@, ETX) ELSE @]

Frame == INSTANCE Channel WITH
  Messages <- {Handed(f) : f \in Frames},
  sent     <- [k \in DOMAIN sent |-> Handed(sent[k])],
  taken    <- dispatched

ImplementsChannel == Frame!Spec

(* Wherever the next usb_rx() or copy writes, a full packet fits: behind   *)
(* the leftovers in data_array, in rx_data behind the data or the payload  *)
(* received so far, and the command name with its NUL in rx_command. The   *)
(* payload fits where it is shifted to, by as much as three bytes.         *)
BuffersHold ==
  /\ Len(cmd) < CommandSize
  /\ pc = "poll" => prev + PacketSize <= DataArraySize
  /\ pc \in {"bin_size", "more_data"} => dp + PacketSize <= RxDataSize
  /\ pc = "scan" => dp + bytes + PacketSize <= RxDataSize
  /\ pc = "leftover" => prev <= DataArraySize /\ dp + prev < RxDataSize
  /\ pc = "bin_data" /\ bin.total < bin.size => bin.to + PacketSize <= RxDataSize
  /\ pc = "bin_data" => bin.src + 3 + bin.size <= RxDataSize

(* The parser never takes a byte it has not received for one of the frame: *)
(* the command name ends inside the bytes counted, and the scan for ETX    *)
(* never goes on with a count of zero (which would wrap to 255).           *)
ReadsOnlyReceived ==
  /\ pc = "command" => FirstIn(arr, cur, {ETX, RS}) - cur < bytes
  /\ pc = "scan" => bytes > 0

(* Every frame the host sends is executed and answered, unless the         *)
(* endpoint has reported a bus error, from which usb_rx() never recovers.  *)
EveryFrameAnswered ==
  \A n \in 1 .. MaxFrames :
    Len(sent) >= n ~> (answers >= n /\ Len(dispatched) >= n) \/ ep1.err

(* What the size check is there for (hitagi.c:965): a BIN frame whose size *)
(* is refused with ERR is not executed.                                    *)
RefusedNotExecuted ==
  \A k \in DOMAIN dispatched :
    dispatched[k].cmd = BinStr => ValidBinSize(Len(dispatched[k].data))

(* What hitagi.c:904 says of the bytes behind a frame, "add to any data    *)
(* left over from previous command": the commands executed are the ones    *)
(* sent, wherever the host puts the packet boundaries.                     *)
ExecutedAsSent ==
  IsPrefix([k \in DOMAIN dispatched |-> dispatched[k].cmd],
           [k \in DOMAIN sent |-> sent[k].cmd])
=============================================================================
