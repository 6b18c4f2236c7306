-------------------------- MODULE MCFrameReceiver --------------------------
(***************************************************************************)
(* Instances of FrameReceiver for TLC: the LTE1 build (packets of 16       *)
(* bytes), with frames of the lengths the commands really have. Data bytes *)
(* are chosen to be mistaken for the control characters where they can be. *)
(***************************************************************************)
EXTENDS FrameReceiver

NoData(c)   == [cmd |-> c, rs |-> FALSE, data |-> << >>]
WithData(c, d) == [cmd |-> c, rs |-> TRUE, data |-> d]
Fill(n, b)  == [k \in 1 .. n |-> b]

ERASE == <<69, 82, 65, 83, 69>>
ADDR  == <<65, 68, 68, 82>>
RQRC  == <<82, 81, 82, 67>>

(* Payload of n bytes that starts and ends with control characters, and a  *)
(* checksum that looks like STX.                                           *)
Payload(n) == [k \in 1 .. n |-> IF k % 2 = 1 THEN STX ELSE ETX]
Bin(n, payload) == [cmd |-> BinStr, rs |-> TRUE,
                    data |-> <<n \div 256, n % 256>> \o payload \o <<STX>>]

EraseFrame == NoData(ERASE)
AddrFrame  == WithData(ADDR, Fill(10, 65))     \* 17 bytes: ETX alone in a packet
RqrcFrame  == WithData(RQRC, Fill(17, 66))     \* 24 bytes: ETX inside packet 2
ShortFrame == WithData(ADDR, <<STX, 65>>)      \* one packet

MCFrames == {EraseFrame, AddrFrame, RqrcFrame,
             Bin(8, Payload(8)),             \* 17 bytes: ETX alone in a packet
             Bin(24, Payload(24))}           \* 33 bytes: ETX alone in packet 3

ASSUME ProtocolKept == Frames = MCFrames => HostKeepsProtocol

(* Frames for the host that fills its packets with several of them.        *)
CoalescedFrames == {EraseFrame, ShortFrame}

(* A BIN frame whose size is odd, and a good one that may come before it.  *)
RefusedFrames == {Bin(8, Payload(8)), Bin(9, Payload(9))}
=============================================================================
