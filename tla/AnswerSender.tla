---------------------------- MODULE AnswerSender ----------------------------
(***************************************************************************)
(* The sending half of the loader: hitagi_send_packet_aux(), which builds  *)
(* an answer                                                               *)
(*                                                                         *)
(*     STX command [RS data] ETX                                           *)
(*                                                                         *)
(* in tx_data and cuts it into packets, usb_tx(), which puts a packet into *)
(* endpoint 2, and the host that reads them. The host learns where an      *)
(* answer ends from the USB framing alone: a packet that is not full ends  *)
(* the transfer.                                                           *)
(*                                                                         *)
(* The bytes of an answer are abstracted to their position: a packet is    *)
(* [ans, from], the number of the answer and the offset of its first byte, *)
(* so that a packet that is lost, repeated or overwritten can be told.     *)
(***************************************************************************)
EXTENDS Integers, Sequences

CONSTANTS
  Answers,          \* what the handlers send: sizes of command and data
  MaxAnswers,       \* how many of them (bound of the model)
  PacketSize,       \* USB_MAX_PACKET_SIZE
  TxDataSize        \* USB_MAX_TX_DATA_SIZE

NoData == -1        \* a NULL data pointer

(* bin is the size given to hitagi_send_bin_packet() (0 for the others),   *)
(* data the length of the string given to hitagi_send_packet().            *)
ASSUME SenderConstants ==
  /\ Answers \subseteq [cmd : Nat, bin : Nat, data : Nat \cup {NoData}]
  /\ MaxAnswers \in Nat
  /\ PacketSize \in 1 .. 63      \* the byte count of USB_E2_CR has six bits
  /\ TxDataSize \in Nat /\ TxDataSize >= 17

VARIABLES
  said,             \* lengths of the answers begun so far
  pc,               \* where the loader is
  part,             \* which portion of the answer is being sent
  i, j,             \* bytes left to send, and offset of the next one
  buf, count,       \* endpoint 2: hardware buffer and byte count
  int, xfren,       \* EP2_int, and the XFREN bit
  heard,            \* lengths of the answers the host has read to the end
  hostOff           \* bytes the host has read of the next one

loaderVars == <<said, pc, part, i, j>>
epVars     == <<buf, count, int, xfren>>
hostVars   == <<heard, hostOff>>
vars       == <<loaderVars, epVars, hostVars>>

-----------------------------------------------------------------------------
(* Building the answer.                                                    *)

Lesser(x, y) == IF x < y THEN x ELSE y

(* Mutant: the copying loops have no limit.                                *)
Filled_NoLimit(at, n) == at + n

(* The offset after copying n bytes to offset at, up to the loops' limit.  *)
Filled(at, n) == IF at < TxDataSize - 16 THEN Lesser(at + n, TxDataSize - 16) ELSE at

(* STX, the command, RS and the data if there are any, ETX.                *)
AnswerLength(a) ==
  LET head == Filled(1, a.cmd)
  IN IF a.bin > 0           THEN Filled(head + 1, a.bin) + 1
     ELSE IF a.data # NoData THEN Filled(head + 1, a.data) + 1
     ELSE head + 1

(* The portion to send next, when left bytes are left.                     *)
PartOf(left) == IF left >= PacketSize THEN "big" ELSE "small"

SendPacket ==
  /\ pc = "idle" /\ Len(said) < MaxAnswers
  /\ \E a \in Answers :
       /\ said' = Append(said, AnswerLength(a))
       /\ i'    = AnswerLength(a)
       /\ part' = PartOf(AnswerLength(a))
  /\ j' = 0 /\ pc' = "copy"
  /\ UNCHANGED <<epVars, hostVars>>

-----------------------------------------------------------------------------
(* usb_tx(): it is called again until it returns RESULT_OK.                *)

(* The controller serves the host from the buffer while this holds.        *)
Armed == xfren /\ ~int

(* Mutant: no test at all.                                                 *)
TxReady_Always == TRUE

TxReady == int \/ ~xfren

PortionSize ==
  IF part = "big" THEN PacketSize ELSE IF part = "small" THEN i ELSE 0

TxCopy ==
  /\ pc = "copy" /\ TxReady
  /\ buf' = [ans |-> Len(said), from |-> j]
  /\ pc'  = "count"
  /\ UNCHANGED <<said, part, i, j, count, int, xfren, hostVars>>

TxCount ==
  /\ pc = "count"
  /\ count' = PortionSize % 64
  /\ pc'    = "clear"
  /\ UNCHANGED <<said, part, i, j, buf, int, xfren, hostVars>>

(* IEOFC takes back EP2_int ...                                            *)
TxClear ==
  /\ pc = "clear"
  /\ int' = FALSE
  /\ pc'  = "enable"
  /\ UNCHANGED <<said, part, i, j, buf, count, xfren, hostVars>>

(* What the send loop does after a full packet that left none: it sends an *)
(* empty one. Mutant: it does not.                                         *)
AfterBig_NoEmptyPacket(left) ==
  IF left = 0 THEN pc' = "idle" /\ UNCHANGED part ELSE pc' = "copy" /\ part' = PartOf(left)

AfterBig(left) ==
  pc' = "copy" /\ part' = IF left = 0 THEN "empty" ELSE PartOf(left)

(* Mutant: the offset does not move with the bytes left.                   *)
Advance_KeepsOffset ==
  i' = i - PacketSize /\ UNCHANGED j

Advance ==
  i' = i - PacketSize /\ j' = j + PacketSize

(* ... and XFREN offers the packet; usb_tx() returns and the loop goes on. *)
TxEnable ==
  /\ pc = "enable"
  /\ xfren' = TRUE
  /\ \/ part = "big" /\ Advance /\ AfterBig(i - PacketSize)
     \/ part = "small" /\ i' = 0 /\ pc' = "idle" /\ UNCHANGED <<j, part>>
     \/ part = "empty" /\ pc' = "idle" /\ UNCHANGED <<i, j, part>>
  /\ UNCHANGED <<said, buf, count, int, hostVars>>

-----------------------------------------------------------------------------
(* The controller and the host: the host reads the packet, which raises    *)
(* EP2_int; whether that also clears XFREN the loader does not rely on.    *)
HostRead ==
  /\ Armed
  /\ int' = TRUE
  /\ xfren' \in BOOLEAN
  /\ IF count < PacketSize
     THEN heard' = Append(heard, hostOff + count) /\ hostOff' = 0
     ELSE hostOff' = hostOff + count /\ UNCHANGED heard
  /\ UNCHANGED <<loaderVars, buf, count>>

Init ==
  /\ said = << >> /\ pc = "idle" /\ part = "small" /\ i = 0 /\ j = 0
  /\ buf = [ans |-> 0, from |-> 0] /\ count = 0
  /\ int \in BOOLEAN /\ xfren = FALSE
  /\ heard = << >> /\ hostOff = 0

UsbTx == TxCopy \/ TxCount \/ TxClear \/ TxEnable

Next == SendPacket \/ UsbTx \/ HostRead

(* The loader does not stop inside an answer, and the host reads until the *)
(* answer has ended; neither has to begin another one.                     *)
Fairness == WF_vars(UsbTx) /\ WF_vars(HostRead)

Spec == Init /\ [][Next]_vars /\ Fairness

-----------------------------------------------------------------------------
(* Properties.                                                             *)

(* The variables keep their types; the answer never fills tx_data, so that *)
(* the NUL behind ETX is inside the array.                                 *)
TypeOK ==
  /\ said \in Seq(1 .. (TxDataSize - 1)) /\ Len(said) <= MaxAnswers
  /\ pc \in {"idle", "copy", "count", "clear", "enable"}
  /\ part \in {"big", "small", "empty"}
  /\ i \in Nat /\ j \in Nat
  /\ buf \in [ans : Nat, from : Nat] /\ count \in 0 .. 63
  /\ int \in BOOLEAN /\ xfren \in BOOLEAN
  /\ heard \in Seq(Nat) /\ hostOff \in Nat

(* The packet the host can read continues what it has read: it belongs to  *)
(* the same answer and starts at the very next byte. No packet is skipped, *)
(* repeated or replaced by a later one before it was read.                 *)
InOrder == Armed => buf = [ans |-> Len(heard) + 1, from |-> hostOff]

(* The hardware buffer and its count never change under the controller.    *)
NoOverwrite == [][<<buf, count>>' # <<buf, count>> => ~Armed]_vars

(* When the loader has finished an answer and the host has read what was   *)
(* offered, the host knows that the answer has ended: its transfer is not  *)
(* left open by an answer that fills its last packet.                      *)
NothingLeftOpen ==
  pc = "idle" /\ ~Armed => hostOff = 0 /\ Len(heard) = Len(said)

(* The refinement: the host hears the answers said, each of the length it  *)
(* was built with.                                                         *)
Answer == INSTANCE Channel WITH
  Messages <- 1 .. (TxDataSize - 1), sent <- said, taken <- heard

ImplementsChannel == Answer!Spec

(* Every answer begun is heard to its end.                                 *)
EveryAnswerHeard ==
  \A n \in 1 .. MaxAnswers : Len(said) >= n ~> Len(heard) >= n
=============================================================================
