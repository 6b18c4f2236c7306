------------------------- MODULE AnswerSenderProofs -------------------------
(***************************************************************************)
(* Proofs about AnswerSender, for every packet size, every size of tx_data *)
(* and every set of answers.                                               *)
(*                                                                         *)
(* The invariant relates three positions in the stream of bytes: what the  *)
(* host has read (heard, hostOff), the packet in endpoint 2 (buf, count)   *)
(* and where the loader is in the answer it sends (said, j, part). InOrder *)
(* alone is not inductive: whether the next packet will continue what the  *)
(* host has read depends on where the packet before it ended, and that, on *)
(* whether the host has taken it, at every step of usb_tx().               *)
(***************************************************************************)
EXTENDS AnswerSender, TLAPS

(* The answer being sent, or sent last.                                    *)
Current == said[Len(said)]

(* The send loop: the bytes left and the offset add up to the answer, and  *)
(* the portion chosen fits the bytes left.                                 *)
LoopInv ==
  pc # "idle" =>
    /\ Len(said) > 0
    /\ i + j = Current
    /\ part = "big"   => i >= PacketSize
    /\ part = "small" => i > 0 /\ i < PacketSize
    /\ part = "empty" => i = 0

(* The host has read everything before the portion at j.                   *)
ReadToHere == Len(heard) + 1 = Len(said) /\ hostOff = j

(* The packet in endpoint 2 is the next one for the host.                  *)
PacketIsNext == buf = [ans |-> Len(heard) + 1, from |-> hostOff]

(* The packet in endpoint 2 is the last one of the n-th answer.            *)
EndsAnswer(n) ==
  /\ Len(heard) + 1 = n
  /\ count < PacketSize /\ hostOff + count = said[n]

CopyInv ==
  pc = "copy" =>
    /\ ~Armed => ReadToHere
    /\ Armed  =>
         /\ PacketIsNext
         /\ \/ /\ count = PacketSize /\ hostOff + PacketSize = j
               /\ Len(heard) + 1 = Len(said)
            \/ j = 0 /\ Len(said) > 1 /\ EndsAnswer(Len(said) - 1)

CountInv == pc = "count" => ~Armed /\ ReadToHere /\ PacketIsNext

ClearInv ==
  pc = "clear" => ~Armed /\ ReadToHere /\ PacketIsNext /\ count = PortionSize

(* Between IEOFC and XFREN the packet is out if XFREN was never cleared.   *)
EnableInv ==
  pc = "enable" =>
    /\ count = PortionSize
    /\ ~int => ReadToHere /\ PacketIsNext
    /\ int  => IF part = "big"
               THEN Len(heard) + 1 = Len(said) /\ hostOff = j + PacketSize
               ELSE Len(heard) = Len(said) /\ hostOff = 0

IdleInv ==
  pc = "idle" =>
    /\ ~Armed => Len(heard) = Len(said) /\ hostOff = 0
    /\ Armed  => Len(said) > 0 /\ PacketIsNext /\ EndsAnswer(Len(said))

Inv == TypeOK /\ LoopInv /\ CopyInv /\ CountInv /\ ClearInv /\ EnableInv /\ IdleInv

-----------------------------------------------------------------------------
(* The answer built in tx_data leaves room for its NUL, whatever the sizes *)
(* of the command and of the data: hitagi_send_packet_aux() stops copying  *)
(* sixteen bytes before the end of the array.                              *)
LEMMA AnswerLengthBound ==
  ASSUME NEW a \in Answers
  PROVE  AnswerLength(a) \in 1 .. (TxDataSize - 1)
<1>1. a.cmd \in Nat /\ a.bin \in Nat /\ a.data \in Nat \cup {NoData}
  BY SenderConstants
<1>2. \A at, n \in Nat :
        /\ Filled(at, n) \in Nat /\ Filled(at, n) >= at
        /\ Filled(at, n) <= at \/ Filled(at, n) <= TxDataSize - 16
  BY SenderConstants DEF Filled, Lesser
<1> DEFINE head == Filled(1, a.cmd)
<1>3. head \in Nat /\ head >= 1 /\ head <= TxDataSize - 16
  <2>1. head \in Nat /\ head >= 1 /\ (head <= 1 \/ head <= TxDataSize - 16)
    BY <1>1, <1>2
  <2> HIDE DEF head
  <2> QED
    BY <2>1, SenderConstants
<1>4. ASSUME NEW n \in Nat
      PROVE  /\ Filled(head + 1, n) \in Nat /\ Filled(head + 1, n) >= 1
             /\ Filled(head + 1, n) <= TxDataSize - 15
  <2> HIDE DEF head
  <2>1. head + 1 \in Nat
    BY <1>3
  <2>2. /\ Filled(head + 1, n) \in Nat /\ Filled(head + 1, n) >= head + 1
        /\ Filled(head + 1, n) <= head + 1 \/ Filled(head + 1, n) <= TxDataSize - 16
    BY <1>2, <2>1
  <2> QED
    BY <1>3, <2>2, SenderConstants
<1>5. CASE a.bin > 0
  BY <1>1, <1>4, <1>5, SenderConstants DEF AnswerLength
<1>6. CASE ~(a.bin > 0) /\ a.data # NoData
  BY <1>1, <1>4, <1>6, SenderConstants DEF AnswerLength
<1>7. CASE ~(a.bin > 0) /\ a.data = NoData
  BY <1>1, <1>3, <1>7, SenderConstants DEF AnswerLength
<1> QED
  BY <1>5, <1>6, <1>7

(* The portion handed to usb_tx() is never longer than a packet, so the    *)
(* six bits of the byte count hold it.                                     *)
LEMMA PortionFits ==
  ASSUME TypeOK, LoopInv, pc # "idle"
  PROVE  PortionSize \in 0 .. PacketSize /\ PortionSize % 64 = PortionSize
<1>1. PortionSize \in 0 .. PacketSize
  BY SenderConstants DEF TypeOK, LoopInv, PortionSize
<1>2. \A n \in 0 .. 63 : n % 64 = n
  OBVIOUS
<1> QED
  BY <1>1, <1>2, SenderConstants

-----------------------------------------------------------------------------
(* The invariant holds initially and every step of the loader, of the      *)
(* controller and of the host keeps it.                                    *)
LEMMA InvInit == Init => Inv
<1> SUFFICES ASSUME Init
             PROVE  Inv
  OBVIOUS
<1>1. << >> \in Seq(1 .. (TxDataSize - 1)) /\ << >> \in Seq(Nat) /\ Len(<< >>) = 0
  BY SMT
<1>2. TypeOK
  <2>1. buf \in [ans : Nat, from : Nat] /\ count \in 0 .. 63
    BY DEF Init
  <2>2. said \in Seq(1 .. (TxDataSize - 1)) /\ heard \in Seq(Nat) /\ Len(said) <= MaxAnswers
    BY <1>1, SenderConstants DEF Init
  <2>3. int \in BOOLEAN /\ xfren \in BOOLEAN
    BY Zenon DEF Init
  <2> QED
    BY <2>1, <2>2, <2>3 DEF Init, TypeOK
<1>3. ~Armed
  BY DEF Init, Armed
<1> QED
  BY <1>1, <1>2, <1>3
     DEF Init, Inv, LoopInv, CopyInv, CountInv, ClearInv, EnableInv, IdleInv

LEMMA SendPacketKeepsInv == Inv /\ SendPacket => Inv'
<1> SUFFICES ASSUME Inv, SendPacket
             PROVE  Inv'
  OBVIOUS
<1> PICK a \in Answers : /\ said' = Append(said, AnswerLength(a))
                         /\ i' = AnswerLength(a)
                         /\ part' = PartOf(AnswerLength(a))
  BY DEF SendPacket
<1> DEFINE n == AnswerLength(a)
<1>1. n \in 1 .. (TxDataSize - 1)
  BY AnswerLengthBound
<1> HIDE DEF n
<1>2. /\ said' = Append(said, n) /\ i' = n /\ part' = PartOf(n)
      /\ pc = "idle" /\ pc' = "copy" /\ j' = 0 /\ Len(said) < MaxAnswers
      /\ UNCHANGED <<buf, count, int, xfren, heard, hostOff>>
  BY DEF SendPacket, n, epVars, hostVars
<1>3. /\ said \in Seq(1 .. (TxDataSize - 1)) /\ Len(said) \in Nat
      /\ said' \in Seq(1 .. (TxDataSize - 1)) /\ Len(said') = Len(said) + 1
      /\ said'[Len(said')] = n
      /\ Len(said) > 0 => said'[Len(said)] = said[Len(said)]
  BY <1>1, <1>2 DEF Inv, TypeOK
<1>4. TypeOK'
  BY <1>1, <1>2, <1>3, SenderConstants DEF Inv, TypeOK, PartOf
<1>5. LoopInv'
  BY <1>1, <1>2, <1>3, SenderConstants DEF LoopInv, PartOf, Current
<1>6. CopyInv'
  <2>1. Armed' = Armed
    BY <1>2 DEF Armed
  <2>2. CASE ~Armed
    BY <2>1, <2>2, <1>2, <1>3 DEF Inv, TypeOK, IdleInv, CopyInv, ReadToHere
  <2>3. CASE Armed
    BY <2>1, <2>3, <1>2, <1>3
       DEF Inv, TypeOK, IdleInv, CopyInv, PacketIsNext, EndsAnswer
  <2> QED
    BY <2>2, <2>3
<1> QED
  BY <1>2, <1>4, <1>5, <1>6 DEF Inv, CountInv, ClearInv, EnableInv, IdleInv

LEMMA TxCopyKeepsInv == Inv /\ TxCopy => Inv'
<1> SUFFICES ASSUME Inv, TxCopy
             PROVE  Inv'
  OBVIOUS
<1> USE DEF Inv, TxCopy, hostVars
<1>1. ~Armed /\ ~Armed'
  BY DEF Armed, TxReady, TypeOK
<1>2. TypeOK'
  BY DEF TypeOK
<1>3. LoopInv'
  BY DEF LoopInv, Current
<1>4. CountInv'
  BY <1>1 DEF CopyInv, CountInv, ReadToHere, PacketIsNext, TypeOK
<1> QED
  BY <1>2, <1>3, <1>4 DEF CopyInv, ClearInv, EnableInv, IdleInv

LEMMA TxCountKeepsInv == Inv /\ TxCount => Inv'
<1> SUFFICES ASSUME Inv, TxCount
             PROVE  Inv'
  OBVIOUS
<1>1. PortionSize \in 0 .. PacketSize /\ PortionSize % 64 = PortionSize
  BY PortionFits DEF Inv, TxCount
<1> USE DEF Inv, TxCount, hostVars
<1>2. TypeOK'
  BY <1>1, SenderConstants DEF TypeOK
<1>3. LoopInv'
  BY DEF LoopInv, Current
<1>4. ClearInv'
  BY <1>1 DEF CountInv, ClearInv, ReadToHere, PacketIsNext, PortionSize, Armed
<1> QED
  BY <1>2, <1>3, <1>4 DEF CopyInv, CountInv, EnableInv, IdleInv

LEMMA TxClearKeepsInv == Inv /\ TxClear => Inv'
<1> SUFFICES ASSUME Inv, TxClear
             PROVE  Inv'
  OBVIOUS
<1> USE DEF Inv, TxClear, hostVars
<1>1. TypeOK'
  BY DEF TypeOK
<1>2. LoopInv'
  BY DEF LoopInv, Current
<1>3. EnableInv'
  BY DEF ClearInv, EnableInv, ReadToHere, PacketIsNext, PortionSize
<1> QED
  BY <1>1, <1>2, <1>3 DEF CopyInv, CountInv, ClearInv, IdleInv

(* After XFREN the loader goes on with the next portion, whether or not    *)
(* the host has read this one already.                                     *)
LEMMA TxEnableKeepsInv == Inv /\ TxEnable => Inv'
<1> SUFFICES ASSUME Inv, TxEnable
             PROVE  Inv'
  OBVIOUS
<1>1. /\ pc = "enable" /\ xfren' = TRUE
      /\ UNCHANGED <<said, buf, count, int, heard, hostOff>>
  BY DEF TxEnable, hostVars
<1>2. /\ Armed' <=> ~int
      /\ int \in BOOLEAN /\ said \in Seq(1 .. (TxDataSize - 1)) /\ Len(said) > 0
      /\ Len(said) \in Nat /\ Len(heard) \in Nat /\ hostOff \in Nat
      /\ i \in Nat /\ j \in Nat /\ i + j = said[Len(said)]
      /\ PacketSize \in 1 .. 63 /\ count = PortionSize
  BY <1>1, SenderConstants DEF Inv, TypeOK, LoopInv, EnableInv, Armed, Current
<1>3. CASE part = "big"
  <2>1. /\ i' = i - PacketSize /\ j' = j + PacketSize /\ pc' = "copy"
        /\ part' = IF i - PacketSize = 0 THEN "empty" ELSE PartOf(i - PacketSize)
    BY <1>1, <1>3 DEF TxEnable, Advance, AfterBig
  <2>2. i >= PacketSize /\ count = PacketSize
    BY <1>1, <1>2, <1>3 DEF Inv, LoopInv, PortionSize
  <2>3. TypeOK'
    BY <1>1, <1>2, <2>1, <2>2 DEF Inv, TypeOK, PartOf
  <2>4. LoopInv'
    BY <1>1, <1>2, <2>1, <2>2 DEF LoopInv, PartOf, Current
  <2>5. CopyInv'
    BY <1>1, <1>2, <1>3, <2>1, <2>2
       DEF Inv, EnableInv, CopyInv, ReadToHere, PacketIsNext
  <2> QED
    BY <2>1, <2>3, <2>4, <2>5 DEF Inv, CountInv, ClearInv, EnableInv, IdleInv
<1>4. CASE part # "big"
  <2>1. pc' = "idle" /\ i' = 0 /\ j' = j /\ part' = part
    BY <1>1, <1>2, <1>4 DEF TxEnable, Inv, LoopInv, TypeOK
  <2>2. count < PacketSize /\ j + count = said[Len(said)]
    BY <1>1, <1>2, <1>4 DEF Inv, LoopInv, TypeOK, PortionSize
  <2>3. TypeOK'
    BY <1>1, <1>2, <2>1 DEF Inv, TypeOK
  <2>4. IdleInv'
    BY <1>1, <1>2, <1>4, <2>1, <2>2
       DEF Inv, EnableInv, IdleInv, ReadToHere, PacketIsNext, EndsAnswer
  <2> QED
    BY <2>1, <2>3, <2>4 DEF Inv, LoopInv, CopyInv, CountInv, ClearInv, EnableInv
<1> QED
  BY <1>3, <1>4

(* When the host reads a packet, a packet that is not full is the last one *)
(* of the first answer the host has not heard, and reaches its end.        *)
LEMMA ReadEndsAnswer ==
  ASSUME Inv, Armed
  PROVE  /\ PacketIsNext
         /\ count <= PacketSize
         /\ count < PacketSize =>
              Len(heard) < Len(said) /\ hostOff + count = said[Len(heard) + 1]
<1>0. /\ said \in Seq(1 .. (TxDataSize - 1)) /\ Len(said) \in Nat /\ Len(heard) \in Nat
      /\ hostOff \in Nat /\ i \in Nat /\ j \in Nat /\ PacketSize \in 1 .. 63
      /\ count \in Nat
  BY SenderConstants DEF Inv, TypeOK
<1>1. CASE pc = "idle"
  BY <1>0, <1>1 DEF Inv, IdleInv, EndsAnswer
<1>2. CASE pc = "copy"
  BY <1>0, <1>2 DEF Inv, CopyInv, EndsAnswer
<1>3. CASE pc = "enable"
  <2>1. /\ ReadToHere /\ PacketIsNext /\ count = PortionSize
        /\ Len(said) > 0 /\ i + j = said[Len(said)]
    BY <1>3 DEF Inv, EnableInv, Armed, LoopInv, Current
  <2>2. CASE part = "big"
    BY <1>0, <2>1, <2>2 DEF PortionSize
  <2>3. CASE part # "big"
    <3>1. count = i /\ i < PacketSize
      BY <1>0, <1>3, <2>1, <2>3 DEF Inv, LoopInv, TypeOK, PortionSize
    <3> QED
      BY <1>0, <2>1, <3>1 DEF ReadToHere
  <2> QED
    BY <2>2, <2>3
<1> QED
  BY <1>1, <1>2, <1>3 DEF Inv, TypeOK, CountInv, ClearInv

LEMMA HostReadKeepsInv == Inv /\ HostRead => Inv'
<1> SUFFICES ASSUME Inv, HostRead
             PROVE  Inv'
  OBVIOUS
<1>1. /\ Armed /\ int' = TRUE /\ xfren' \in BOOLEAN /\ ~Armed'
      /\ UNCHANGED <<said, pc, part, i, j, buf, count>>
  BY DEF HostRead, Armed, loaderVars
<1>2. /\ said \in Seq(1 .. (TxDataSize - 1)) /\ Len(said) \in Nat
      /\ heard \in Seq(Nat) /\ Len(heard) \in Nat
      /\ hostOff \in Nat /\ i \in Nat /\ j \in Nat /\ PacketSize \in 1 .. 63
      /\ count \in Nat /\ count <= PacketSize
  BY <1>1, ReadEndsAnswer, SenderConstants DEF Inv, TypeOK
<1>3. \/ /\ count < PacketSize /\ hostOff' = 0 /\ heard' = Append(heard, hostOff + count)
         /\ Len(heard') = Len(heard) + 1 /\ heard' \in Seq(Nat)
      \/ count = PacketSize /\ hostOff' = hostOff + PacketSize /\ heard' = heard
  <2>1. CASE count < PacketSize
    <3>1. hostOff' = 0 /\ heard' = Append(heard, hostOff + count)
      BY <2>1 DEF HostRead
    <3> QED
      BY <1>2, <2>1, <3>1
  <2>2. CASE ~(count < PacketSize)
    <3>1. hostOff' = hostOff + count /\ heard' = heard
      BY <2>2 DEF HostRead
    <3> QED
      BY <1>2, <2>2, <3>1
  <2> QED
    BY <2>1, <2>2
<1>4. TypeOK'
  BY <1>1, <1>2, <1>3 DEF Inv, TypeOK
<1>5. LoopInv'
  BY <1>1 DEF Inv, LoopInv, Current
<1>6. CopyInv'
  BY <1>1, <1>2, <1>3 DEF Inv, CopyInv, EndsAnswer, ReadToHere
<1>7. IdleInv'
  BY <1>1, <1>2, <1>3 DEF Inv, IdleInv, EndsAnswer
<1>8. EnableInv'
  <2> SUFFICES ASSUME pc = "enable"
               PROVE  EnableInv'
    BY <1>1 DEF EnableInv
  <2>1. count = PortionSize /\ ReadToHere /\ PortionSize' = PortionSize
    BY <1>1 DEF Inv, EnableInv, Armed, PortionSize
  <2>2. CASE part = "big"
    BY <1>1, <1>2, <1>3, <2>1, <2>2 DEF EnableInv, ReadToHere, PortionSize
  <2>3. CASE part # "big"
    <3>1. count < PacketSize
      BY <1>2, <2>1, <2>3 DEF Inv, LoopInv, TypeOK, PortionSize
    <3> QED
      BY <1>1, <1>2, <1>3, <2>1, <2>3, <3>1 DEF EnableInv, ReadToHere
  <2> QED
    BY <2>2, <2>3
<1> QED
  BY <1>1, <1>4, <1>5, <1>6, <1>7, <1>8 DEF Inv, CountInv, ClearInv

LEMMA StutterKeepsInv == Inv /\ UNCHANGED vars => Inv'
BY DEF vars, loaderVars, epVars, hostVars, Inv, TypeOK, LoopInv, CopyInv, CountInv,
       ClearInv, EnableInv, IdleInv, Armed, Current, ReadToHere, PacketIsNext,
       EndsAnswer, PortionSize

(* The invariant holds in every reachable state, whatever the answers, the *)
(* packet size and the moment the host reads.                              *)
THEOREM Invariance == Spec => []Inv
<1>1. Inv /\ [Next]_vars => Inv'
  BY SendPacketKeepsInv, TxCopyKeepsInv, TxCountKeepsInv, TxClearKeepsInv,
     TxEnableKeepsInv, HostReadKeepsInv, StutterKeepsInv
     DEF Next, UsbTx
<1> QED
  BY InvInit, <1>1, PTL DEF Spec

-----------------------------------------------------------------------------
(* hitagi_send_packet_aux() keeps its counters and the length of tx_data.  *)
THEOREM TypeCorrectness == Spec => []TypeOK
<1>1. Inv => TypeOK
  BY DEF Inv
<1> QED
  BY Invariance, <1>1, PTL

(* No packet of an answer is skipped, repeated or replaced.                *)
THEOREM PacketsInOrder == Spec => []InOrder
<1>1. Inv => InOrder
  BY ReadEndsAnswer DEF InOrder, PacketIsNext
<1> QED
  BY Invariance, <1>1, PTL

(* No answer leaves the transfer open on the host's side.                  *)
THEOREM TransfersEnd == Spec => []NothingLeftOpen
<1>1. Inv => NothingLeftOpen
  BY DEF Inv, IdleInv, NothingLeftOpen
<1> QED
  BY Invariance, <1>1, PTL

(* usb_tx() never writes a buffer or a count the controller may be reading.*)
THEOREM BufferNotOverwritten == Spec => NoOverwrite
<1>1. Inv /\ [Next]_vars => [<<buf, count>>' # <<buf, count>> => ~Armed]_vars
  <2> SUFFICES ASSUME Inv, Next, <<buf, count>>' # <<buf, count>>
               PROVE  ~Armed
    OBVIOUS
  <2>1. CASE TxCopy
    BY <2>1 DEF TxCopy, TxReady, Armed
  <2>2. CASE TxCount
    BY <2>2 DEF TxCount, Inv, CountInv
  <2>3. CASE SendPacket \/ TxClear \/ TxEnable \/ HostRead
    BY <2>3 DEF SendPacket, TxClear, TxEnable, HostRead, epVars
  <2> QED
    BY <2>1, <2>2, <2>3 DEF Next, UsbTx
<1> QED
  BY Invariance, <1>1, PTL DEF Spec, NoOverwrite

(* The sending half of the loader implements the channel: building an      *)
(* answer sends it, reading its last packet takes it, and every other step *)
(* is internal.                                                            *)
THEOREM Refinement == Spec => ImplementsChannel
<1>1. Init => Answer!Init
  BY DEF Init, Answer!Init
<1>2. Inv /\ [Next]_vars => [Answer!Next]_<<said, heard>>
  <2> SUFFICES ASSUME Inv, [Next]_vars
               PROVE  [Answer!Next]_<<said, heard>>
    OBVIOUS
  <2>1. CASE SendPacket
    <3> PICK a \in Answers : said' = Append(said, AnswerLength(a))
      BY <2>1 DEF SendPacket
    <3>1. Answer!Send(AnswerLength(a))
      BY <2>1 DEF SendPacket, hostVars, Answer!Send
    <3> QED
      BY <3>1, AnswerLengthBound DEF Answer!Next
  <2>2. CASE UsbTx
    BY <2>2 DEF UsbTx, TxCopy, TxCount, TxClear, TxEnable, hostVars
  <2>3. CASE HostRead
    BY <2>3, ReadEndsAnswer DEF HostRead, loaderVars, Answer!Next, Answer!Take
  <2>4. CASE UNCHANGED vars
    BY <2>4 DEF vars, loaderVars, hostVars
  <2> QED
    BY <2>1, <2>2, <2>3, <2>4 DEF Next
<1> QED
  BY Invariance, <1>1, <1>2, PTL DEF Spec, ImplementsChannel, Answer!Spec
=============================================================================
