--------------------------- MODULE WatchdogProofs ---------------------------
(***************************************************************************)
(* The watchdog never expires on a host and a chip that keep their times,  *)
(* for any times, packets and drivers that meet WatchdogConstants. The     *)
(* invariant adds up what has passed since the last service and what the   *)
(* waits up to the next one may still take.                                *)
(***************************************************************************)
EXTENDS Watchdog, TLAPS

(* The time the packets of a BIN command and of an answer may take.        *)
Payload == MaxPackets * HostDelay
Answer  == MaxAnswer * HostDelay

InBudget ==
  /\ pc \in {"poll", "frame", "compute", "reset"} => since = 0
  /\ pc \in {"size", "payload"} => cmd = "BIN"
  /\ pc \in {"frame", "compute"} => cmd # "BIN"
  /\ pc \in {"size", "payload"} /\ There("host") => since + left * HostDelay <= Payload + wait
  /\ pc = "send" /\ cmd = "BIN" => left = 0 /\ since <= Payload
  /\ pc = "send" /\ cmd # "BIN" /\ (There("host") \/ left = 0) =>
       since + left * HostDelay <= Answer + wait
  /\ pc = "send" /\ left = 0 => wait = 0
  /\ pc = "erase" /\ There("chip") => since <= Payload + wait
  /\ pc = "write" /\ There("chip") => since <= Payload + EraseTime + wait
  /\ pc = "write" /\ left = 0 => since <= Payload + EraseTime

IInv == TypeOK /\ InBudget

LEMMA Products ==
  /\ Payload \in Nat /\ Answer \in Nat
  /\ \A n \in Nat : n * HostDelay \in Nat
  /\ \A n \in Nat : n > 0 => (n - 1) * HostDelay = n * HostDelay - HostDelay
  /\ \A n \in 0 .. MaxPackets : n * HostDelay <= Payload
  /\ \A n \in 0 .. MaxAnswer : n * HostDelay <= Answer
  /\ 0 * HostDelay = 0
<1>1. Payload \in Nat /\ Answer \in Nat
  BY WatchdogConstants DEF Payload, Answer
<1>2. \A n \in Nat : n * HostDelay \in Nat
  BY WatchdogConstants
<1>3. \A n \in Nat : n > 0 => (n - 1) * HostDelay = n * HostDelay - HostDelay
  BY WatchdogConstants
<1>4. \A n, m \in Nat : n <= m => n * HostDelay <= m * HostDelay
  BY WatchdogConstants
<1>5. 0 * HostDelay = 0
  BY WatchdogConstants
<1> QED
  BY <1>1, <1>2, <1>3, <1>4, <1>5, WatchdogConstants DEF Payload, Answer

(* The budget is what the timeout has to be longer than.                   *)
LEMMA Affordable ==
  ASSUME IInv
  PROVE  ExpiresOnlyWhenStuck
<1> SUFFICES ASSUME since = Timeout
             PROVE  Waits /\ Awaited \in lost
  BY DEF ExpiresOnlyWhenStuck
<1>1. Payload + EraseTime + WriteTime < Timeout /\ Answer < Timeout
  BY WatchdogConstants DEF Payload, Answer
<1> USE WatchdogConstants, Products, <1>1 DEF IInv, TypeOK, InBudget, There, Delay
<1>2. CASE pc \in {"poll", "frame", "compute", "reset"}
  BY <1>2
<1>3. CASE pc \in {"size", "payload"}
  <2>1. left * HostDelay >= HostDelay
    BY <1>3
  <2>2. "host" \in lost
    BY <1>3, <2>1
  <2> QED
    BY <1>3, <2>2 DEF Waits, Awaited
<1>4. CASE pc = "send"
  <2>1. ~(There("host") \/ left = 0)
    <3>1. CASE cmd = "BIN"
      BY <1>4, <3>1
    <3>2. CASE cmd # "BIN" /\ (There("host") \/ left = 0)
      <4>1. CASE left = 0
        BY <1>4, <3>2, <4>1
      <4>2. CASE left > 0
        <5>1. left * HostDelay >= HostDelay
          BY <1>4, <4>2
        <5> QED
          BY <1>4, <3>2, <4>2, <5>1
      <4> QED
        BY <1>4, <4>1, <4>2
    <3> QED
      BY <3>1, <3>2
  <2> QED
    BY <1>4, <2>1 DEF Waits, Awaited
<1>5. CASE pc = "erase"
  BY <1>5 DEF Waits, Awaited
<1>6. CASE pc = "write"
  BY <1>6 DEF Waits, Awaited
<1> QED
  BY <1>2, <1>3, <1>4, <1>5, <1>6 DEF Loops

LEMMA Initially == Init => IInv
  BY WatchdogConstants DEF Init, IInv, TypeOK, InBudget, Loops, Commands, Delay, There

LEMMA ReceiveStep == ASSUME IInv, Receive PROVE IInv'
<1> USE WatchdogConstants, Products
        DEF IInv, TypeOK, InBudget, Loops, Commands, Delay, There, Receive, Enter
<1>1. since = 0 /\ There("host")
  OBVIOUS
<1>2. CASE pc' \in {"size", "payload"}
  BY <1>1, <1>2
<1>3. CASE pc' = "send"
  BY <1>1, <1>3
<1>4. CASE pc' \in {"frame", "compute"}
  BY <1>1, <1>4
<1> QED
  BY <1>2, <1>3, <1>4

(* Between two services the waits that begin are the ones in the budget.   *)
LEMMA WaitStep ==
  ASSUME IInv, PacketArrives \/ FrameEnds \/ Compute \/ PacketRead \/ WriteFlash \/ EraseEnds
  PROVE  IInv'
<1>0. Payload \in Nat /\ Answer \in Nat /\ 0 * HostDelay = 0
  BY Products
<1> USE WatchdogConstants, <1>0
        DEF IInv, TypeOK, InBudget, Loops, Commands, Delay, There, Enter
<1>1. CASE PacketArrives
  <2>1. (left - 1) * HostDelay = left * HostDelay - HostDelay /\ left * HostDelay \in Nat
    BY <1>1, Products DEF PacketArrives
  <2>2. CASE left = 1
    BY <1>1, <2>1, <2>2 DEF PacketArrives
  <2>3. CASE left # 1
    BY <1>1, <2>1, <2>3 DEF PacketArrives
  <2> QED
    BY <2>2, <2>3
<1>2. CASE FrameEnds
  BY <1>2, Products DEF FrameEnds
<1>3. CASE Compute
  BY <1>3, Products DEF Compute
<1>4. CASE PacketRead
  <2>1. (left - 1) * HostDelay = left * HostDelay - HostDelay /\ left * HostDelay \in Nat
    BY <1>4, Products DEF PacketRead
  <2> QED
    BY <1>4, <2>1 DEF PacketRead
<1>5. CASE WriteFlash
  <2>1. /\ cmd = "BIN" /\ since <= Payload /\ UNCHANGED <<driver, cmd, since, lost>>
        /\ wait' = 0
        /\ \/ pc' = "erase" /\ left' = 0
           \/ pc' = "write" /\ left' \in 0 .. MaxWrites
    BY <1>5 DEF WriteFlash
  <2>2. TypeOK'
    BY <2>1
  <2> QED
    BY <2>1, <2>2
<1>6. CASE EraseEnds
  BY <1>6 DEF EraseEnds
<1> QED
  BY <1>1, <1>2, <1>3, <1>4, <1>5, <1>6

(* A service starts a new account.                                         *)
LEMMA ServiceStep ==
  ASSUME IInv, Return \/ WriteEnds \/ Restart \/ Expire \/ Start
  PROVE  IInv'
<1>0. Payload \in Nat /\ Answer \in Nat /\ 0 * HostDelay = 0
  BY Products
<1> USE WatchdogConstants, <1>0
        DEF IInv, TypeOK, InBudget, Loops, Commands, Delay, There, Enter
<1>1. CASE Return
  BY <1>1 DEF Return
<1>2. CASE WriteEnds
  BY <1>2 DEF WriteEnds
<1>3. CASE Restart
  BY <1>3 DEF Restart
<1>4. CASE Expire
  BY <1>4 DEF Expire
<1>5. CASE Start
  BY <1>5 DEF Start
<1> QED
  BY <1>1, <1>2, <1>3, <1>4, <1>5

(* A tick takes as much from what is still owed as it adds to since.       *)
LEMMA TickStep == ASSUME IInv, Tick PROVE IInv'
<1> USE WatchdogConstants, Products
        DEF IInv, TypeOK, InBudget, Loops, Commands, Delay, There, Tick, Waits, Awaited
<1>1. CASE Serviced
  <2>1. since' = 0
    BY <1>1
  <2>2. pc \in {"poll", "frame", "compute", "erase", "write"}
    BY <1>1 DEF Serviced, ServicedWaits
  <2> QED
    BY <2>1, <2>2
<1>2. CASE ~Serviced
  <2>1. since' = since + 1 /\ pc \notin {"poll", "frame", "compute", "reset"}
    BY <1>2 DEF Serviced
  <2>2. CASE pc \in {"size", "payload"}
    BY <2>1, <2>2
  <2>3. CASE pc = "send"
    BY <2>1, <2>3
  <2>4. CASE pc \in {"erase", "write"}
    BY <2>1, <2>4
  <2> QED
    BY <2>1, <2>2, <2>3, <2>4
<1> QED
  BY <1>1, <1>2

LEMMA LoseStep == ASSUME IInv, Lose PROVE IInv'
  BY WatchdogConstants DEF IInv, TypeOK, InBudget, Loops, Commands, Delay, There, Lose

LEMMA Inductive == IInv /\ [Next]_vars => IInv'
<1> SUFFICES ASSUME IInv, [Next]_vars PROVE IInv'
  OBVIOUS
<1>1. CASE Receive
  BY <1>1, ReceiveStep
<1>2. CASE Step
  BY <1>2, WaitStep, ServiceStep DEF Step
<1>3. CASE Tick
  BY <1>3, TickStep
<1>4. CASE Lose
  BY <1>4, LoseStep
<1>5. CASE UNCHANGED vars
  BY <1>5 DEF vars, IInv, TypeOK, InBudget, Loops, Commands, Delay, There
<1> QED
  BY <1>1, <1>2, <1>3, <1>4, <1>5 DEF Next

LEMMA AlwaysInBudget == Spec => []IInv
  BY Initially, Inductive, PTL DEF Spec

(* Watchdog.TypeOK: nothing is waited for that nobody owes, and no wait of *)
(* the loader takes longer than the host or the chip may, for all bounds.  *)
THEOREM TypeCorrectness == Spec => []TypeOK
<1>1. IInv => TypeOK
  BY DEF IInv
<1> QED
  BY <1>1, AlwaysInBudget, PTL

(* Watchdog.ExpiresOnlyWhenStuck: whatever the host sends and in whatever  *)
(* order, the 32 seconds of watchdog_init() only run out in a wait for one *)
(* that will never answer.                                                 *)
THEOREM NoUntimelyReset == Spec => []ExpiresOnlyWhenStuck
  BY Affordable, AlwaysInBudget, PTL
=============================================================================
