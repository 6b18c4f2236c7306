------------------------------ MODULE Watchdog ------------------------------
(***************************************************************************)
(* The watchdog resets the phone when watchdog_service() has not been      *)
(* called for 32 seconds. Some loops of the loader call it and may go on   *)
(* for ever; the others are waits for the host or the flash chip that must *)
(* be over in time, and they add up: the packets of a BIN command, its     *)
(* erase and its first word come without a service in between.             *)
(*                                                                         *)
(* One action is what ends a wait, and Tick is time passing in the one the *)
(* loader is in. A tick is longer than a round of any loop, so that a loop *)
(* that services the watchdog does it in every tick. The host sends a com- *)
(* mand when it has read the answer to the one before it (Session).        *)
(***************************************************************************)
EXTENDS Integers

CONSTANTS
  Timeout,          \* ticks from the last service to the reset
  HostDelay,        \* ticks until a host that is there sends or reads a packet
  EraseTime,        \* ticks the chip takes to erase a block
  WriteTime,        \* ticks it takes to program a word or a buffer
  MaxPackets,       \* packets of a BIN command behind its first one
  MaxAnswer,        \* packets of an answer behind its first one
  MaxWrites,        \* words or buffers in a chunk
  Drivers           \* the builds: a subset of {"intel16", "amd16"}

(* What the timeout asks of the host and the chip.                         *)
ASSUME WatchdogConstants ==
  /\ {Timeout, HostDelay, EraseTime, WriteTime, MaxPackets, MaxAnswer, MaxWrites} \subseteq Nat
  /\ Drivers \subseteq {"intel16", "amd16"}
  /\ MaxPackets * HostDelay + EraseTime + WriteTime < Timeout
  /\ MaxAnswer * HostDelay < Timeout

VARIABLES
  driver,           \* the flash driver the loader is built with
  pc,               \* the loop the loader is in
  cmd,              \* the kind of command it carries out
  left,             \* packets or writes the wait is still for
  wait,             \* ticks since the one it waits for became due
  since,            \* ticks since the last watchdog_service()
  lost              \* who will not answer any more

vars == <<driver, pc, cmd, left, wait, since, lost>>

(* ADDR stands for the commands whose data end with an ETX, READ for those *)
(* that go through memory as well; QUERY for those without data, READ_OTP  *)
(* for the one of them that reads word by word.                            *)
Commands == {"BIN", "ADDR", "READ", "QUERY", "READ_OTP", "RESTART"}

(* Who ends the loop. The host need not send a command; the loader comes   *)
(* to the end of "compute" by itself.                                      *)
Awaited ==
  CASE pc \in {"size", "payload", "frame", "send"} -> "host"
    [] pc \in {"erase", "write"}                   -> "chip"
    [] OTHER                                       -> "nobody"

Delay ==
  CASE pc = "erase" -> EraseTime
    [] pc = "write" -> WriteTime
    [] OTHER        -> HostDelay

Waits == Awaited # "nobody" /\ (pc = "frame" \/ pc = "erase" \/ left > 0)

(* flash_wait() calls it in the AMD driver but not in the Intel driver.    *)
ServicedWaits == IF driver = "amd16" THEN {"erase", "write"} ELSE {}

(* Mutant: the loop that receives a payload services the watchdog as well. *)
Serviced_Payload == pc \in {"poll", "frame", "compute", "payload"} \cup ServicedWaits

(* The loops that call watchdog_service() in every round: the main loop,   *)
(* the ones that wait for an ETX, the ones over memory and OTP words.      *)
Serviced == pc \in {"poll", "frame", "compute"} \cup ServicedWaits

-----------------------------------------------------------------------------
(* The loader and those it waits for.                                      *)

Enter(loop, n) == pc' = loop /\ left' = n /\ wait' = 0

There(who) == who \notin lost

(* The main loop takes the first packet of a command. Of a BIN command the *)
(* size may be missing, or nothing at all.                                 *)
Receive ==
  /\ pc = "poll" /\ There("host")
  /\ \E c \in Commands :
       /\ cmd' = c
       /\ CASE c = "BIN" -> \/ \E n \in 1 .. MaxPackets : Enter("size", n) \/ Enter("payload", n)
                            \/ Enter("send", 0)
            [] c \in {"ADDR", "READ"} -> Enter("frame", 0)
            [] c = "READ_OTP"         -> Enter("compute", 0)
            [] c = "QUERY"            -> \E n \in 0 .. MaxAnswer : Enter("send", n)
            [] OTHER                  -> Enter("send", 0)
  /\ UNCHANGED <<driver, since, lost>>

(* Mutant: the packet that has come is still waited for.                   *)
PacketArrives_NotCounted ==
  /\ pc \in {"size", "payload"} /\ left > 0 /\ There("host")
  /\ Enter(IF left = 0 THEN "send" ELSE "payload", left - 1)
  /\ UNCHANGED <<driver, cmd, since, lost>>

(* Behind the payload comes the ACK, which is a single packet.             *)
PacketArrives ==
  /\ pc \in {"size", "payload"} /\ left > 0 /\ There("host")
  /\ Enter(IF left = 1 THEN "send" ELSE "payload", left - 1)
  /\ UNCHANGED <<driver, cmd, since, lost>>

FrameEnds ==
  /\ pc = "frame" /\ There("host")
  /\ \/ cmd = "READ" /\ Enter("compute", 0)
     \/ cmd = "ADDR" /\ \E n \in 0 .. MaxAnswer : Enter("send", n)
  /\ UNCHANGED <<driver, cmd, since, lost>>

Compute ==
  /\ pc = "compute"
  /\ \E n \in 0 .. MaxAnswer : Enter("send", n)
  /\ UNCHANGED <<driver, cmd, since, lost>>

(* usb_tx() of the next packet succeeds when the host has read this one.   *)
PacketRead ==
  /\ pc = "send" /\ left > 0 /\ There("host")
  /\ Enter("send", left - 1)
  /\ UNCHANGED <<driver, cmd, since, lost>>

(* Back in the main loop, which ends its round with a service; a BIN to    *)
(* RAM has no wait behind its ACK.                                         *)
Return ==
  /\ \/ pc = "send" /\ left = 0 /\ cmd # "RESTART"
     \/ pc = "write" /\ left = 0
  /\ Enter("poll", 0) /\ since' = 0
  /\ UNCHANGED <<driver, cmd, lost>>

(* A BIN to flash erases a block or goes on in one.                        *)
WriteFlash ==
  /\ pc = "send" /\ left = 0 /\ cmd = "BIN"
  /\ Enter("erase", 0) \/ \E n \in 0 .. MaxWrites : Enter("write", n)
  /\ UNCHANGED <<driver, cmd, since, lost>>

(* In the erase-only mode no write follows.                                *)
EraseEnds ==
  /\ pc = "erase" /\ There("chip")
  /\ \E n \in 0 .. MaxWrites : Enter("write", n)
  /\ UNCHANGED <<driver, cmd, since, lost>>

(* Mutant: a write is not followed by a service.                           *)
WriteEnds_NoService ==
  /\ pc = "write" /\ left > 0 /\ There("chip")
  /\ Enter("write", left - 1)
  /\ UNCHANGED <<driver, cmd, since, lost>>

(* A word or a buffer has been programmed; both drivers service then.      *)
WriteEnds ==
  /\ pc = "write" /\ left > 0 /\ There("chip")
  /\ Enter("write", left - 1) /\ since' = 0
  /\ UNCHANGED <<driver, cmd, lost>>

(* RESTART and POWER_DOWN make the watchdog reset the phone at once.       *)
Restart ==
  /\ pc = "send" /\ left = 0 /\ cmd = "RESTART"
  /\ Enter("reset", 0) /\ since' = 0
  /\ UNCHANGED <<driver, cmd, lost>>

Expire ==
  /\ since = Timeout
  /\ Enter("reset", 0) /\ since' = 0
  /\ UNCHANGED <<driver, cmd, lost>>

(* A new loader starts with watchdog_init(), for a host that is back.      *)
Start ==
  /\ pc = "reset"
  /\ Enter("poll", 0) /\ since' = 0 /\ lost' = {}
  /\ UNCHANGED <<driver, cmd>>

-----------------------------------------------------------------------------
(* Time, which waits for those that are there, and faults.                 *)

Tick ==
  /\ pc # "reset" /\ since < Timeout
  /\ Waits \/ Awaited = "nobody"
  /\ Waits /\ There(Awaited) => wait < Delay
  /\ wait'  = IF Waits /\ There(Awaited) THEN wait + 1 ELSE wait
  /\ since' = IF Serviced THEN 0 ELSE since + 1
  /\ UNCHANGED <<driver, pc, cmd, left, lost>>

Lose ==
  /\ pc # "reset" /\ \E who \in {"host", "chip"} \ lost : lost' = lost \cup {who}
  /\ UNCHANGED <<driver, pc, cmd, left, wait, since>>

Init ==
  /\ driver \in Drivers /\ pc = "poll" /\ cmd = "QUERY" /\ left = 0 /\ wait = 0
  /\ since = 0 /\ lost = {}

Step ==
  \/ PacketArrives \/ FrameEnds \/ Compute \/ PacketRead
  \/ Return \/ WriteFlash \/ EraseEnds \/ WriteEnds
  \/ Restart \/ Expire \/ Start

Next == Receive \/ Step \/ Tick \/ Lose

(* Time passes, and nobody who is there is waited for in vain. The host    *)
(* need not send another command.                                          *)
Spec == Init /\ [][Next]_vars /\ WF_vars(Tick) /\ WF_vars(Step)

-----------------------------------------------------------------------------
(* Properties.                                                             *)

Loops == {"poll", "size", "payload", "frame", "compute", "send", "erase", "write", "reset"}

(* Every variable keeps its type: no packet or word is waited for that     *)
(* nobody owes, and no wait for one that is there passes its time.         *)
TypeOK ==
  /\ driver \in Drivers /\ pc \in Loops /\ cmd \in Commands
  /\ left \in Nat /\ wait \in Nat
  /\ pc \in {"size", "payload"} => left \in 1 .. MaxPackets
  /\ pc = "send" => left \in 0 .. MaxAnswer
  /\ pc = "write" => left \in 0 .. MaxWrites
  /\ wait <= Delay
  /\ since \in 0 .. Timeout /\ lost \subseteq {"host", "chip"}

(* The watchdog expires only in a wait for one that is lost. The time that *)
(* a host and a chip in order may take for all the waits between two       *)
(* services is never too long, in whatever order the commands come.        *)
ExpiresOnlyWhenStuck == since = Timeout => Waits /\ Awaited \in lost

(* The loader does not stay for ever in any loop but the main loop, the    *)
(* wait for an ETX and, in the AMD build, flash_wait(): everywhere else    *)
(* the watchdog gets it out when the host or the chip never answers.       *)
Endless == {"poll", "frame"} \cup (IF driver = "amd16" THEN {"erase", "write"} ELSE {})

HangEnds == (pc \notin Endless) ~> (pc \in Endless \cup {"reset"})
=============================================================================
