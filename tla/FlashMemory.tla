---------------------------- MODULE FlashMemory ----------------------------
(***************************************************************************)
(* What the flash commands of the loader promise, whichever chip driver is *)
(* linked in. A BIN command erases the block its address starts, if it     *)
(* starts one, and programs its words; the next BIN goes on where this one *)
(* ended. erase_cmdlet, which every ERASE command increments, selects the  *)
(* method. FlashIntel and FlashAmd implement this.                         *)
(***************************************************************************)
EXTENDS NorFlash

VARIABLES
  mem,              \* the words of the flash
  addr,             \* received_address_ptr
  mode              \* erase_cmdlet

ADDR ==
  /\ addr' \in Addresses
  /\ UNCHANGED <<mem, mode>>

ERASE ==
  /\ mode < MaxMode
  /\ mode' = mode + 1
  /\ UNCHANGED <<mem, addr>>

BIN(ws) ==
  /\ mode # ERASE_NO
  /\ mem'  = Outcome(mem, addr, mode, ws)
  /\ addr' = NextAddress(addr, mode, ws)
  /\ UNCHANGED mode

Init ==
  /\ mem \in Contents /\ addr = 0 /\ mode = ERASE_NO

Next == ADDR \/ ERASE \/ \E ws \in Chunks : BIN(ws)

Spec == Init /\ [][Next]_<<mem, addr, mode>>
=============================================================================
