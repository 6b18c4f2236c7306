------------------------------ MODULE FlashAmd ------------------------------
(***************************************************************************)
(* The flash path of hitagi_command_BIN() with the driver for AMD chips    *)
(* (flash_amd16.c), beside the chip (AmdChip), which works on its own      *)
(* while the driver polls it.                                              *)
(*                                                                         *)
(* Writes to the chip that follow each other without a poll are one action *)
(* of the driver: the chip changes on its own only while it works.         *)
(***************************************************************************)
EXTENDS AmdChip

CONSTANTS
  ParamEnd,         \* end of the first parameter blocks
  ParamStart,       \* start of the second ones, at the end of the flash
  ParamWords,       \* size of a parameter block
  MainWords,        \* size of a main block
  LockReg,          \* FLASH_AMD_PR_LOCK_REG0
  OtpWords,         \* words READ_OTP answers with
  ReadWords,        \* words it reads
  MaxJobs           \* commands the host sends (bound of the model)

ASSUME AmdConstants ==
  /\ ParamEnd \in Nat /\ ParamStart \in Nat /\ BufferWords \in Nat \ {0}
  /\ ParamWords \in Nat \ {0} /\ MainWords \in Nat \ {0} /\ MaxJobs \in Nat
  /\ LockReg \in Nat /\ OtpWords \in Nat /\ ReadWords \in 0 .. OtpWords

(* The blocks of the chip are the ones flash_geometry() computes, a word   *)
(* has the bit that is polled, and a BIN command carries data: its size is *)
(* not 0, and a word has two bytes.                                        *)
ASSUME AmdBlocks ==
  /\ BlockStarts = {a \in Addresses :
       a % (IF a < ParamEnd \/ a >= ParamStart THEN ParamWords ELSE MainWords) = 0}
  /\ DQ7 \in Bits /\ << >> \notin Chunks

VARIABLES
  mem,              \* the words of the flash
  addr,             \* received_address_ptr
  mode,             \* erase_cmdlet
  pc,               \* where the driver is
  k,                \* words of the chunk written so far (dst - start)
  job,              \* the chunk: the words of the BIN command
  before,           \* the flash when the command began
  jobs,             \* BIN, RQFI and READ_OTP commands so far
  answer,           \* what RQFI or READ_OTP have read
  chip              \* state of the chip

driverVars == <<pc, k, job, before, jobs, answer, addr, mode>>
vars       == <<driverVars, mem, chip>>

ChipDone ==
  /\ chip.working
  /\ mem' = IF chip.busy.erase THEN EraseAt(mem, chip.busy.at)
                               ELSE ProgramAt(mem, chip.busy.at, chip.busy.words)
  /\ chip' = [chip EXCEPT !.working = FALSE, !.busy = NoOp]
  /\ UNCHANGED driverVars

-----------------------------------------------------------------------------
(* The driver.                                                             *)

Goto(from, to) == pc = from /\ pc' = to

Keep == UNCHANGED <<mem, job, before, jobs, answer, addr, mode>>

(* flash_geometry(): does the address start a block? Mutant: all blocks    *)
(* have one size.                                                          *)
Geometry_ParamOnly(a) == a % ParamWords = 0

Geometry(a) ==
  a % (IF a < ParamEnd \/ a >= ParamStart THEN ParamWords ELSE MainWords) = 0

WriteStep ==
  CASE mode = ERASE_WRITE_BLOCK  -> "word"
    [] mode = ERASE_WRITE_BUFFER -> "buffer"
    [] mode = ERASE_ONLY         -> "finish"
    [] OTHER                     -> "give_up"

(* What the host has to keep to with this driver: a chunk stays inside one *)
(* erase block and is written where the flash is erased (flash_wait() does *)
(* not return when bit 7 cannot be set), and in buffer mode it starts with *)
(* a page.                                                                 *)
HostKeepsRules(ws) ==
  /\ Extent(addr, ws) \subseteq Block(addr)
  /\ addr \in BlockStarts \/ \A b \in Extent(addr, ws) : mem[b] = Erased
  /\ mode = ERASE_WRITE_BUFFER => addr % BufferWords = 0

(* hitagi_command_BIN() with its payload, in a flash mode; flash_unlock()  *)
(* does nothing.                                                           *)
BIN ==
  /\ pc = "idle" /\ mode # ERASE_NO /\ jobs < MaxJobs
  /\ \E ws \in Chunks : HostKeepsRules(ws) /\ job' = ws
  /\ before' = mem /\ jobs' = jobs + 1 /\ k' = 0
  /\ pc' = IF Geometry(addr) THEN "erase" ELSE WriteStep
  /\ UNCHANGED <<mem, chip, answer, addr, mode>>

(* flash_wait(a, w) returns: bit 7 is the one of w. Mutant: it does not    *)
(* poll.                                                                   *)
Waited_Not(a, w) == TRUE

Waited(a, w) == ShownDQ7(chip, mem, a) <=> DQ7 \in w

Reset == chip' = AfterCommand(chip, addr, "read")

(* flash_erase()                                                           *)
Erase ==
  /\ Goto("erase", "erase_wait")
  /\ chip' = AfterCommand(AfterUnlock(AfterCommand(AfterUnlock(chip), addr, "setup_erase")),
                          addr, "sector")
  /\ Keep /\ UNCHANGED k

(* Mutant: it waits for a zero.                                            *)
EraseWait_ForZero ==
  Goto("erase_wait", WriteStep) /\ Waited(addr, {}) /\ Reset /\ Keep /\ UNCHANGED k

EraseWait == Goto("erase_wait", WriteStep) /\ Waited(addr, Erased) /\ Reset /\ Keep /\ UNCHANGED k

(* flash_write_block(): words that are erased already are skipped.         *)
WordNext ==
  /\ pc = "word" /\ k < Len(job)
  /\ IF job[k + 1] = Erased THEN k' = k + 1 /\ UNCHANGED <<pc, chip>>
     ELSE /\ chip' = AfterWord(AfterCommand(AfterUnlock(chip), addr, "setup_write"),
                               addr + k, job[k + 1])
          /\ pc' = "word_wait" /\ UNCHANGED k
  /\ Keep

(* A word that reads back wrong ends the chunk; nobody is told.            *)
WordWait ==
  /\ pc = "word_wait" /\ Waited(addr + k, job[k + 1])
  /\ IF mem[addr + k] = job[k + 1] THEN k' = k + 1 /\ pc' = "word" /\ UNCHANGED chip
                                   ELSE Reset /\ pc' = "finish" /\ UNCHANGED k
  /\ Keep

(* The end of the chunk.                                                   *)
WordEnd ==
  /\ Goto("word", "finish") /\ k = Len(job)
  /\ Reset /\ Keep /\ UNCHANGED k

(* flash_write_buffer(): as many full pages as the chunk holds. Mutant:    *)
(* a chunk that ends with a page loses it.                                 *)
Pages_OneLess(n) == (n - 1) \div BufferWords

Pages(n) == n \div BufferWords

BufferNext ==
  /\ pc = "buffer"
  /\ IF k \div BufferWords < Pages(Len(job))
     THEN /\ chip' = AfterCount(AfterCommand(AfterUnlock(chip), addr + k, "buffer"), BufferWords)
          /\ pc' = "load"
     ELSE pc' = "finish" /\ UNCHANGED chip
  /\ Keep /\ UNCHANGED k

BufferLoad ==
  /\ pc = "load"
  /\ chip' = AfterWord(chip, addr + k, job[k + 1])
  /\ k' = k + 1
  /\ pc' = IF k' % BufferWords = 0 THEN "confirm" ELSE "load"
  /\ Keep

(* Confirmed at the last word loaded, which is polled too; the result of   *)
(* the poll is ignored.                                                    *)
BufferConfirm ==
  /\ Goto("confirm", "page_wait") /\ chip' = AfterCommand(chip, addr + k - 1, "confirm")
  /\ Keep /\ UNCHANGED k
BufferWait ==
  /\ Goto("page_wait", "buffer") /\ Waited(addr + k - 1, job[k])
  /\ Reset /\ Keep /\ UNCHANGED k

(* Mutant: the address, a u16 *, is advanced by the bytes of the chunk.    *)
Finish_ByBytes ==
  /\ pc \in {"finish", "give_up"} /\ pc' = "idle"
  /\ addr' = IF pc = "finish" THEN addr + 2 * Len(job) ELSE addr
  /\ UNCHANGED <<k, job, before, jobs, answer, mem, chip, mode>>

(* Back in hitagi_command_BIN(): the address moves on, except in a mode    *)
(* that has no write method.                                               *)
Finish ==
  /\ pc \in {"finish", "give_up"} /\ pc' = "idle"
  /\ addr' = IF pc = "finish" THEN addr + Len(job) ELSE addr
  /\ UNCHANGED <<k, job, before, jobs, answer, mem, chip, mode>>

(* hitagi_command_ADDR() and hitagi_command_ERASE(), between two BINs.     *)
ADDR ==
  /\ pc = "idle"
  /\ addr' \in Addresses
  /\ UNCHANGED <<pc, k, job, before, jobs, answer, mode, mem, chip>>

ERASE ==
  /\ pc = "idle" /\ mode < MaxMode
  /\ mode' = mode + 1
  /\ UNCHANGED <<pc, k, job, before, jobs, answer, addr, mem, chip>>

-----------------------------------------------------------------------------
(* RQFI and READ_OTP read what the chip shows instead of the array. A read *)
(* is recorded as what the chip showed, and where.                         *)

Seen(s, a) == [shown |-> s.mode, at |-> a]

Query ==
  /\ Goto("idle", "answer") /\ jobs < MaxJobs
  /\ before' = mem /\ jobs' = jobs + 1
  /\ UNCHANGED <<k, mem, job, addr, mode>>

(* flash_get_part_id()                                                     *)
IdRegisters == <<1, 14, 15>>

RQFI ==
  /\ Query
  /\ LET s == AfterCommand(AfterUnlock(chip), 0, "id")
     IN /\ answer' = [n \in 1 .. 3 |-> Seen(s, IdRegisters[n])]
        /\ chip' = AfterCommand(s, 0, "read")

(* flash_get_otp_zone(): the words it does not read are what the stack     *)
(* held. Mutant: it resets the chip without leaving the secured sector.    *)
Stack == [shown |-> "stack", at |-> 0]

READ_OTP_ResetOnly ==
  /\ Query
  /\ LET s == AfterCommand(AfterUnlock(chip), 0, "otp")
     IN /\ answer' = [n \in 1 .. OtpWords |->
                       IF n <= ReadWords THEN Seen(s, LockReg + n - 1) ELSE Stack]
        /\ chip' = AfterCommand(s, 0, "read")

READ_OTP ==
  /\ Query
  /\ LET s == AfterCommand(AfterUnlock(chip), 0, "otp")
     IN /\ answer' = [n \in 1 .. OtpWords |->
                       IF n <= ReadWords THEN Seen(s, LockReg + n - 1) ELSE Stack]
        /\ chip' = AfterCommand(AfterCommand(AfterUnlock(s), 0, "id"), 0, "read")

Answered ==
  /\ Goto("answer", "idle") /\ answer' = << >>
  /\ UNCHANGED <<k, mem, job, before, jobs, addr, mode, chip>>

Driver ==
  \/ Erase \/ EraseWait \/ WordNext \/ WordWait \/ WordEnd
  \/ BufferNext \/ BufferLoad \/ BufferConfirm \/ BufferWait \/ Finish
  \/ Answered

Next == ADDR \/ ERASE \/ BIN \/ RQFI \/ READ_OTP \/ Driver \/ ChipDone

Init ==
  /\ mem \in Contents /\ addr = 0 /\ mode = ERASE_NO
  /\ pc = "idle" /\ k = 0 /\ job = << >> /\ before = mem /\ jobs = 0
  /\ answer = << >> /\ chip = PowerUp

(* The driver never sleeps, and the chip completes what it has begun; the  *)
(* host need not send anything.                                            *)
Fairness == WF_vars(Driver) /\ WF_vars(ChipDone)

Spec == Init /\ [][Next]_vars /\ Fairness

-----------------------------------------------------------------------------
(* Properties.                                                             *)

TypeOK ==
  /\ mem \in [Addresses -> Words] /\ before \in [Addresses -> Words]
  /\ addr \in 0 .. Size /\ mode \in 0 .. MaxMode
  /\ k \in 0 .. Len(job) /\ job \in Chunks \cup {<< >>} /\ jobs \in 0 .. MaxJobs

(* The refinement: a BIN command that has run to its end has erased the    *)
(* block it starts, programmed its words and touched nothing else, through *)
(* the unlock cycles, DQ7 polls and pages the driver needs.                *)
Memory == INSTANCE FlashMemory WITH mem <- IF pc = "idle" THEN mem ELSE before

ImplementsMemory == Memory!Spec

(* The chip is never given a command while it works, out of its sequence   *)
(* or for another page.                                                    *)
ChipUnderstood == ~chip.misuse

(* At every moment, also in the middle of a command that a power failure   *)
(* would cut off, only the block it erases and its own words have changed. *)
Confined ==
  pc # "idle" =>
    \A b \in Addresses :
      mem[b] # before[b] =>
        b \in Extent(addr, job) \/ (addr \in BlockStarts /\ b \in Block(addr))

(* When the loader waits for a command, a read of the flash gives its      *)
(* contents: nothing is being erased or written, and the chip shows them.  *)
ReadableWhenIdle == pc = "idle" => chip.mode = "array" /\ ~chip.working

(* RQFI and READ_OTP leave the chip ready for the next BIN or READ, which  *)
(* expect the array, and what they read comes from the chip's own          *)
(* registers and not from the array.                                       *)
QueryAnswered ==
  pc = "answer" =>
    /\ chip.mode = "array" /\ ~chip.working
    /\ \A n \in DOMAIN answer : answer[n].shown \in {"id", "otp", "stack"}

(* What flash_amd16.c:257-263 says of the area, "2^7 = 128 bytes", which   *)
(* is the size the answer has: every word of it has been read.             *)
WholeOtpRead ==
  pc = "answer" => \A n \in DOMAIN answer : answer[n] # Stack

(* Every command of a host that keeps to the rules ends: DQ7 comes to show *)
(* the bit flash_wait() waits for.                                         *)
EveryChunkEnds == pc # "idle" ~> pc = "idle"

(* What hitagi.c:13 says of BIN, "Upload binary to address": all the words *)
(* of a chunk are in the flash when the command is done.                   *)
WholeChunkWritten ==
  pc = "finish" /\ mode = ERASE_WRITE_BUFFER => mem = Outcome(before, addr, mode, job)
=============================================================================
