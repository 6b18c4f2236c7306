----------------------------- MODULE FlashIntel -----------------------------
(***************************************************************************)
(* The flash path of hitagi_command_BIN() with the driver for Intel chips  *)
(* (flash_intel16.c), beside the chip (IntelChip), which works on its own  *)
(* while the driver polls it.                                              *)
(*                                                                         *)
(* Each action of the driver is one access to the chip, or one decision.   *)
(***************************************************************************)
EXTENDS IntelChip

CONSTANTS
  ParamEnd,         \* end of the parameter blocks (FLASH_INTEL_END_...)
  ParamWords,       \* size of a parameter block
  MainWords,        \* size of a main block
  BufferWords,      \* words flash_write_buffer() writes at a time
  Lock0, Lock1,     \* FLASH_INTEL_PR_LOCK_REG0 and _REG1
  RegWords,         \* words of a 64-bit protection register
  MoreWords,        \* words of all the 128-bit ones
  MaxJobs           \* commands the host sends (bound of the model)

ASSUME IntelConstants ==
  /\ ParamEnd \in Nat /\ ParamWords \in Nat \ {0} /\ MainWords \in Nat \ {0}
  /\ BufferWords \in Nat \ {0} /\ MaxJobs \in Nat
  /\ Lock0 \in Nat /\ Lock1 \in Nat /\ RegWords \in Nat /\ MoreWords \in Nat

(* The chip's blocks are those the driver is built for, and no BIN command  *)
(* comes without a word.                                                    *)
ASSUME IntelBlocks ==
  /\ BlockStarts = {a \in 0 .. (Size - 1) :
                      a % (IF a < ParamEnd THEN ParamWords ELSE MainWords) = 0}
  /\ << >> \notin Chunks

VARIABLES
  mem,              \* the words of the flash
  addr,             \* received_address_ptr
  mode,             \* erase_cmdlet
  pc,               \* where the driver is
  k,                \* words written so far (dst - start), or rounds of reading
  job,              \* the chunk: the words of the BIN command
  before,           \* the flash when the command began
  jobs,             \* BIN, RQFI and READ_OTP commands so far
  answer,           \* what RQFI or READ_OTP have read
  chip              \* state of the chip

driverVars == <<pc, k, job, before, jobs, answer, addr, mode>>
vars       == <<driverVars, mem, chip>>

-----------------------------------------------------------------------------
(* The status register, which the driver polls: reading it in array mode   *)
(* would give a word of the array instead.                                 *)
ShowsStatus == chip.mode # "array"
Ready == ShowsStatus /\ ~chip.working

ChipDone ==
  /\ chip.working
  /\ mem' = IF chip.busy.erase THEN EraseAt(mem, chip.busy.at)
                               ELSE ProgramAt(mem, chip.busy.at, chip.busy.words)
  /\ chip' = [chip EXCEPT !.working = FALSE, !.busy = NoOp]
  /\ UNCHANGED driverVars

-----------------------------------------------------------------------------
(* The driver. Command, Count and Word are its writes to the chip.         *)

Command(a, c) == chip' = AfterCommand(chip, a, c)
Count(n)      == chip' = AfterCount(chip, n)
Word(a, w)    == chip' = AfterWord(chip, a, w)

Goto(from, to) == pc = from /\ pc' = to

Keep == UNCHANGED <<mem, job, before, jobs, answer, addr, mode>>

(* flash_geometry(): does the address start a block? Mutants: all blocks   *)
(* have one size.                                                          *)
Geometry_MainOnly(a)  == a % MainWords = 0
Geometry_ParamOnly(a) == a % ParamWords = 0

Geometry(a) == a % (IF a < ParamEnd THEN ParamWords ELSE MainWords) = 0

(* Where hitagi_command_BIN() goes once the block is erased, or need not   *)
(* be.                                                                     *)
WriteStep ==
  CASE mode = ERASE_WRITE_BLOCK  -> "word"
    [] mode = ERASE_WRITE_BUFFER -> "buf_cmd"
    [] mode = ERASE_ONLY         -> "finish"
    [] OTHER                     -> "give_up"

(* hitagi_command_BIN() with its payload, in a flash mode (in mode 0 it    *)
(* copies to RAM). The host keeps a chunk inside one erase block: the      *)
(* driver unlocks no other.                                                *)
BIN ==
  /\ pc = "idle" /\ mode # ERASE_NO /\ jobs < MaxJobs
  /\ \E ws \in Chunks :
       /\ Extent(addr, ws) \subseteq Block(addr)
       /\ job' = ws
  /\ before' = mem /\ jobs' = jobs + 1 /\ k' = 0 /\ pc' = "unlock"
  /\ UNCHANGED <<mem, chip, answer, addr, mode>>

(* flash_unlock()                                                          *)
Unlock        == Goto("unlock", "unlock_confirm") /\ Command(addr, "lock") /\ Keep /\ UNCHANGED k
UnlockConfirm ==
  /\ Goto("unlock_confirm", IF Geometry(addr) THEN "erase" ELSE WriteStep)
  /\ Command(addr, "confirm") /\ Keep /\ UNCHANGED k

(* flash_erase()                                                           *)
Erase        == Goto("erase", "erase_confirm") /\ Command(addr, "erase") /\ Keep /\ UNCHANGED k
EraseConfirm == Goto("erase_confirm", "erase_wait") /\ Command(addr, "confirm") /\ Keep /\ UNCHANGED k

(* flash_wait(). Mutant: it does not wait.                                 *)
Waited_Not == TRUE

Waited == Ready

EraseWait == Goto("erase_wait", WriteStep) /\ Waited /\ Keep /\ UNCHANGED <<chip, k>>

(* flash_write_block(): words that are erased already are skipped.         *)
WordNext ==
  /\ pc = "word"
  /\ IF k = Len(job) THEN pc' = "reset" /\ UNCHANGED <<chip, k>>
     ELSE IF job[k + 1] = Erased THEN k' = k + 1 /\ UNCHANGED <<pc, chip>>
     ELSE pc' = "word_data" /\ Command(addr + k, "write") /\ UNCHANGED k
  /\ Keep
WordData == Goto("word_data", "word_wait") /\ Word(addr + k, job[k + 1]) /\ Keep /\ UNCHANGED k
(* Mutant: dst does not move on.                                           *)
WordWait_KeepsDst == Goto("word_wait", "word") /\ Waited /\ Keep /\ UNCHANGED <<chip, k>>

WordWait == Goto("word_wait", "word") /\ Waited /\ k' = k + 1 /\ Keep /\ UNCHANGED chip

(* flash_write_buffer(): ask for the buffer until it is available; an      *)
(* error of an earlier round is cleared in between ...                     *)
BufCommand == Goto("buf_cmd", "buf_status") /\ Command(addr + k, "buffer") /\ Keep /\ UNCHANGED k
BufStatus ==
  /\ \/ pc = "buf_status" /\ chip.err /\ Command(addr + k, "clear") /\ pc' = "buf_ready"
     \/ /\ pc = "buf_ready" \/ (pc = "buf_status" /\ ~chip.err)
        /\ pc' = IF Ready THEN "buf_count" ELSE "buf_cmd"
        /\ UNCHANGED chip
  /\ Keep /\ UNCHANGED k

(* ... give the count and the words, and confirm at the start address.     *)
(* The last round is shorter. Mutant: it is not.                           *)
Round_Full(left) == BufferWords

Round(left) == IF left <= BufferWords THEN left ELSE BufferWords

BufCount == Goto("buf_count", "buf_load") /\ Count(Round(Len(job) - k)) /\ Keep /\ UNCHANGED k
BufLoad ==
  /\ pc = "buf_load"
  /\ Word(addr + k, job[k + 1])
  /\ k' = k + 1
  /\ pc' = IF k' % BufferWords = 0 \/ k' = Len(job) THEN "buf_confirm" ELSE "buf_load"
  /\ Keep
BufConfirm == Goto("buf_confirm", "buf_wait") /\ Command(addr, "confirm") /\ Keep /\ UNCHANGED k
BufWait ==
  /\ Goto("buf_wait", IF k < Len(job) THEN "buf_cmd" ELSE "reset")
  /\ Waited \/ chip.err
  /\ Keep /\ UNCHANGED <<chip, k>>

(* flash_reset(). Mutant: it clears the status register only.              *)
ResetRead_ClearsAgain ==
  Goto("reset_read", "finish") /\ Command(addr, "clear") /\ Keep /\ UNCHANGED k

Reset     == Goto("reset", "reset_read") /\ Command(addr, "clear") /\ Keep /\ UNCHANGED k
ResetRead == Goto("reset_read", "finish") /\ Command(addr, "read") /\ Keep /\ UNCHANGED k

(* Mutant: the address, a u16 *, is advanced by the bytes of the chunk.    *)
Finish_ByBytes ==
  /\ pc \in {"finish", "give_up"} /\ pc' = "idle"
  /\ addr' = IF pc = "finish" THEN addr + 2 * Len(job) ELSE addr
  /\ UNCHANGED <<k, job, before, jobs, answer, mem, chip, mode>>

(* Back in hitagi_command_BIN(): the address moves on, except in a mode    *)
(* that has no write method.                                               *)
Finish ==
  /\ pc \in {"finish", "give_up"} /\ pc' = "idle"
  /\ addr' = IF pc = "finish" THEN addr + Len(job) ELSE addr
  /\ UNCHANGED <<k, job, before, jobs, answer, mem, chip, mode>>

(* hitagi_command_ADDR() and hitagi_command_ERASE(), between two BINs.     *)
ADDR ==
  /\ pc = "idle"
  /\ addr' \in Addresses
  /\ UNCHANGED <<pc, k, job, before, jobs, answer, mode, mem, chip>>

ERASE ==
  /\ pc = "idle" /\ mode < MaxMode
  /\ mode' = mode + 1
  /\ UNCHANGED <<pc, k, job, before, jobs, answer, addr, mem, chip>>

-----------------------------------------------------------------------------
(* RQFI and READ_OTP read registers that the chip shows instead of the     *)
(* array. A read is recorded as what the chip showed, and where.           *)

Seen(s, a) == [shown |-> s.mode, at |-> a]

AfterReset(s, a) == AfterCommand(AfterCommand(s, a, "clear"), a, "read")

Query(to) ==
  /\ pc = "idle" /\ jobs < MaxJobs
  /\ before' = mem /\ jobs' = jobs + 1 /\ k' = 0 /\ pc' = to
  /\ UNCHANGED <<mem, job, addr, mode>>

(* flash_get_part_id()                                                     *)
RQFI ==
  /\ Query("answer")
  /\ LET s == AfterCommand(chip, 0, "id")
     IN answer' = <<Seen(s, 0), Seen(s, 1)>> /\ chip' = AfterReset(s, 0)

(* flash_get_otp_zone(): each round asks for the registers, reads and      *)
(* resets; the first rounds read a factory and a user word each.           *)
READ_OTP == Query("otp") /\ answer' = << >> /\ UNCHANGED chip

Rounds == RegWords + MoreWords

OtpAt(n) == IF n < RegWords THEN <<Lock0 + 1 + n, Lock0 + 1 + n + RegWords>>
                            ELSE <<Lock1 + 1 + n - RegWords>>

(* Mutant: it asks once, before the first round.                           *)
OtpRound_AsksOnce ==
  /\ pc = "otp" /\ k < Rounds /\ k' = k + 1
  /\ LET s == IF k = 0 THEN AfterCommand(chip, OtpAt(k)[1], "id") ELSE chip
     IN /\ answer' = answer \o [n \in DOMAIN OtpAt(k) |-> Seen(s, OtpAt(k)[n])]
        /\ chip' = AfterReset(s, OtpAt(k)[1])
  /\ UNCHANGED <<pc, mem, job, before, jobs, addr, mode>>

OtpRound ==
  /\ pc = "otp" /\ k < Rounds /\ k' = k + 1
  /\ LET s == AfterCommand(chip, OtpAt(k)[1], "id")
     IN /\ answer' = answer \o [n \in DOMAIN OtpAt(k) |-> Seen(s, OtpAt(k)[n])]
        /\ chip' = AfterReset(s, OtpAt(k)[1])
  /\ UNCHANGED <<pc, mem, job, before, jobs, addr, mode>>

(* The factory words go before the user words.                             *)
OtpEnd ==
  /\ Goto("otp", "answer") /\ k = Rounds /\ k' = 0
  /\ answer' = [n \in DOMAIN answer |-> answer[IF n <= RegWords THEN 2 * n - 1
                                               ELSE IF n <= 2 * RegWords THEN 2 * (n - RegWords)
                                               ELSE n]]
  /\ chip' = AfterReset(chip, Lock1 + 1 + MoreWords)
  /\ UNCHANGED <<mem, job, before, jobs, addr, mode>>

Answered ==
  /\ Goto("answer", "idle") /\ answer' = << >>
  /\ UNCHANGED <<k, mem, job, before, jobs, addr, mode, chip>>

Driver ==
  \/ Unlock \/ UnlockConfirm \/ Erase \/ EraseConfirm \/ EraseWait
  \/ WordNext \/ WordData \/ WordWait
  \/ BufCommand \/ BufStatus \/ BufCount \/ BufLoad \/ BufConfirm \/ BufWait
  \/ Reset \/ ResetRead \/ Finish
  \/ OtpRound \/ OtpEnd \/ Answered

Next == ADDR \/ ERASE \/ BIN \/ RQFI \/ READ_OTP \/ Driver \/ ChipDone

Init ==
  /\ mem \in Contents /\ addr = 0 /\ mode = ERASE_NO
  /\ pc = "idle" /\ k = 0 /\ job = << >> /\ before = mem /\ jobs = 0
  /\ answer = << >> /\ chip = PowerUp

(* The driver never sleeps, and the chip completes what it has begun; the  *)
(* host need not send anything.                                            *)
Fairness == WF_vars(Driver) /\ WF_vars(ChipDone)

Spec == Init /\ [][Next]_vars /\ Fairness

-----------------------------------------------------------------------------
(* Properties.                                                             *)

TypeOK ==
  /\ mem \in [Addresses -> Words] /\ before \in [Addresses -> Words]
  /\ addr \in 0 .. Size /\ mode \in 0 .. MaxMode
  /\ job \in Chunks \cup {<< >>} /\ jobs \in 0 .. MaxJobs
  /\ k \in 0 .. (IF pc = "otp" THEN Rounds ELSE Len(job))

(* The refinement: a BIN command that has run to its end has erased the    *)
(* block it starts, programmed its words and touched nothing else, through *)
(* all the commands, status polls and buffer rounds the driver needs.      *)
Memory == INSTANCE FlashMemory WITH mem <- IF pc = "idle" THEN mem ELSE before

ImplementsMemory == Memory!Spec

(* The chip is never given a command while it works, or one out of its     *)
(* sequence, never reports an error, and is never polled when it shows the *)
(* array: flash_wait() would take a word of the array for the status.      *)
ChipUnderstood ==
  /\ ~chip.misuse /\ ~chip.err
  /\ pc \in {"erase_wait", "word_wait", "buf_status", "buf_ready", "buf_wait"} => ShowsStatus

(* At every moment, also in the middle of a command that a power failure   *)
(* would cut off, only the block it erases and its own words have changed. *)
Confined ==
  pc # "idle" =>
    \A b \in Addresses :
      mem[b] # before[b] =>
        b \in Extent(addr, job) \/ (addr \in BlockStarts /\ b \in Block(addr))

(* A chunk that was written can be read back: the chip shows the array.    *)
ReadableAfterWrite ==
  pc = "finish" /\ mode # ERASE_ONLY => ~ShowsStatus /\ ~chip.working

(* Every command ends: flash_wait() and the buffer loops do not spin for   *)
(* ever.                                                                   *)
EveryChunkEnds == pc # "idle" ~> pc = "idle"

(* RQFI and READ_OTP answer with the chip's own registers, never with the   *)
(* array or the status: the factory words and the user words of OTP in the  *)
(* order of their addresses. Both leave the chip showing the array.        *)
Registers(n) == IF n <= 2 * RegWords THEN Lock0 + n ELSE Lock1 + n - 2 * RegWords

QueryAnswered ==
  pc = "answer" =>
    /\ chip.mode = "array" /\ ~chip.working
    /\ \A n \in DOMAIN answer : answer[n].shown = "id"
    /\ \/ [n \in DOMAIN answer |-> answer[n].at] = <<0, 1>>
       \/ /\ Len(answer) = 2 * RegWords + MoreWords
          /\ \A n \in DOMAIN answer : answer[n].at = Registers(n)

(* What hitagi.c:15 says of READ, "Read data from address on size": when   *)
(* the loader waits for a command, a read of the flash gives its contents. *)
ReadableWhenIdle == pc = "idle" => chip.mode = "array"
=============================================================================
