-------------------------- MODULE FlashIntelProofs --------------------------
(***************************************************************************)
(* Theorems about the driver for Intel chips, for every flash, every chunk *)
(* and every length of the write buffer: the chip understands what it is   *)
(* told, memory changes only where it should, what was written can be      *)
(* read, and a BIN command does what FlashMemory says.                     *)
(***************************************************************************)
EXTENDS FlashIntel, NorFlashProofs, SequenceTheorems

-----------------------------------------------------------------------------
(* The inductive invariant.                                                *)

Modes == {"array", "status", "id", "lock", "erase", "word", "count", "load", "confirm"}

Operations == [erase : BOOLEAN, at : Nat, words : Seq(Words)]

ChipStates ==
  [mode : Modes, busy : Operations,
   working : BOOLEAN, err : BOOLEAN, misuse : BOOLEAN,
   unlocked : SUBSET Addresses, at : Nat, left : Int, words : Seq(Words)]

Querying == {"otp", "answer"}
Erasing  == {"unlock", "unlock_confirm", "erase", "erase_confirm"}
ByWord   == {"word", "word_data", "word_wait"}
Asking   == {"buf_cmd", "buf_status", "buf_count"}
Loading  == {"buf_load", "buf_confirm", "buf_wait"}
Ending   == {"reset", "reset_read"}
Waiting  == {"erase_wait", "word_wait", "buf_wait"}

Steps == Querying \cup Erasing \cup ByWord \cup Asking \cup Loading \cup Ending
           \cup Waiting \cup {"idle", "finish", "give_up"}

(* The mode of the chip, at each step of the driver.                       *)
ModeInv ==
  /\ ~chip.misuse /\ ~chip.err
  /\ chip.working => pc \in Waiting
  /\ pc \in {"idle", "unlock", "erase", "word", "buf_cmd", "otp", "finish", "give_up"} \cup Ending
       => Shows(chip)
  /\ pc \in Waiting => chip.mode = "status"
  /\ pc = "unlock_confirm" => chip.mode = "lock"
  /\ pc = "erase_confirm"  => chip.mode = "erase"
  /\ pc = "word_data"      => chip.mode = "word"
  /\ pc \in {"buf_status", "buf_count"} => chip.mode = "count"
  /\ pc = "buf_load"       => chip.mode = "load"
  /\ pc = "buf_confirm"    => chip.mode = "confirm"
  /\ pc = "answer"         => chip.mode = "array"
  /\ pc = "finish" /\ mode # ERASE_ONLY => chip.mode = "array"

(* What the command is about: one block, which is unlocked before anything *)
(* else, and the write method that mode selects.                           *)
JobInv ==
  pc \notin Querying \cup {"idle"} =>
    /\ job \in Chunks /\ mode # ERASE_NO
    /\ addr \in Addresses /\ Extent(addr, job) \subseteq Block(addr)
    /\ pc \notin {"unlock", "unlock_confirm"} => Block(addr) \subseteq chip.unlocked
    /\ pc \in {"erase", "erase_confirm", "erase_wait"} => addr \in BlockStarts
    /\ pc \in ByWord => mode = ERASE_WRITE_BLOCK
    /\ pc \in Asking \cup Loading => mode = ERASE_WRITE_BUFFER
    /\ pc \in Ending => mode \in {ERASE_WRITE_BLOCK, ERASE_WRITE_BUFFER}
    /\ pc = "finish" => mode \in {ERASE_WRITE_BLOCK, ERASE_WRITE_BUFFER, ERASE_ONLY}
    /\ pc = "give_up" => mode > ERASE_ONLY

(* Where the round of the write buffer began whose words the chip holds.   *)
Start == k - Len(chip.words)

(* How many words are written, and which the write buffer of the chip holds. *)
CountInv ==
  /\ pc \in Erasing \cup {"erase_wait"} => k = 0
  /\ pc \in {"word_data", "word_wait"} => k < Len(job)
  /\ pc \in Asking => k < Len(job) /\ k % BufferWords = 0
  /\ pc \in Loading =>
       /\ Start \in 0 .. (Len(job) - 1) /\ Start % BufferWords = 0
       /\ \A i \in 1 .. Len(chip.words) : chip.words[i] = job[Start + i]
       /\ chip.words # << >> => chip.at = addr + Start
  /\ pc = "buf_load" =>
       chip.left \in 1 .. BufferWords /\ Len(chip.words) + chip.left = Round(Len(job) - Start)
  /\ pc \in {"buf_confirm", "buf_wait"} => Len(chip.words) = Round(Len(job) - Start)
  /\ pc \in Ending => k = Len(job)

(* What the chip is working on.                                            *)
WorkInv ==
  chip.working =>
    /\ pc = "erase_wait" => chip.busy = [erase |-> TRUE, at |-> addr, words |-> << >>]
    /\ pc = "word_wait"  => chip.busy = [erase |-> FALSE, at |-> addr + k, words |-> <<job[k + 1]>>]
    /\ pc = "buf_wait"   => chip.busy = [erase |-> FALSE, at |-> addr + Start, words |-> chip.words]

(* The memory, in terms of Cleared and Written of NorFlashProofs.          *)
MemInv ==
  /\ pc \in Querying \cup Erasing => mem = before
  /\ pc = "erase_wait" => mem = IF chip.working THEN before ELSE Cleared(before, addr)
  /\ pc \in {"word", "word_data"} \cup Asking \cup Ending => mem = Written(before, addr, job, k)
  /\ pc = "word_wait" => mem = Written(before, addr, job, IF chip.working THEN k ELSE k + 1)
  /\ pc \in {"buf_load", "buf_confirm"} => mem = Written(before, addr, job, Start)
  /\ pc = "buf_wait"  => mem = Written(before, addr, job, IF chip.working THEN Start ELSE k)
  /\ pc \in {"finish", "give_up"} => mem = Outcome(before, addr, mode, job)

(* What the rounds of READ_OTP have read: a factory word and a user word   *)
(* in turn, then the rest.                                                 *)
Read(n) == IF n <= RegWords THEN 2 * n ELSE RegWords + n

Reads == [shown : {"id"}, at : Nat]

AnswerInv ==
  /\ answer \in Seq(Reads)
  /\ pc = "otp" =>
       /\ Len(answer) = Read(k)
       /\ \A i \in 1 .. k :
            IF i <= RegWords
            THEN answer[2 * i - 1].at = Lock0 + i /\ answer[2 * i].at = Lock0 + i + RegWords
            ELSE answer[RegWords + i].at = Lock1 + i - RegWords
  /\ pc = "answer" =>
       \/ Len(answer) = 2 /\ answer[1].at = 0 /\ answer[2].at = 1
       \/ /\ Len(answer) = 2 * RegWords + MoreWords
          /\ \A n \in 1 .. Len(answer) : answer[n].at = Registers(n)

ChipInv == chip \in ChipStates /\ pc \in Steps /\ ModeInv /\ WorkInv

IInv == TypeOK /\ ChipInv /\ JobInv /\ CountInv /\ MemInv /\ AnswerInv

-----------------------------------------------------------------------------
(* What the chip makes of each command the driver sends, in the modes it   *)
(* sends it in.                                                            *)

LEMMA SetupCommand ==
  ASSUME NEW s \in ChipStates, NEW a, NEW c \in {"erase", "write", "lock", "buffer"},
         ~s.working, Shows(s)
  PROVE  AfterCommand(s, a, c) = [s EXCEPT !.mode = SetupMode[c]]
BY DEF ChipStates, AfterCommand, Shows, SetupMode, ShowMode

LEMMA ShowCommand ==
  ASSUME NEW s \in ChipStates, NEW a, NEW c \in {"read", "id"}, ~s.working, Shows(s)
  PROVE  AfterCommand(s, a, c) = [s EXCEPT !.mode = ShowMode[c]]
BY DEF ChipStates, AfterCommand, Shows, SetupMode, ShowMode

LEMMA ClearCommand ==
  ASSUME NEW s \in ChipStates, NEW a, ~s.working, Shows(s)
  PROVE  AfterCommand(s, a, "clear") = [s EXCEPT !.err = FALSE]
BY DEF ChipStates, AfterCommand, Shows, SetupMode, ShowMode

LEMMA ConfirmLock ==
  ASSUME NEW s \in ChipStates, NEW a, ~s.working, s.mode = "lock"
  PROVE  AfterCommand(s, a, "confirm") = [s EXCEPT !.mode = "status", !.unlocked = @ \cup Block(a)]
BY DEF ChipStates, AfterCommand, Shows, SetupMode, ShowMode

(* A chip that has begun to work.                                          *)
Busy(s, op) == [s EXCEPT !.mode = "status", !.working = TRUE, !.busy = op]

LEMMA BusyType ==
  ASSUME NEW s \in ChipStates, NEW op \in Operations
  PROVE  /\ Busy(s, op) \in ChipStates /\ Busy(s, op).busy = op
         /\ Busy(s, op).working /\ Busy(s, op).mode = "status"
         /\ Busy(s, op).err = s.err /\ Busy(s, op).misuse = s.misuse
         /\ Busy(s, op).unlocked = s.unlocked /\ Busy(s, op).at = s.at
         /\ Busy(s, op).words = s.words
BY DEF Busy, ChipStates, Modes

LEMMA ConfirmErase ==
  ASSUME NEW s \in ChipStates, NEW a, ~s.working, s.mode = "erase", a \in s.unlocked
  PROVE  AfterCommand(s, a, "confirm") = Busy(s, [erase |-> TRUE, at |-> a, words |-> << >>])
BY DEF Busy, ChipStates, AfterCommand, Shows, SetupMode, ShowMode, Begin

LEMMA ConfirmBuffer ==
  ASSUME NEW s \in ChipStates, NEW a, ~s.working, s.mode = "confirm", s.at \in s.unlocked
  PROVE  AfterCommand(s, a, "confirm") = Busy(s, [erase |-> FALSE, at |-> s.at, words |-> s.words])
BY DEF Busy, ChipStates, AfterCommand, Shows, SetupMode, ShowMode, Begin

LEMMA ModeType ==
  ASSUME NEW s \in ChipStates, NEW m \in Modes
  PROVE  [s EXCEPT !.mode = m] \in ChipStates
BY DEF ChipStates

LEMMA UnlockedType ==
  ASSUME NEW s \in ChipStates, NEW a
  PROVE  [s EXCEPT !.mode = "status", !.unlocked = @ \cup Block(a)] \in ChipStates
<1>1. Block(a) \subseteq Addresses
  BY DEF Block
<1> QED
  BY <1>1 DEF ChipStates, Modes

LEMMA ResetCommands ==
  ASSUME NEW s \in ChipStates, NEW a, ~s.working, Shows(s)
  PROVE  AfterReset(s, a) = [s EXCEPT !.err = FALSE, !.mode = "array"]
<1> DEFINE t == [s EXCEPT !.err = FALSE]
<1>1. t \in ChipStates /\ ~t.working /\ Shows(t)
  BY DEF ChipStates, Shows
<1>2. AfterReset(s, a) = AfterCommand(t, a, "read")
  BY ClearCommand DEF AfterReset
<1>3. AfterCommand(t, a, "read") = [t EXCEPT !.mode = "array"]
  BY <1>1, ShowCommand DEF ShowMode
<1> QED
  BY <1>2, <1>3 DEF ChipStates

-----------------------------------------------------------------------------
LEMMA ChunkType ==
  ASSUME NEW ws \in Chunks
  PROVE  ws \in Seq(Words) /\ Len(ws) \in Nat \ {0}
<1>1. ws \in Seq(Words)
  BY FlashConstants DEF Words
<1> QED
  BY <1>1, IntelBlocks

-----------------------------------------------------------------------------
(* The invariant holds at first, and every action keeps it.                *)

LEMMA InitInv == Init => IInv
<1> SUFFICES ASSUME Init PROVE IInv
  OBVIOUS
<1>1. TypeOK
  BY FlashConstants, IntelConstants DEF Init, TypeOK, Addresses, Words, ERASE_NO
<1>2. ChipInv
  BY DEF Init, ChipInv, ChipStates, Modes, Steps, Waiting, ModeInv, WorkInv, PowerUp, NoOp, Shows, Operations,
         Ending
<1>3. JobInv /\ CountInv /\ MemInv
  BY DEF Init, JobInv, CountInv, MemInv, Querying, Erasing, ByWord, Asking, Loading, Ending
<1>4. AnswerInv
  BY DEF Init, AnswerInv
<1> QED
  BY <1>1, <1>2, <1>3, <1>4 DEF IInv

(* What every step of a BIN command knows of its job.                      *)
LEMMA Job ==
  ASSUME IInv, pc \notin Querying \cup {"idle"}
  PROVE  /\ addr \in Nat /\ job \in Seq(Words) /\ Len(job) \in Nat \ {0}
         /\ addr + Len(job) <= Size
         /\ \A i \in 0 .. (Len(job) - 1) : addr + i \in Block(addr)
         /\ addr \in Block(addr)
         /\ BufferWords \in Nat \ {0} /\ k \in 0 .. Len(job)
<1>1. job \in Chunks /\ addr \in Addresses /\ Extent(addr, job) \subseteq Block(addr)
  BY DEF IInv, JobInv
<1>2. job \in Seq(Words) /\ Len(job) \in Nat \ {0}
  BY <1>1, ChunkType
<1>3. addr \in Nat /\ Size \in Nat
  BY <1>1, FlashConstants DEF Addresses
<1>4. \A i \in 0 .. (Len(job) - 1) : addr + i \in Block(addr)
  BY <1>1, <1>2, <1>3 DEF Extent
<1>5. addr + (Len(job) - 1) \in Addresses /\ addr + 0 \in Block(addr)
  <2>1. Block(addr) \subseteq Addresses
    BY DEF Block
  <2> QED
    BY <1>2, <1>4, <2>1
<1>6. k \in 0 .. Len(job)
  BY DEF IInv, TypeOK, Querying
<1> QED
  BY <1>2, <1>3, <1>4, <1>5, <1>6, IntelConstants DEF Addresses

LEMMA ADDRKeeps == ASSUME IInv, ADDR PROVE IInv'
<1>1. TypeOK'
  BY FlashConstants DEF IInv, ADDR, TypeOK, Addresses
<1>2. ChipInv'
  BY DEF IInv, ADDR, ChipInv, ModeInv, WorkInv, Waiting, Ending
<1>3. JobInv' /\ CountInv' /\ MemInv' /\ AnswerInv'
  BY DEF IInv, ADDR, JobInv, CountInv, MemInv, AnswerInv, Querying, Erasing, ByWord, Asking, Loading,
         Ending
<1> QED
  BY <1>1, <1>2, <1>3 DEF IInv

LEMMA ERASEKeeps == ASSUME IInv, ERASE PROVE IInv'
<1>1. TypeOK'
  BY FlashConstants DEF IInv, ERASE, TypeOK
<1>2. ChipInv'
  BY DEF IInv, ERASE, ChipInv, ModeInv, WorkInv, Waiting, Ending
<1>3. JobInv' /\ CountInv' /\ MemInv' /\ AnswerInv'
  BY DEF IInv, ERASE, JobInv, CountInv, MemInv, AnswerInv, Querying, Erasing, ByWord, Asking, Loading,
         Ending
<1> QED
  BY <1>1, <1>2, <1>3 DEF IInv

LEMMA BINKeeps == ASSUME IInv, BIN PROVE IInv'
<1> USE DEF IInv, BIN
<1>1. job' \in Chunks /\ Extent(addr, job') \subseteq Block(addr) /\ Len(job') \in Nat \ {0}
  BY ChunkType
<1>2. addr \in Addresses
  <2>1. addr \in Extent(addr, job') /\ Block(addr) \subseteq Addresses
    BY <1>1, FlashConstants DEF Extent, TypeOK, Block
  <2> QED
    BY <1>1, <2>1
<1>3. TypeOK'
  BY <1>1, IntelConstants DEF TypeOK
<1>4. ChipInv'
  BY DEF ChipInv, ModeInv, WorkInv, Waiting, Ending, Steps, Erasing
<1>5. JobInv'
  BY <1>1, <1>2 DEF JobInv, Querying, ByWord, Asking, Loading, Ending
<1>6. CountInv' /\ MemInv' /\ AnswerInv'
  BY DEF CountInv, MemInv, AnswerInv, Querying, Erasing, Asking, Loading, Ending
<1> QED
  BY <1>3, <1>4, <1>5, <1>6

LEMMA UnlockKeeps == ASSUME IInv, Unlock PROVE IInv'
<1> USE DEF IInv, Unlock, Goto, Keep, Command
<1>1. chip' = [chip EXCEPT !.mode = "lock"] /\ chip \in ChipStates /\ ~chip.working
  BY SetupCommand DEF ChipInv, ModeInv, SetupMode, Waiting
<1>2. TypeOK'
  BY DEF TypeOK
<1>3. ChipInv'
  BY <1>1 DEF ChipInv, ChipStates, Modes, ModeInv, WorkInv, Waiting, Ending, Steps, Erasing
<1>4. JobInv'
  BY DEF JobInv, Querying, ByWord, Asking, Loading, Ending
<1>5. CountInv' /\ MemInv' /\ AnswerInv'
  BY DEF CountInv, MemInv, AnswerInv, Querying, Erasing, Asking, Loading, Ending
<1> QED
  BY <1>2, <1>3, <1>4, <1>5

LEMMA WriteSteps ==
  ASSUME mode \in Nat, mode # 0
  PROVE  \/ WriteStep = "word"    /\ mode = ERASE_WRITE_BLOCK
         \/ WriteStep = "buf_cmd" /\ mode = ERASE_WRITE_BUFFER
         \/ WriteStep = "finish"  /\ mode = ERASE_ONLY
         \/ WriteStep = "give_up" /\ mode > ERASE_ONLY
<1> USE DEF WriteStep, ERASE_WRITE_BLOCK, ERASE_WRITE_BUFFER, ERASE_ONLY
<1>1. CASE mode = 1
  BY <1>1
<1>2. CASE mode = 2
  BY <1>2
<1>3. CASE mode = 3
  BY <1>3
<1>4. CASE mode > 3
  BY <1>4
<1> QED
  BY <1>1, <1>2, <1>3, <1>4

(* Both ways to the write method: the block is unlocked, and cleared if it  *)
(* has to be.                                                              *)
LEMMA WriteStepKeeps ==
  ASSUME IInv, pc \notin Querying \cup {"idle"}, pc' = WriteStep, Keep, k = 0, k' = 0,
         mem = Cleared(before, addr),
         chip' \in ChipStates, Shows(chip'), ~chip'.working, ~chip'.err, ~chip'.misuse,
         Block(addr) \subseteq chip'.unlocked
  PROVE  IInv'
<1> USE DEF IInv, Keep
<1>1. job \in Chunks /\ mode \in Nat /\ mode # 0 /\ addr \in Addresses /\ addr \in Nat
      /\ before \in [Addresses -> Words]
  BY FlashConstants DEF JobInv, TypeOK, ERASE_NO, Addresses
<1>2. \/ pc' = "word"    /\ mode = ERASE_WRITE_BLOCK
      \/ pc' = "buf_cmd" /\ mode = ERASE_WRITE_BUFFER
      \/ pc' = "finish"  /\ mode = ERASE_ONLY
      \/ pc' = "give_up" /\ mode > ERASE_ONLY
  BY <1>1, WriteSteps DEF ERASE_NO
<1>3. TypeOK'
  BY <1>2, Job DEF TypeOK
<1>4. ChipInv'
  BY <1>2 DEF ChipInv, ModeInv, WorkInv, Waiting, Ending, Steps, ByWord, Asking
<1>5. JobInv'
  BY <1>1, <1>2 DEF JobInv, Querying, ByWord, Asking, Loading, Ending
<1>6. CountInv'
  <2>1. 0 % BufferWords = 0 /\ 0 < Len(job)
    BY Job, IntelConstants
  <2> QED
    BY <1>2, <2>1 DEF CountInv, Erasing, Asking, Loading, Ending
<1>7. MemInv'
  <2>1. Written(before, addr, job, 0) = mem
    BY <1>1, WrittenNone
  <2>2. mode >= ERASE_ONLY => Outcome(before, addr, mode, job) = mem
    BY <1>1, OutcomeCleared DEF ERASE_WRITE_BLOCK, ERASE_WRITE_BUFFER, ERASE_ONLY
  <2> QED
    BY <1>1, <1>2, <2>1, <2>2 DEF MemInv, Querying, Erasing, Asking, Ending, ERASE_ONLY
<1>8. AnswerInv'
  BY <1>2 DEF AnswerInv
<1> QED
  BY <1>3, <1>4, <1>5, <1>6, <1>7, <1>8

LEMMA UnlockConfirmKeeps == ASSUME IInv, UnlockConfirm PROVE IInv'
<1> USE DEF IInv, UnlockConfirm, Goto, Keep, Command
<1>1. chip' = [chip EXCEPT !.mode = "status", !.unlocked = @ \cup Block(addr)]
      /\ chip \in ChipStates /\ ~chip.working
  BY ConfirmLock DEF ChipInv, ModeInv, Waiting
<1>2. /\ chip' \in ChipStates /\ Shows(chip') /\ ~chip'.working /\ ~chip'.err /\ ~chip'.misuse
      /\ Block(addr) \subseteq chip'.unlocked
  <2>1. chip' \in ChipStates
    BY <1>1, UnlockedType
  <2>2. /\ chip'.mode = "status" /\ chip'.working = chip.working /\ chip'.err = chip.err
        /\ chip'.misuse = chip.misuse /\ Block(addr) \subseteq chip'.unlocked
    BY <1>1 DEF ChipStates
  <2> QED
    BY <1>1, <2>1, <2>2 DEF ChipInv, ModeInv, Shows
<1>3. Geometry(addr) <=> addr \in BlockStarts
  BY IntelBlocks DEF Geometry, JobInv, Querying, Addresses
<1>4. k = 0 /\ mem = before
  BY DEF CountInv, MemInv, Erasing
<1>5. CASE addr \notin BlockStarts
  <2>1. mem = Cleared(before, addr) /\ pc' = WriteStep
    BY <1>3, <1>4, <1>5 DEF Cleared
  <2> QED
    BY <1>2, <1>4, <2>1, WriteStepKeeps DEF Querying
<1>6. CASE addr \in BlockStarts
  <2>1. pc' = "erase"
    BY <1>3, <1>6
  <2>2. TypeOK'
    BY <2>1 DEF TypeOK
  <2>3. ChipInv'
    BY <1>2, <2>1 DEF ChipInv, ModeInv, WorkInv, Waiting, Ending, Steps, Erasing
  <2>4. JobInv'
    BY <1>2, <1>6, <2>1 DEF JobInv, Querying, ByWord, Asking, Loading, Ending
  <2>5. CountInv' /\ MemInv' /\ AnswerInv'
    BY <2>1 DEF CountInv, MemInv, AnswerInv, Querying, Erasing, Asking, Loading, Ending
  <2> QED
    BY <2>2, <2>3, <2>4, <2>5
<1> QED
  BY <1>5, <1>6

LEMMA EraseKeeps == ASSUME IInv, Erase PROVE IInv'
<1> USE DEF IInv, Erase, Goto, Keep, Command
<1>1. chip' = [chip EXCEPT !.mode = "erase"] /\ chip \in ChipStates /\ ~chip.working
  BY SetupCommand DEF ChipInv, ModeInv, SetupMode, Waiting
<1>2. TypeOK'
  BY DEF TypeOK
<1>3. ChipInv'
  BY <1>1 DEF ChipInv, ChipStates, Modes, ModeInv, WorkInv, Waiting, Ending, Steps, Erasing
<1>4. JobInv'
  BY <1>1 DEF JobInv, Querying, ByWord, Asking, Loading, Ending, ChipStates
<1>5. CountInv' /\ MemInv' /\ AnswerInv'
  BY DEF CountInv, MemInv, AnswerInv, Querying, Erasing, Asking, Loading, Ending
<1> QED
  BY <1>2, <1>3, <1>4, <1>5

LEMMA EraseConfirmKeeps == ASSUME IInv, EraseConfirm PROVE IInv'
<1> USE DEF IInv, EraseConfirm, Goto, Keep, Command
<1>1. addr \in chip.unlocked /\ addr \in Nat /\ chip \in ChipStates /\ ~chip.working
  BY Job DEF JobInv, Querying, ChipInv, ModeInv, Waiting
<1>2. chip' = Busy(chip, [erase |-> TRUE, at |-> addr, words |-> << >>])
  BY <1>1, ConfirmErase DEF ChipInv, ModeInv
<1>3. /\ chip' \in ChipStates /\ chip'.working /\ chip'.mode = "status"
      /\ chip'.busy = [erase |-> TRUE, at |-> addr, words |-> << >>]
      /\ chip'.err = chip.err /\ chip'.misuse = chip.misuse /\ chip'.unlocked = chip.unlocked
  <2>1. [erase |-> TRUE, at |-> addr, words |-> << >>] \in Operations
    BY <1>1 DEF Operations
  <2> QED
    BY <1>1, <1>2, <2>1, BusyType
<1>4. TypeOK'
  BY DEF TypeOK
<1>5. ChipInv'
  BY <1>3 DEF ChipInv, ModeInv, WorkInv, Waiting, Ending, Steps, Erasing
<1>6. JobInv'
  BY <1>3 DEF JobInv, Querying, ByWord, Asking, Loading, Ending
<1>7. CountInv' /\ AnswerInv'
  BY DEF CountInv, AnswerInv, Erasing, Asking, Loading, Ending
<1>8. MemInv'
  BY <1>3 DEF MemInv, Querying, Erasing, Asking, Ending
<1> QED
  BY <1>4, <1>5, <1>6, <1>7, <1>8

LEMMA EraseWaitKeeps == ASSUME IInv, EraseWait PROVE IInv'
<1> USE DEF IInv, EraseWait, Goto, Waited, Ready
<1>1. /\ chip' = chip /\ chip \in ChipStates /\ Shows(chip) /\ ~chip.working /\ ~chip.err /\ ~chip.misuse
      /\ Block(addr) \subseteq chip.unlocked
  BY DEF ChipInv, ModeInv, Waiting, Shows, JobInv, Querying
<1>2. k = 0 /\ k' = 0 /\ mem = Cleared(before, addr)
  BY <1>1 DEF CountInv, MemInv
<1> QED
  BY <1>1, <1>2, WriteStepKeeps DEF Querying

-----------------------------------------------------------------------------
(* Word by word.                                                           *)

LEMMA WordNextKeeps == ASSUME IInv, WordNext PROVE IInv'
<1> USE DEF IInv, WordNext, Keep, Command
<1>1. /\ chip \in ChipStates /\ ~chip.working /\ Shows(chip) /\ ~chip.err /\ ~chip.misuse
      /\ pc = "word" /\ k \in 0 .. Len(job) /\ Len(job) \in Nat
  BY Job DEF ChipInv, ModeInv, Waiting, Querying
<1>2. CASE k = Len(job)
  <2> USE <1>2
  <2>1. pc' = "reset" /\ chip' = chip /\ k' = k
    OBVIOUS
  <2>2. TypeOK'
    BY <2>1 DEF TypeOK
  <2>3. ChipInv'
    BY <1>1, <2>1 DEF ChipInv, ModeInv, WorkInv, Waiting, Ending, Steps
  <2>4. JobInv'
    BY <1>1, <2>1 DEF JobInv, Querying, ByWord, Asking, Loading, Ending
  <2>5. CountInv' /\ MemInv' /\ AnswerInv'
    BY <1>1, <2>1 DEF CountInv, MemInv, AnswerInv, Querying, Erasing, Asking, Loading, Ending
  <2> QED
    BY <2>2, <2>3, <2>4, <2>5
<1>3. CASE k # Len(job) /\ job[k + 1] = Erased
  <2>1. pc' = "word" /\ chip' = chip /\ k' = k + 1 /\ k < Len(job)
    BY <1>1, <1>3
  <2>2. TypeOK'
    BY <1>1, <2>1 DEF TypeOK
  <2>3. ChipInv'
    BY <1>1, <2>1 DEF ChipInv, ModeInv, WorkInv, Waiting, Ending
  <2>4. JobInv'
    BY <1>1, <2>1 DEF JobInv
  <2>5. CountInv' /\ AnswerInv'
    BY <1>1, <2>1 DEF CountInv, AnswerInv, Erasing, Asking, Loading, Ending
  <2>6. MemInv'
    <3>1. Written(before, addr, job, k + 1) = Written(before, addr, job, k)
      BY <1>1, <1>3, Job, WrittenErased DEF TypeOK, Querying
    <3> QED
      BY <1>1, <2>1, <3>1 DEF MemInv, Querying, Erasing, Asking, Loading, Ending
  <2> QED
    BY <2>2, <2>3, <2>4, <2>5, <2>6
<1>4. CASE k # Len(job) /\ job[k + 1] # Erased
  <2>1. pc' = "word_data" /\ chip' = [chip EXCEPT !.mode = "word"] /\ k' = k /\ k < Len(job)
    BY <1>1, <1>4, SetupCommand DEF SetupMode
  <2>2. TypeOK'
    BY <2>1 DEF TypeOK
  <2>3. ChipInv'
    BY <1>1, <2>1 DEF ChipInv, ChipStates, Modes, ModeInv, WorkInv, Waiting, Ending, Steps, ByWord
  <2>4. JobInv'
    BY <1>1, <2>1 DEF JobInv, Querying, ByWord, Asking, Loading, Ending, ChipStates
  <2>5. CountInv' /\ MemInv' /\ AnswerInv'
    BY <1>1, <2>1 DEF CountInv, MemInv, AnswerInv, Querying, Erasing, Asking, Loading, Ending
  <2> QED
    BY <2>2, <2>3, <2>4, <2>5
<1> QED
  BY <1>2, <1>3, <1>4

LEMMA WordDataKeeps == ASSUME IInv, WordData PROVE IInv'
<1> USE DEF IInv, WordData, Goto, Keep, Word
<1>1. /\ chip \in ChipStates /\ ~chip.working /\ chip.mode = "word"
      /\ k \in Nat /\ k < Len(job) /\ addr + k \in Nat
      /\ addr + k \in chip.unlocked /\ job[k + 1] \in Words
  BY Job DEF ChipInv, ModeInv, Waiting, Querying, CountInv, JobInv
<1>2. chip' = Busy(chip, [erase |-> FALSE, at |-> addr + k, words |-> <<job[k + 1]>>])
  BY <1>1 DEF AfterWord, Begin, Busy
<1>3. /\ chip' \in ChipStates /\ chip'.working /\ chip'.mode = "status"
      /\ chip'.busy = [erase |-> FALSE, at |-> addr + k, words |-> <<job[k + 1]>>]
      /\ chip'.err = chip.err /\ chip'.misuse = chip.misuse /\ chip'.unlocked = chip.unlocked
  <2>1. [erase |-> FALSE, at |-> addr + k, words |-> <<job[k + 1]>>] \in Operations
    BY <1>1 DEF Operations
  <2> QED
    BY <1>1, <1>2, <2>1, BusyType
<1>4. TypeOK'
  BY DEF TypeOK
<1>5. ChipInv'
  BY <1>3 DEF ChipInv, ModeInv, WorkInv, Waiting, Ending, Steps, ByWord
<1>6. JobInv'
  BY <1>3 DEF JobInv, Querying, ByWord, Asking, Loading, Ending
<1>7. CountInv' /\ AnswerInv'
  BY DEF CountInv, AnswerInv, Erasing, Asking, Loading, Ending
<1>8. MemInv'
  BY <1>3 DEF MemInv, Querying, Erasing, Asking, Ending
<1> QED
  BY <1>4, <1>5, <1>6, <1>7, <1>8

LEMMA WordWaitKeeps == ASSUME IInv, WordWait PROVE IInv'
<1> USE DEF IInv, WordWait, Goto, Keep, Waited, Ready
<1>1. ~chip.working /\ k \in Nat /\ k < Len(job) /\ Len(job) \in Nat
  BY Job DEF Querying, CountInv
<1>2. TypeOK'
  BY <1>1 DEF TypeOK
<1>3. ChipInv'
  BY <1>1 DEF ChipInv, ModeInv, WorkInv, Waiting, Ending, Steps, ByWord, Shows
<1>4. JobInv'
  BY DEF JobInv, Querying, ByWord, Asking, Loading, Ending
<1>5. CountInv' /\ MemInv' /\ AnswerInv'
  BY <1>1 DEF CountInv, MemInv, AnswerInv, Querying, Erasing, Asking, Loading, Ending
<1> QED
  BY <1>2, <1>3, <1>4, <1>5

-----------------------------------------------------------------------------
(* Through the write buffer.                                               *)

LEMMA BufCommandKeeps == ASSUME IInv, BufCommand PROVE IInv'
<1> USE DEF IInv, BufCommand, Goto, Keep, Command
<1>1. chip' = [chip EXCEPT !.mode = "count"] /\ chip \in ChipStates /\ ~chip.working
  BY SetupCommand DEF ChipInv, ModeInv, SetupMode, Waiting
<1>2. TypeOK'
  BY DEF TypeOK
<1>3. ChipInv'
  BY <1>1 DEF ChipInv, ChipStates, Modes, ModeInv, WorkInv, Waiting, Ending, Steps, Asking
<1>4. JobInv'
  BY <1>1 DEF JobInv, Querying, ByWord, Asking, Loading, Ending, ChipStates
<1>5. CountInv' /\ MemInv' /\ AnswerInv'
  BY <1>1 DEF CountInv, MemInv, AnswerInv, Querying, Erasing, Asking, Loading, Ending
<1> QED
  BY <1>2, <1>3, <1>4, <1>5

(* The chip never reports an error, so that its buffer is free at once.    *)
LEMMA BufStatusKeeps == ASSUME IInv, BufStatus PROVE IInv'
<1> USE DEF IInv, BufStatus, Goto, Keep, Command
<1>1. /\ pc = "buf_status" /\ pc' = "buf_count" /\ chip' = chip /\ k' = k
      /\ ~chip.working /\ chip.mode = "count"
  BY DEF ChipInv, ModeInv, Steps, Querying, Erasing, ByWord, Asking, Loading, Ending, Waiting,
         Ready, ShowsStatus
<1>2. TypeOK'
  BY <1>1 DEF TypeOK
<1>3. ChipInv'
  BY <1>1 DEF ChipInv, ModeInv, WorkInv, Waiting, Ending, Steps, Asking
<1>4. JobInv'
  BY <1>1 DEF JobInv, Querying, ByWord, Asking, Loading, Ending
<1>5. CountInv' /\ MemInv' /\ AnswerInv'
  BY <1>1 DEF CountInv, MemInv, AnswerInv, Querying, Erasing, Asking, Loading, Ending
<1> QED
  BY <1>2, <1>3, <1>4, <1>5

LEMMA RoundType ==
  ASSUME IInv, pc \notin Querying \cup {"idle"}, NEW r \in 0 .. (Len(job) - 1)
  PROVE  Round(Len(job) - r) \in 1 .. BufferWords /\ r + Round(Len(job) - r) <= Len(job)
BY Job DEF Round

LEMMA BufCountKeeps == ASSUME IInv, BufCount PROVE IInv'
<1> DEFINE left == Round(Len(job) - k)
<1>1. /\ chip \in ChipStates /\ ~chip.working /\ chip.mode = "count"
      /\ k \in 0 .. (Len(job) - 1)
  <2>1. k < Len(job) /\ pc = "buf_count" /\ pc \notin Querying \cup {"idle"}
    BY Zenon DEF BufCount, Goto, IInv, CountInv, Asking, Querying
  <2> QED
    BY <2>1, Job DEF IInv, ChipInv, ModeInv, Waiting
<1>2. k % BufferWords = 0
  BY Zenon DEF BufCount, Goto, IInv, CountInv, Asking
<1>3. left \in 1 .. BufferWords /\ left \in Int
  <2>1. pc \notin Querying \cup {"idle"}
    BY DEF BufCount, Goto, Querying
  <2>2. left \in 1 .. BufferWords
    BY <1>1, <2>1, RoundType, Zenon
  <2> QED
    BY <2>2, IntelConstants
<1>4. chip' = [chip EXCEPT !.mode = "load", !.left = left, !.words = << >>]
  BY <1>1 DEF BufCount, Count, AfterCount
<1> HIDE DEF left
<1>5. /\ chip' \in ChipStates /\ chip'.mode = "load" /\ chip'.left = left /\ chip'.words = << >>
      /\ ~chip'.working /\ chip'.err = chip.err /\ chip'.misuse = chip.misuse
      /\ chip'.unlocked = chip.unlocked
  <2> DEFINE none == << >>
  <2>1. chip' = [chip EXCEPT !.mode = "load", !.left = left, !.words = none]
    BY <1>4
  <2>2. "load" \in Modes /\ none \in Seq(Words)
    BY DEF Modes
  <2> HIDE DEF none
  <2>3. /\ chip' \in ChipStates /\ chip'.mode = "load" /\ chip'.left = left /\ chip'.words = none
        /\ ~chip'.working /\ chip'.err = chip.err /\ chip'.misuse = chip.misuse
        /\ chip'.unlocked = chip.unlocked
    BY <1>1, <1>3, <2>1, <2>2 DEF ChipStates
  <2> QED
    BY <2>3 DEF none
<1> USE DEF IInv, BufCount, Goto, Keep
<1>6. Start' = k /\ Len(chip'.words) = 0
  <2>1. k - 0 = k /\ Len(<< >>) = 0
    BY <1>1
  <2> QED
    BY <1>5, <2>1, Zenon DEF Start
<1>7. TypeOK'
  BY DEF TypeOK
<1>8. ChipInv'
  BY <1>5 DEF ChipInv, ModeInv, WorkInv, Waiting, Ending, Steps, Loading
<1>9. JobInv'
  BY <1>5 DEF JobInv, Querying, ByWord, Asking, Loading, Ending
<1>10. CountInv'
  <2>1. 0 + left = left /\ 1 .. 0 = {}
    BY <1>3
  <2>2. k' = k /\ job' = job /\ pc' = "buf_load" /\ chip'.left \in 1 .. BufferWords
    BY <1>3, <1>5
  <2>3. Len(chip'.words) + chip'.left = Round(Len(job') - Start')
    BY <1>5, <1>6, <2>1, <2>2 DEF left
  <2>4. Start' \in 0 .. (Len(job') - 1) /\ Start' % BufferWords = 0
    BY <1>1, <1>2, <1>6, <2>2, Zenon
  <2> QED
    BY <1>5, <1>6, <2>1, <2>2, <2>3, <2>4, Zenon DEF CountInv, Erasing, Asking, Loading, Ending
<1>11. MemInv' /\ AnswerInv'
  BY <1>6 DEF MemInv, AnswerInv, Querying, Erasing, Asking, Ending
<1> QED
  BY <1>7, <1>8, <1>9, <1>10, <1>11

(* What the steps of a round know. The driver's round ends with the last   *)
(* word the chip was told to expect, and no earlier; the next one starts a *)
(* whole number of buffers further on.                                     *)
LEMMA InRound ==
  ASSUME IInv, pc \in Loading
  PROVE  /\ chip.words \in Seq(Words) /\ Len(chip.words) \in Nat /\ k = Start + Len(chip.words)
         /\ Start \in 0 .. (Len(job) - 1) /\ Start \in Nat
         /\ Round(Len(job) - Start) \in 1 .. BufferWords
         /\ Start + Round(Len(job) - Start) <= Len(job)
         /\ \A n \in 0 .. (Round(Len(job) - Start) - 1) :
              ((Start + n + 1) % BufferWords = 0 \/ Start + n + 1 = Len(job))
                <=> n + 1 = Round(Len(job) - Start)
         /\ Start + Round(Len(job) - Start) < Len(job)
              => (Start + Round(Len(job) - Start)) % BufferWords = 0
<1>1. pc \notin Querying \cup {"idle"}
  BY DEF Loading, Querying
<1>2. chip.words \in Seq(Words) /\ Len(chip.words) \in Nat
  BY DEF IInv, ChipInv, ChipStates
<1>3. k \in Nat /\ Len(job) \in Nat /\ BufferWords \in Nat \ {0}
  BY <1>1, Job
<1>4. Start \in 0 .. (Len(job) - 1) /\ Start % BufferWords = 0
  BY DEF IInv, CountInv
<1>5. Round(Len(job) - Start) \in 1 .. BufferWords /\ Start + Round(Len(job) - Start) <= Len(job)
  BY <1>1, <1>4, RoundType
<1>6. Round(Len(job) - Start) = IF Len(job) - Start <= BufferWords THEN Len(job) - Start
                                                                   ELSE BufferWords
  BY DEF Round
<1>7. k = Start + Len(chip.words)
  BY <1>2, <1>3 DEF Start
<1>8. Round(Len(job) - Start) \in Nat
  BY <1>3, <1>5
<1> DEFINE B == BufferWords  r == Start  len == Len(job)  full == Round(len - r)
<1>9. /\ B \in Nat \ {0} /\ len \in Nat /\ r \in 0 .. (len - 1) /\ r \in Nat /\ full \in Nat
      /\ full = IF len - r <= B THEN len - r ELSE B
  BY <1>3, <1>4, <1>6, <1>8
<1>10. r % B = 0
  BY <1>4, Zenon
<1> HIDE DEF B, r, len, full
<1>11. (\A j \in 0 .. (B - 1) : (r + j) % B = j) /\ (r + B) % B = 0
  BY <1>9, <1>10, RoundsMeet, Zenon
<1>12. ASSUME NEW n \in 0 .. (full - 1)
       PROVE  ((r + n + 1) % B = 0 \/ r + n + 1 = len) <=> n + 1 = full
  <2> DEFINE m == n + 1
  <2>1. m \in 1 .. full /\ m \in 1 .. B /\ r + m <= len /\ r + n + 1 = r + m
    BY <1>9
  <2> HIDE DEF m
  <2>2. CASE m = B
    <3>1. (r + m) % B = 0
      BY <1>11, <2>2, Zenon
    <3>2. m = full
      BY <1>9, <2>1, <2>2
    <3> QED
      BY <2>1, <3>1, <3>2, Zenon DEF m
  <2>3. CASE m # B
    <3>1. m \in 0 .. (B - 1) /\ m # 0
      BY <1>9, <2>1, <2>3
    <3>2. (r + m) % B = m
      BY <1>11, <3>1, Zenon
    <3>3. r + m = len <=> m = full
      BY <1>9, <2>1, <2>3
    <3> QED
      BY <2>1, <3>1, <3>2, <3>3, Zenon DEF m
  <2> QED
    BY <2>2, <2>3
<1>13. r + full < len => (r + full) % B = 0
  <2>1. r + full < len => full = B
    BY <1>9
  <2> QED
    BY <1>11, <2>1, Zenon
<1> QED
  BY <1>2, <1>4, <1>5, <1>7, <1>9, <1>12, <1>13, Zenon DEF B, r, len, full

LEMMA BufLoadKeeps == ASSUME IInv, BufLoad PROVE IInv'
<1> DEFINE n == Len(chip.words)
           full == Round(Len(job) - Start)
           ws == Append(chip.words, job[k + 1])
           mode1 == IF chip.left = 1 THEN "confirm" ELSE "load"
           at1 == IF chip.words = << >> THEN addr + k ELSE chip.at
<1>1. /\ chip \in ChipStates /\ ~chip.working /\ chip.mode = "load" /\ ~chip.err /\ ~chip.misuse
      /\ pc = "buf_load" /\ pc \in Loading /\ pc \notin Querying \cup {"idle"} /\ chip.left \in Int
      /\ chip.at \in Nat
  BY DEF IInv, BufLoad, ChipInv, ModeInv, Waiting, ChipStates, Loading, Querying
<1>2. /\ chip.words \in Seq(Words) /\ n \in Nat /\ k = Start + n
      /\ Start \in 0 .. (Len(job) - 1) /\ Start \in Nat
      /\ full \in 1 .. BufferWords /\ Start + full <= Len(job)
  BY <1>1, InRound
<1>3. /\ chip.left \in 1 .. BufferWords /\ n + chip.left = full
      /\ \A i \in 1 .. n : chip.words[i] = job[Start + i]
      /\ chip.words # << >> => chip.at = addr + Start
  BY <1>1, Zenon DEF IInv, CountInv
<1>0. Start % BufferWords = 0
  BY <1>1, Zenon DEF IInv, CountInv
<1> HIDE DEF full
<1>4. addr \in Nat /\ Len(job) \in Nat /\ job \in Seq(Words) /\ k \in Nat /\ BufferWords \in Nat
  BY <1>1, Job
<1>5. n \in 0 .. (full - 1) /\ k + 1 <= Len(job) /\ (chip.left = 1 <=> n + 1 = full)
  BY <1>2, <1>3, <1>4
<1>6. pc' = IF chip.left = 1 THEN "buf_confirm" ELSE "buf_load"
  <2>1. ((Start + n + 1) % BufferWords = 0 \/ Start + n + 1 = Len(job)) <=> n + 1 = full
    BY <1>1, <1>5, InRound, Zenon DEF full
  <2>2. Start + n + 1 = k + 1
    BY <1>2
  <2>3. k' = k + 1
    BY DEF BufLoad
  <2> QED
    BY <1>5, <2>1, <2>2, <2>3, Zenon DEF BufLoad
<1>7. ws \in Seq(Words) /\ Len(ws) = n + 1 /\ \A i \in 1 .. (n + 1) : ws[i] = job[Start + i]
  <2>1. job[k + 1] \in Words /\ k + 1 = Start + (n + 1)
    BY <1>2, <1>4, <1>5
  <2>2. Len(chip.words) = n
    BY <1>2
  <2>3. /\ ws \in Seq(Words) /\ Len(ws) = n + 1
        /\ \A i \in 1 .. (n + 1) : ws[i] = IF i <= n THEN chip.words[i] ELSE job[k + 1]
    <3> HIDE DEF n
    <3> QED
      BY <1>2, <2>1, <2>2
  <2>4. \A i \in 1 .. (n + 1) : IF i <= n THEN i \in 1 .. n ELSE i = n + 1
    BY <1>2
  <2> QED
    BY <1>3, <2>1, <2>3, <2>4, Zenon
<1>8. at1 = addr + Start
  BY <1>2, <1>3, <1>4
<1>9. chip' = [chip EXCEPT !.at = at1, !.words = ws, !.left = chip.left - 1, !.mode = mode1]
  BY <1>1 DEF BufLoad, Word, AfterWord, ChipStates
<1>10. /\ chip' \in ChipStates
       /\ chip'.mode = mode1 /\ chip'.left = chip.left - 1 /\ chip'.words = ws /\ chip'.at = at1
       /\ ~chip'.working /\ ~chip'.err /\ ~chip'.misuse /\ chip'.unlocked = chip.unlocked
  <2>1. mode1 \in Modes /\ at1 \in Nat /\ chip.left - 1 \in Int
    BY <1>1, <1>2, <1>4, <1>8 DEF Modes
  <2> HIDE DEF ws, mode1, at1
  <2> QED
    BY <1>1, <1>7, <1>9, <2>1 DEF ChipStates
<1> HIDE DEF ws, at1
<1>11. Start' = Start /\ Len(chip'.words) = n + 1 /\ k' = k + 1
  <2>1. Len(chip'.words) = n + 1 /\ k' = k + 1
    BY <1>7, <1>10 DEF BufLoad
  <2>2. Start' = k' - Len(chip'.words)
    BY DEF Start
  <2>3. (k + 1) - (n + 1) = Start
    <3>1. k = Start + n /\ Start \in Nat /\ n \in Nat
      BY <1>2
    <3> HIDE DEF n
    <3> QED
      BY <3>1
  <2> QED
    BY <2>1, <2>2, <2>3, Zenon
<1>12. TypeOK'
  BY <1>1, <1>4, <1>5 DEF IInv, BufLoad, Keep, TypeOK
<1>13. ChipInv'
  BY <1>6, <1>10 DEF ChipInv, ModeInv, WorkInv, Waiting, Ending, Steps, Loading
<1>14. JobInv'
  BY <1>1, <1>6, <1>10 DEF IInv, BufLoad, Keep, JobInv, Querying, ByWord, Asking, Loading, Ending
<1>15. CountInv'
  <2>1. job' = job /\ addr' = addr
    BY DEF BufLoad, Keep
  <2>2. Start' \in 0 .. (Len(job') - 1) /\ Start' % BufferWords = 0 /\ chip'.at = addr' + Start'
    BY <1>0, <1>2, <1>8, <1>10, <1>11, <2>1, Zenon
  <2>3. \A i \in 1 .. Len(chip'.words) : chip'.words[i] = job'[Start' + i]
    BY <1>7, <1>10, <1>11, <2>1, Zenon
  <2>4. chip.left # 1 => chip'.left \in 1 .. BufferWords
    BY <1>3, <1>4, <1>10
  <2>5. Len(chip'.words) + chip'.left = full
    BY <1>2, <1>3, <1>10, <1>11
  <2>7. Round(Len(job') - Start') = full
    BY <1>11, <2>1, Zenon DEF full
  <2>6. chip.left = 1 => Len(chip'.words) = full
    BY <1>5, <1>11
  <2> QED
    BY <1>6, <2>2, <2>3, <2>4, <2>5, <2>6, <2>7, Zenon DEF CountInv, Erasing, Asking, Loading, Ending
<1>16. MemInv' /\ AnswerInv'
  BY <1>1, <1>6, <1>11
     DEF IInv, BufLoad, Keep, MemInv, AnswerInv, Querying, Erasing, Asking, Ending
<1> QED
  BY <1>12, <1>13, <1>14, <1>15, <1>16 DEF IInv

LEMMA BufConfirmKeeps == ASSUME IInv, BufConfirm PROVE IInv'
<1> USE DEF BufConfirm, Goto, Keep, Command
<1>1. /\ pc = "buf_confirm" /\ pc \in Loading /\ pc \notin Querying \cup {"idle"}
      /\ chip \in ChipStates /\ ~chip.working
      /\ Start \in 0 .. (Len(job) - 1) /\ chip.words \in Seq(Words)
  BY InRound DEF IInv, ChipInv, ModeInv, Waiting, Loading, Querying
<1>2. chip.words # << >> /\ chip.at = addr + Start
  <2>1. Len(chip.words) \in 1 .. BufferWords
    BY <1>1, InRound DEF IInv, CountInv
  <2>2. chip.words # << >>
    BY <2>1
  <2> QED
    BY <1>1, <2>2 DEF IInv, CountInv
<1>3. chip.at \in chip.unlocked /\ chip.at \in Nat
  BY <1>1, <1>2, Job DEF IInv, JobInv
<1>4. chip' = Busy(chip, [erase |-> FALSE, at |-> chip.at, words |-> chip.words])
  BY <1>1, <1>3, ConfirmBuffer DEF IInv, ChipInv, ModeInv
<1>5. /\ chip' \in ChipStates /\ chip'.working /\ chip'.mode = "status"
      /\ chip'.busy = [erase |-> FALSE, at |-> chip.at, words |-> chip.words]
      /\ chip'.err = chip.err /\ chip'.misuse = chip.misuse /\ chip'.unlocked = chip.unlocked
      /\ chip'.words = chip.words /\ chip'.at = chip.at
  <2>1. [erase |-> FALSE, at |-> chip.at, words |-> chip.words] \in Operations
    BY <1>1, <1>3 DEF Operations
  <2> QED
    BY <1>1, <1>4, <2>1, BusyType
<1>6. Start' = Start
  BY <1>5 DEF Start
<1> USE DEF IInv
<1>7. TypeOK'
  BY DEF TypeOK
<1>8. ChipInv'
  BY <1>2, <1>5, <1>6 DEF ChipInv, ModeInv, WorkInv, Waiting, Ending, Steps
<1>9. JobInv'
  BY <1>5 DEF JobInv, Querying, ByWord, Asking, Loading, Ending
<1>10. CountInv'
  BY <1>5, <1>6 DEF CountInv, Erasing, Asking, Loading, Ending
<1>11. MemInv' /\ AnswerInv'
  BY <1>5, <1>6 DEF MemInv, AnswerInv, Querying, Erasing, Asking, Ending
<1> QED
  BY <1>7, <1>8, <1>9, <1>10, <1>11

LEMMA BufWaitKeeps == ASSUME IInv, BufWait PROVE IInv'
<1> USE DEF BufWait, Goto, Keep
<1>1. /\ pc = "buf_wait" /\ pc \in Loading /\ pc \notin Querying \cup {"idle"}
      /\ ~chip.working /\ chip.mode = "status" /\ chip' = chip /\ k' = k
      /\ pc' = IF k < Len(job) THEN "buf_cmd" ELSE "reset"
  BY DEF IInv, ChipInv, ModeInv, Waiting, Waited, Ready, Loading, Querying
<1>2. k \in Nat /\ k <= Len(job) /\ Len(job) \in Nat
  BY <1>1, Job
<1>3. k < Len(job) => k % BufferWords = 0
  <2>1. k = Start + Round(Len(job) - Start)
    BY <1>1, InRound DEF IInv, CountInv
  <2> QED
    BY <1>1, <2>1, InRound, Zenon
<1> USE DEF IInv
<1>4. TypeOK'
  BY DEF TypeOK
<1>5. ChipInv'
  BY <1>1 DEF ChipInv, ModeInv, WorkInv, Waiting, Ending, Steps, Asking, Shows
<1>6. JobInv'
  BY DEF JobInv, Querying, ByWord, Asking, Loading, Ending
<1>7. CountInv'
  BY <1>1, <1>2, <1>3 DEF CountInv, Erasing, Asking, Loading, Ending
<1>8. MemInv' /\ AnswerInv'
  BY <1>1 DEF MemInv, AnswerInv, Querying, Erasing, Asking, Ending
<1> QED
  BY <1>4, <1>5, <1>6, <1>7, <1>8

-----------------------------------------------------------------------------
(* The end of a command.                                                   *)

LEMMA ResetKeeps == ASSUME IInv, Reset PROVE IInv'
<1> USE DEF IInv, Reset, Goto, Keep, Command
<1>1. chip' = [chip EXCEPT !.err = FALSE] /\ chip \in ChipStates /\ ~chip.working /\ Shows(chip)
  BY ClearCommand DEF ChipInv, ModeInv, Waiting, Ending
<1>2. /\ chip' \in ChipStates /\ ~chip'.working /\ Shows(chip') /\ ~chip'.err
      /\ chip'.misuse = chip.misuse /\ chip'.unlocked = chip.unlocked
  BY <1>1 DEF ChipStates, Shows
<1>3. TypeOK'
  BY DEF TypeOK
<1>4. ChipInv'
  BY <1>2 DEF ChipInv, ModeInv, WorkInv, Waiting, Ending, Steps
<1>5. JobInv'
  BY <1>2 DEF JobInv, Querying, ByWord, Asking, Loading, Ending
<1>6. CountInv' /\ MemInv' /\ AnswerInv'
  BY DEF CountInv, MemInv, AnswerInv, Querying, Erasing, Asking, Loading, Ending
<1> QED
  BY <1>3, <1>4, <1>5, <1>6

LEMMA ResetReadKeeps == ASSUME IInv, ResetRead PROVE IInv'
<1> USE DEF IInv, ResetRead, Goto, Keep, Command
<1>1. chip' = [chip EXCEPT !.mode = "array"] /\ chip \in ChipStates /\ ~chip.working
  BY ShowCommand DEF ChipInv, ModeInv, Waiting, Ending, ShowMode
<1>2. /\ chip' \in ChipStates /\ ~chip'.working /\ chip'.mode = "array" /\ Shows(chip')
      /\ chip'.err = chip.err /\ chip'.misuse = chip.misuse /\ chip'.unlocked = chip.unlocked
  BY <1>1 DEF ChipStates, Modes, Shows
<1>3. TypeOK'
  BY DEF TypeOK
<1>4. ChipInv'
  BY <1>2 DEF ChipInv, ModeInv, WorkInv, Waiting, Ending, Steps
<1>5. JobInv'
  BY <1>2 DEF JobInv, Querying, ByWord, Asking, Loading, Ending
<1>6. CountInv' /\ AnswerInv'
  BY DEF CountInv, AnswerInv, Erasing, Asking, Loading, Ending
<1>7. MemInv'
  <2>1. k = Len(job) /\ mode \in {ERASE_WRITE_BLOCK, ERASE_WRITE_BUFFER} /\ job \in Chunks
        /\ mem = Written(before, addr, job, k)
    BY DEF CountInv, JobInv, MemInv, Ending, Querying
  <2>2. addr \in Nat /\ before \in [Addresses -> Words]
    BY Job DEF Querying, TypeOK
  <2>3. mem = Outcome(before, addr, mode, job)
    BY <2>1, <2>2, OutcomeWritten
  <2> QED
    BY <2>3 DEF MemInv, Querying, Erasing, Asking, Ending
<1> QED
  BY <1>3, <1>4, <1>5, <1>6, <1>7

LEMMA FinishKeeps == ASSUME IInv, Finish PROVE IInv'
<1> USE DEF IInv, Finish
<1>1. addr' \in 0 .. Size
  <2>1. addr \in Nat /\ Len(job) \in Nat /\ addr + Len(job) <= Size
    BY Job DEF Querying
  <2> QED
    BY <2>1, FlashConstants
<1>2. TypeOK'
  BY <1>1 DEF TypeOK
<1>3. ChipInv'
  BY DEF ChipInv, ModeInv, WorkInv, Waiting, Ending, Steps
<1>4. JobInv' /\ CountInv' /\ MemInv' /\ AnswerInv'
  BY DEF JobInv, CountInv, MemInv, AnswerInv, Querying, Erasing, ByWord, Asking, Loading, Ending
<1> QED
  BY <1>2, <1>3, <1>4

-----------------------------------------------------------------------------
(* The queries.                                                            *)

(* What the chip shows of its registers, and what it shows afterwards.     *)
LEMMA Query1 ==
  ASSUME NEW s \in ChipStates, ~s.working, Shows(s), ~s.misuse, NEW a, NEW b
  PROVE  LET t == AfterCommand(s, a, "id")
         IN /\ t.mode = "id"
            /\ AfterReset(t, b) \in ChipStates /\ AfterReset(t, b).mode = "array"
            /\ ~AfterReset(t, b).working /\ ~AfterReset(t, b).err /\ ~AfterReset(t, b).misuse
<1> DEFINE t == AfterCommand(s, a, "id")
<1>1. t = [s EXCEPT !.mode = "id"]
  BY ShowCommand DEF ShowMode
<1>2. t \in ChipStates /\ ~t.working /\ Shows(t) /\ t.mode = "id" /\ ~t.misuse
  BY <1>1 DEF ChipStates, Modes, Shows
<1> HIDE DEF t
<1>3. AfterReset(t, b) = [t EXCEPT !.err = FALSE, !.mode = "array"]
  BY <1>2, ResetCommands
<1>4. /\ AfterReset(t, b) \in ChipStates /\ AfterReset(t, b).mode = "array"
      /\ ~AfterReset(t, b).working /\ ~AfterReset(t, b).err /\ ~AfterReset(t, b).misuse
  BY <1>2, <1>3 DEF ChipStates, Modes
<1> QED
  BY <1>2, <1>4 DEF t

LEMMA RQFIKeeps == ASSUME IInv, RQFI PROVE IInv'
<1> USE DEF IInv, RQFI, Query
<1>1. chip \in ChipStates /\ ~chip.working /\ Shows(chip) /\ ~chip.misuse
  BY DEF ChipInv, ModeInv, Waiting
<1>2. /\ chip' \in ChipStates /\ chip'.mode = "array" /\ ~chip'.working /\ ~chip'.err /\ ~chip'.misuse
      /\ answer' = <<[shown |-> "id", at |-> 0], [shown |-> "id", at |-> 1]>>
  BY <1>1, Query1 DEF Seen
<1>3. TypeOK'
  BY ChunkType, IntelConstants DEF TypeOK
<1>4. ChipInv'
  BY <1>2 DEF ChipInv, ModeInv, WorkInv, Waiting, Ending, Steps, Querying, Shows
<1>5. JobInv' /\ CountInv' /\ MemInv'
  BY DEF JobInv, CountInv, MemInv, Querying, Erasing, Asking, Loading, Ending
<1>6. AnswerInv'
  BY <1>2 DEF AnswerInv, Reads
<1> QED
  BY <1>3, <1>4, <1>5, <1>6

LEMMA READ_OTPKeeps == ASSUME IInv, READ_OTP PROVE IInv'
<1> USE DEF IInv, READ_OTP, Query
<1>1. TypeOK'
  BY IntelConstants DEF TypeOK, Rounds
<1>2. ChipInv'
  BY DEF ChipInv, ModeInv, WorkInv, Waiting, Ending, Steps, Querying
<1>3. JobInv' /\ CountInv' /\ MemInv'
  BY DEF JobInv, CountInv, MemInv, Querying, Erasing, Asking, Loading, Ending
<1>4. AnswerInv'
  BY IntelConstants DEF AnswerInv, Read
<1> QED
  BY <1>1, <1>2, <1>3, <1>4

LEMMA OtpRoundKeeps == ASSUME IInv, OtpRound PROVE IInv'
<1> DEFINE s == AfterCommand(chip, OtpAt(k)[1], "id")
           r(a) == [shown |-> "id", at |-> a]
           new == [n \in DOMAIN OtpAt(k) |-> Seen(s, OtpAt(k)[n])]
<1>1. chip \in ChipStates /\ ~chip.working /\ Shows(chip) /\ ~chip.misuse /\ pc = "otp"
  BY DEF IInv, OtpRound, ChipInv, ModeInv, Waiting
<1>2. /\ chip' \in ChipStates /\ chip'.mode = "array" /\ ~chip'.working /\ ~chip'.err /\ ~chip'.misuse
      /\ s.mode = "id"
  BY <1>1, Query1 DEF OtpRound
<1>3. k \in 0 .. (Rounds - 1) /\ k \in Nat /\ k' = k + 1 /\ Rounds \in Nat /\ RegWords \in Nat
      /\ Lock0 \in Nat /\ Lock1 \in Nat
  BY <1>1, IntelConstants DEF IInv, TypeOK, OtpRound, Rounds
<1>4. /\ answer' = answer \o new /\ pc' = "otp"
      /\ answer \in Seq(Reads) /\ Len(answer) = Read(k)
      /\ \A i \in 1 .. k :
           IF i <= RegWords
           THEN answer[2 * i - 1].at = Lock0 + i /\ answer[2 * i].at = Lock0 + i + RegWords
           ELSE answer[RegWords + i].at = Lock1 + i - RegWords
  BY <1>1 DEF IInv, AnswerInv, OtpRound
<1>5. new = IF k < RegWords THEN <<r(Lock0 + 1 + k), r(Lock0 + 1 + k + RegWords)>>
                            ELSE <<r(Lock1 + 1 + k - RegWords)>>
  <2>1. CASE k < RegWords
    <3>1. OtpAt(k) = <<Lock0 + 1 + k, Lock0 + 1 + k + RegWords>>
      BY <2>1 DEF OtpAt
    <3> QED
      BY <1>2, <2>1, <3>1 DEF Seen
  <2>2. CASE ~(k < RegWords)
    <3>1. OtpAt(k) = <<Lock1 + 1 + k - RegWords>>
      BY <2>2 DEF OtpAt
    <3> QED
      BY <1>2, <2>2, <3>1 DEF Seen
  <2> QED
    BY <2>1, <2>2
<1> HIDE DEF s, new
<1>6. AnswerInv'
  <2>1. r(Lock0 + 1 + k) \in Reads /\ r(Lock0 + 1 + k + RegWords) \in Reads
    BY <1>3 DEF Reads
  <2>2. k >= RegWords => r(Lock1 + 1 + k - RegWords) \in Reads
    BY <1>3 DEF Reads
  <2> HIDE DEF r
  <2>3. new \in Seq(Reads) /\ Len(new) = IF k < RegWords THEN 2 ELSE 1
    BY <1>3, <1>5, <2>1, <2>2
  <2>4. /\ answer' \in Seq(Reads) /\ Len(answer') = Len(answer) + Len(new)
        /\ \A i \in 1 .. Len(answer) + Len(new) :
             answer'[i] = IF i <= Len(answer) THEN answer[i] ELSE new[i - Len(answer)]
    BY <1>4, <2>3, ConcatProperties
  <2>5. Len(answer') = Read(k')
    BY <1>3, <1>4, <2>3, <2>4 DEF Read
  <2>6. ASSUME NEW i \in 1 .. k'
        PROVE  IF i <= RegWords
               THEN answer'[2 * i - 1].at = Lock0 + i /\ answer'[2 * i].at = Lock0 + i + RegWords
               ELSE answer'[RegWords + i].at = Lock1 + i - RegWords
    <3>1. CASE i <= k
      <4>1. i <= RegWords => answer'[2 * i - 1] = answer[2 * i - 1] /\ answer'[2 * i] = answer[2 * i]
        <5>1. i <= RegWords => 2 * i - 1 \in 1 .. Len(answer) /\ 2 * i \in 1 .. Len(answer)
          BY <1>3, <1>4, <3>1 DEF Read
        <5>2. \A j \in 1 .. Len(answer) : answer'[j] = answer[j]
          <6>1. Len(answer) \in Nat /\ Len(new) \in Nat
            BY <1>4, <2>3
          <6> QED
            BY <2>4, <6>1
        <5> QED
          BY <5>1, <5>2, Zenon
      <4>2. i > RegWords => answer'[RegWords + i] = answer[RegWords + i]
        BY <1>3, <1>4, <2>3, <2>4, <3>1 DEF Read
      <4>3. IF i <= RegWords
            THEN answer[2 * i - 1].at = Lock0 + i /\ answer[2 * i].at = Lock0 + i + RegWords
            ELSE answer[RegWords + i].at = Lock1 + i - RegWords
        <5>1. i \in 1 .. k
          BY <1>3, <3>1
        <5> QED
          BY <1>4, <5>1, Zenon
      <4>4. i > RegWords <=> ~(i <= RegWords)
        BY <1>3
      <4> QED
        BY <4>1, <4>2, <4>3, <4>4, Zenon
    <3>2. CASE i = k + 1 /\ k < RegWords
      <4>1. answer'[2 * i - 1] = new[1] /\ answer'[2 * i] = new[2]
        BY <1>3, <1>4, <2>3, <2>4, <3>2 DEF Read
      <4>2. new[1].at = Lock0 + i /\ new[2].at = Lock0 + i + RegWords
        BY <1>3, <1>5, <3>2 DEF r
      <4> QED
        BY <1>3, <3>2, <4>1, <4>2
    <3>3. CASE i = k + 1 /\ k >= RegWords
      <4>1. answer'[RegWords + i] = new[1]
        BY <1>3, <1>4, <2>3, <2>4, <3>3 DEF Read
      <4>2. new[1].at = Lock1 + i - RegWords
        BY <1>3, <1>5, <3>3 DEF r
      <4> QED
        BY <1>3, <3>3, <4>1, <4>2
    <3> QED
      BY <1>3, <3>1, <3>2, <3>3
  <2> QED
    BY <1>4, <2>4, <2>5, <2>6, Zenon DEF AnswerInv
<1> USE DEF IInv, OtpRound
<1>7. TypeOK'
  BY <1>3 DEF TypeOK
<1>8. ChipInv'
  BY <1>2 DEF ChipInv, ModeInv, WorkInv, Waiting, Ending, Steps, Querying, Shows
<1>9. JobInv' /\ CountInv' /\ MemInv'
  BY DEF JobInv, CountInv, MemInv, Querying, Erasing, Asking, Loading, Ending
<1> QED
  BY <1>6, <1>7, <1>8, <1>9

LEMMA OtpEndKeeps == ASSUME IInv, OtpEnd PROVE IInv'
<1>1. chip \in ChipStates /\ ~chip.working /\ Shows(chip) /\ ~chip.misuse /\ pc = "otp"
  BY DEF IInv, OtpEnd, Goto, ChipInv, ModeInv, Waiting
<1>2. chip' = [chip EXCEPT !.err = FALSE, !.mode = "array"]
  BY <1>1, ResetCommands DEF OtpEnd
<1>3. chip' \in ChipStates /\ chip'.mode = "array" /\ ~chip'.working /\ ~chip'.err /\ ~chip'.misuse
  BY <1>1, <1>2 DEF ChipStates, Modes
<1>4. AnswerInv'
  <2> DEFINE all == 2 * RegWords + MoreWords
             from(n) == IF n <= RegWords THEN 2 * n - 1
                        ELSE IF n <= 2 * RegWords THEN 2 * (n - RegWords) ELSE n
  <2>1. RegWords \in Nat /\ MoreWords \in Nat /\ Lock0 \in Nat /\ Lock1 \in Nat /\ all \in Nat
    BY IntelConstants
  <2>2. answer \in Seq(Reads) /\ k = Rounds
    BY DEF IInv, AnswerInv, OtpEnd
  <2>3. Len(answer) = all
    BY <1>1, <2>1, <2>2 DEF IInv, AnswerInv, Read, Rounds
  <2>4. DOMAIN answer = 1 .. all /\ \A n \in 1 .. all : answer[n] \in Reads
    BY <2>2, <2>3
  <2>5. answer' = [n \in 1 .. all |-> answer[from(n)]]
    BY <2>4, Zenon DEF OtpEnd
  <2>6. ASSUME NEW n \in 1 .. all PROVE from(n) \in 1 .. all
    BY <2>1
  <2>7. ASSUME NEW n \in 1 .. all PROVE answer[from(n)].at = Registers(n)
    <3> DEFINE i == IF n <= RegWords THEN n ELSE n - RegWords
    <3>1. i \in 1 .. k
      BY <2>1, <2>2 DEF Rounds
    <3>2. IF i <= RegWords
          THEN answer[2 * i - 1].at = Lock0 + i /\ answer[2 * i].at = Lock0 + i + RegWords
          ELSE answer[RegWords + i].at = Lock1 + i - RegWords
      BY <1>1, <3>1, Zenon DEF IInv, AnswerInv
    <3> QED
      BY <2>1, <3>2 DEF Registers
  <2> HIDE DEF all, from
  <2>8. answer' \in [1 .. all -> Reads]
    BY <2>4, <2>5, <2>6
  <2>9. answer' \in Seq(Reads)
    BY <2>1, <2>8, SeqDef
  <2>10. Len(answer') = all
    <3>1. DOMAIN answer' = 1 .. all
      BY <2>8
    <3> QED
      BY <2>1, <2>9, <3>1
  <2>11. \A n \in 1 .. all : answer'[n].at = Registers(n)
    BY <2>5, <2>7, Zenon
  <2>12. pc' = "answer"
    BY DEF OtpEnd, Goto
  <2> QED
    BY <2>9, <2>10, <2>11, <2>12, Zenon DEF AnswerInv, all
<1> USE DEF IInv, OtpEnd, Goto
<1>5. TypeOK'
  BY ChunkType DEF TypeOK
<1>6. ChipInv'
  BY <1>3 DEF ChipInv, ModeInv, WorkInv, Waiting, Ending, Steps, Querying, Shows
<1>7. JobInv' /\ CountInv' /\ MemInv'
  BY DEF JobInv, CountInv, MemInv, Querying, Erasing, Asking, Loading, Ending
<1> QED
  BY <1>4, <1>5, <1>6, <1>7

LEMMA AnsweredKeeps == ASSUME IInv, Answered PROVE IInv'
<1> USE DEF IInv, Answered, Goto
<1>1. TypeOK'
  BY DEF TypeOK
<1>2. ChipInv'
  BY DEF ChipInv, ModeInv, WorkInv, Waiting, Ending, Steps, Shows
<1>3. JobInv' /\ CountInv' /\ MemInv' /\ AnswerInv'
  BY DEF JobInv, CountInv, MemInv, AnswerInv, Querying, Erasing, Asking, Loading, Ending
<1> QED
  BY <1>1, <1>2, <1>3

-----------------------------------------------------------------------------
(* The chip completes what it has begun.                                   *)

LEMMA ChipDoneKeeps == ASSUME IInv, ChipDone PROVE IInv'
<1> USE DEF ChipDone, driverVars
<1>1. /\ pc \in Waiting /\ chip.working /\ chip \in ChipStates
      /\ pc' = pc /\ k' = k /\ job' = job /\ before' = before /\ addr' = addr /\ mode' = mode
  BY DEF IInv, ChipInv, ModeInv
<1>2. /\ chip' \in ChipStates /\ ~chip'.working /\ chip'.mode = chip.mode
      /\ chip'.err = chip.err /\ chip'.misuse = chip.misuse /\ chip'.unlocked = chip.unlocked
      /\ chip'.words = chip.words /\ chip'.at = chip.at
  <2>1. NoOp \in Operations
    BY DEF NoOp, Operations
  <2> QED
    BY <1>1, <2>1 DEF ChipStates
<1>3. Start' = Start
  BY <1>1, <1>2 DEF Start
<1>4. addr \in Nat /\ job \in Seq(Words) /\ Len(job) \in Nat /\ k \in Nat /\ k <= Len(job)
      /\ before \in [Addresses -> Words]
  BY <1>1, Job DEF Waiting, Querying, IInv, TypeOK
<1>5. /\ pc = "erase_wait" => mem' = Cleared(before, addr)
      /\ pc = "word_wait"  => mem' = Written(before, addr, job, k + 1)
      /\ pc = "buf_wait"   => mem' = Written(before, addr, job, k)
  <2>1. CASE pc = "erase_wait"
    <3>1. mem = before /\ addr \in BlockStarts /\ chip.busy = [erase |-> TRUE, at |-> addr, words |-> << >>]
      BY <1>1, <2>1 DEF IInv, MemInv, JobInv, Querying, ChipInv, WorkInv
    <3> QED
      BY <1>1, <2>1, <3>1 DEF Cleared
  <2>2. CASE pc = "word_wait"
    <3> DEFINE new == <<job[k + 1]>>
    <3>1. /\ mem = Written(before, addr, job, k) /\ k < Len(job)
          /\ chip.busy = [erase |-> FALSE, at |-> addr + k, words |-> new]
      BY <1>1, <2>2 DEF IInv, MemInv, CountInv, ChipInv, WorkInv
    <3>2. new \in Seq(Words) /\ Len(new) = 1 /\ k + Len(new) <= Len(job)
          /\ \A i \in 1 .. Len(new) : new[i] = job[k + i]
      BY <1>4, <3>1
    <3>3. ProgramAt(Written(before, addr, job, k), addr + k, new) = Written(before, addr, job, k + Len(new))
      BY <1>4, <3>2, WrittenMore, Zenon
    <3> HIDE DEF new
    <3> QED
      BY <1>1, <2>2, <3>1, <3>2, <3>3
  <2>3. CASE pc = "buf_wait"
    <3>1. pc \in Loading
      BY <2>3 DEF Loading
    <3>2. /\ mem = Written(before, addr, job, Start)
          /\ chip.busy = [erase |-> FALSE, at |-> addr + Start, words |-> chip.words]
          /\ \A i \in 1 .. Len(chip.words) : chip.words[i] = job[Start + i]
      BY <1>1, <2>3, <3>1 DEF IInv, MemInv, CountInv, ChipInv, WorkInv
    <3>3. chip.words \in Seq(Words) /\ Start \in Nat /\ k = Start + Len(chip.words)
      BY <3>1, InRound
    <3>4. Start + Len(chip.words) <= Len(job)
      BY <1>4, <3>3
    <3>5. ProgramAt(Written(before, addr, job, Start), addr + Start, chip.words) =
            Written(before, addr, job, Start + Len(chip.words))
      BY <1>4, <3>2, <3>3, <3>4, WrittenMore, Zenon
    <3> QED
      BY <1>1, <2>3, <3>2, <3>3, <3>5
  <2> QED
    BY <2>1, <2>2, <2>3
<1>6. TypeOK'
  <2>1. mem' \in [Addresses -> Words]
    BY <1>1, <1>4, <1>5, ClearedType, WrittenType DEF Waiting
  <2> QED
    BY <2>1 DEF IInv, TypeOK
<1> USE DEF IInv
<1>7. ChipInv'
  BY <1>1, <1>2 DEF ChipInv, ModeInv, WorkInv, Waiting, Ending, Shows
<1>8. JobInv'
  BY <1>1, <1>2 DEF JobInv
<1>9. CountInv' /\ AnswerInv'
  BY <1>1, <1>2, <1>3 DEF CountInv, AnswerInv
<1>10. MemInv'
  BY <1>1, <1>2, <1>5 DEF MemInv, Waiting, Querying, Erasing, Asking, Ending
<1> QED
  BY <1>6, <1>7, <1>8, <1>9, <1>10

-----------------------------------------------------------------------------
(* Every step keeps the invariant.                                         *)

LEMMA StepKeepsInv == IInv /\ [Next]_vars => IInv'
<1> SUFFICES ASSUME IInv, [Next]_vars PROVE IInv'
  OBVIOUS
<1>1. CASE ADDR \/ ERASE \/ BIN \/ RQFI \/ READ_OTP
  BY <1>1, ADDRKeeps, ERASEKeeps, BINKeeps, RQFIKeeps, READ_OTPKeeps
<1>2. CASE Unlock \/ UnlockConfirm \/ Erase \/ EraseConfirm \/ EraseWait
  BY <1>2, UnlockKeeps, UnlockConfirmKeeps, EraseKeeps, EraseConfirmKeeps, EraseWaitKeeps
<1>3. CASE WordNext \/ WordData \/ WordWait
  BY <1>3, WordNextKeeps, WordDataKeeps, WordWaitKeeps
<1>4. CASE BufCommand \/ BufStatus \/ BufCount \/ BufLoad \/ BufConfirm \/ BufWait
  BY <1>4, BufCommandKeeps, BufStatusKeeps, BufCountKeeps, BufLoadKeeps, BufConfirmKeeps, BufWaitKeeps
<1>5. CASE Reset \/ ResetRead \/ Finish
  BY <1>5, ResetKeeps, ResetReadKeeps, FinishKeeps
<1>6. CASE OtpRound \/ OtpEnd \/ Answered
  BY <1>6, OtpRoundKeeps, OtpEndKeeps, AnsweredKeeps
<1>7. CASE ChipDone
  BY <1>7, ChipDoneKeeps
<1>8. CASE UNCHANGED vars
  <2> USE <1>8 DEF vars, driverVars, IInv
  <2>1. TypeOK' /\ ChipInv'
    BY DEF TypeOK, ChipInv, ModeInv, WorkInv, Start
  <2>2. JobInv' /\ AnswerInv'
    BY DEF JobInv, AnswerInv
  <2>3. CountInv' /\ MemInv'
    BY DEF CountInv, MemInv, Start
  <2> QED
    BY <2>1, <2>2, <2>3
<1> QED
  BY <1>1, <1>2, <1>3, <1>4, <1>5, <1>6, <1>7, <1>8 DEF Next, Driver

LEMMA Invariant == Spec => []IInv
<1> QED
  BY InitInv, StepKeepsInv, PTL DEF Spec

-----------------------------------------------------------------------------
(* The variables keep their types: received_address_ptr never points       *)
(* behind the flash, and dst never behind the chunk.                       *)
THEOREM TypeCorrectness == Spec => []TypeOK
<1>1. IInv => TypeOK
  BY DEF IInv
<1> QED
  BY <1>1, Invariant, PTL

(* Whatever the order of commands, the chip is only ever told what it       *)
(* takes, reports no error, and is not polled while it shows the array.    *)
THEOREM CommandsUnderstood == Spec => []ChipUnderstood
<1>1. IInv => ChipUnderstood
  <2> SUFFICES ASSUME IInv PROVE ChipUnderstood
    OBVIOUS
  <2>1. pc # "buf_ready"
    BY DEF IInv, ChipInv, Steps, Querying, Erasing, ByWord, Asking, Loading, Ending, Waiting
  <2> QED
    BY <2>1 DEF IInv, ChipInv, ModeInv, ChipUnderstood, Waiting, ShowsStatus
<1> QED
  BY <1>1, Invariant, PTL

(* In the middle of every command the memory differs from what it was only  *)
(* in the block the chunk starts and in the words of the chunk.            *)
THEOREM ChangesConfined == Spec => []Confined
<1>1. IInv => Confined
  <2> SUFFICES ASSUME IInv, pc # "idle", NEW b \in Addresses, mem[b] # before[b],
                      b \notin Extent(addr, job)
               PROVE  addr \in BlockStarts /\ b \in Block(addr)
    BY DEF Confined
  <2>1. pc \notin Querying
    BY DEF IInv, MemInv, Querying
  <2>2. /\ before \in [Addresses -> Words] /\ job \in Chunks /\ addr \in Nat
        /\ job \in Seq(Words) /\ Len(job) \in Nat /\ k \in Nat /\ k <= Len(job)
    BY <2>1, Job DEF IInv, TypeOK, JobInv, Querying
  <2>3. ASSUME NEW n \in Nat, n <= Len(job), mem = Written(before, addr, job, n)
        PROVE  mem[b] = Cleared(before, addr)[b]
    <3>1. b \notin addr .. (addr + n - 1)
      BY <2>2, <2>3, FlashConstants DEF Extent, Addresses
    <3> QED
      BY <2>3, <3>1, Zenon DEF Written
  <2>4. mem[b] = Cleared(before, addr)[b]
    <3>1. CASE pc \in Erasing \/ pc = "erase_wait"
      BY <3>1 DEF IInv, MemInv
    <3>2. CASE pc \in {"word", "word_data", "word_wait"} \cup Asking \cup Ending
      <4>1. /\ mem = Written(before, addr, job, k)
            \/ /\ pc = "word_wait" /\ mem = Written(before, addr, job, k + 1)
        BY <3>2 DEF IInv, MemInv
      <4>2. pc = "word_wait" => k + 1 <= Len(job)
        BY <2>2 DEF IInv, CountInv
      <4> QED
        BY <2>2, <2>3, <4>1, <4>2
    <3>3. CASE pc \in Loading
      <4>1. Start \in Nat /\ Start <= Len(job)
        BY <2>2, <3>3, InRound
      <4>2. mem = Written(before, addr, job, Start) \/ mem = Written(before, addr, job, k)
        BY <3>3 DEF IInv, MemInv, Loading
      <4> QED
        BY <2>2, <2>3, <4>1, <4>2
    <3>4. CASE pc \in {"finish", "give_up"}
      <4>1. mem = Outcome(before, addr, mode, job)
        BY <3>4 DEF IInv, MemInv
      <4>2. mode \in {ERASE_WRITE_BLOCK, ERASE_WRITE_BUFFER}
              => mem = Written(before, addr, job, Len(job))
        BY <2>2, <4>1, OutcomeWritten
      <4>3. mode \notin {ERASE_WRITE_BLOCK, ERASE_WRITE_BUFFER} => mem = Cleared(before, addr)
        BY <4>1, OutcomeCleared
      <4> QED
        BY <2>2, <2>3, <4>2, <4>3
    <3> QED
      BY <2>1, <3>1, <3>2, <3>3, <3>4
         DEF IInv, ChipInv, Steps, Querying, Erasing, ByWord, Asking, Loading, Ending, Waiting
  <2>5. Cleared(before, addr)[b] # before[b]
    BY <2>4
  <2> QED
    BY <2>5 DEF Cleared, EraseAt
<1> QED
  BY <1>1, Invariant, PTL

(* Both write methods leave the chip showing the array.                    *)
THEOREM WrittenIsReadable == Spec => []ReadableAfterWrite
<1>1. IInv => ReadableAfterWrite
  BY DEF IInv, ChipInv, ModeInv, Waiting, ReadableAfterWrite, ShowsStatus
<1> QED
  BY <1>1, Invariant, PTL

(* RQFI and READ_OTP answer with the registers in their order.             *)
THEOREM QueriesAnswered == Spec => []QueryAnswered
<1>1. IInv => QueryAnswered
  <2> SUFFICES ASSUME IInv, pc = "answer" PROVE QueryAnswered
    BY DEF QueryAnswered
  <2>1. answer \in Seq(Reads) /\ chip.mode = "array" /\ ~chip.working
    BY DEF IInv, AnswerInv, ChipInv, ModeInv, Waiting
  <2>2. DOMAIN answer = 1 .. Len(answer) /\ \A n \in DOMAIN answer : answer[n].shown = "id"
    <3>1. DOMAIN answer = 1 .. Len(answer) /\ \A n \in 1 .. Len(answer) : answer[n] \in Reads
      BY <2>1, LenProperties, ElementOfSeq
    <3>2. \A x \in Reads : x.shown = "id"
      BY DEF Reads
    <3> QED
      BY <3>1, <3>2, Zenon
  <2>3. CASE Len(answer) = 2 /\ answer[1].at = 0 /\ answer[2].at = 1
    <3>1. [n \in DOMAIN answer |-> answer[n].at] = <<0, 1>>
      BY <2>2, <2>3
    <3> QED
      BY <2>1, <2>2, <3>1 DEF QueryAnswered
  <2>4. CASE /\ Len(answer) = 2 * RegWords + MoreWords
             /\ \A n \in 1 .. Len(answer) : answer[n].at = Registers(n)
    BY <2>1, <2>2, <2>4, Zenon DEF QueryAnswered
  <2> QED
    BY <2>3, <2>4 DEF IInv, AnswerInv
<1> QED
  BY <1>1, Invariant, PTL

(* The driver implements the promise of FlashMemory: Finish is the step in  *)
(* which a BIN command takes effect, everything else it does is a stutter. *)
THEOREM DriverImplementsMemory == Spec => ImplementsMemory
<1>1. Init => Memory!Init
  BY DEF Init, Memory!Init, Memory!ERASE_NO, ERASE_NO
<1>2. IInv /\ [Next]_vars => [Memory!Next]_<<IF pc = "idle" THEN mem ELSE before, addr, mode>>
  <2> SUFFICES ASSUME IInv, [Next]_vars
               PROVE  [Memory!Next]_<<IF pc = "idle" THEN mem ELSE before, addr, mode>>
    OBVIOUS
  <2>1. CASE ADDR
    BY <2>1 DEF ADDR, Memory!Next, Memory!ADDR, Memory!Addresses, Addresses
  <2>2. CASE ERASE
    BY <2>2 DEF ERASE, Memory!Next, Memory!ERASE
  <2>3. CASE BIN \/ RQFI \/ READ_OTP
    BY <2>3 DEF BIN, RQFI, READ_OTP, Query
  <2>4. CASE Finish
    <3>1. job \in Chunks /\ mode # ERASE_NO /\ mem = Outcome(before, addr, mode, job)
          /\ (pc = "finish" <=> mode <= ERASE_ONLY)
      BY <2>4 DEF Finish, IInv, JobInv, MemInv, Querying, ERASE_WRITE_BLOCK, ERASE_WRITE_BUFFER,
                  ERASE_ONLY, TypeOK
    <3>2. addr' = NextAddress(addr, mode, job)
      BY <2>4, <3>1 DEF Finish, NextAddress
    <3>3. Memory!BIN(job)
      BY <2>4, <3>1, <3>2
         DEF Finish, Memory!BIN, Memory!Outcome, Outcome, Memory!NextAddress, NextAddress,
             Memory!ERASE_NO, ERASE_NO, Memory!ERASE_WRITE_BLOCK, ERASE_WRITE_BLOCK,
             Memory!ERASE_WRITE_BUFFER, ERASE_WRITE_BUFFER, Memory!ERASE_ONLY, ERASE_ONLY,
             Memory!EraseAt, EraseAt, Memory!ProgramAt, ProgramAt, Memory!Block, Block,
             Memory!Extent, Extent, Memory!Addresses, Addresses, Memory!Erased, Erased
    <3> QED
      BY <3>1, <3>3 DEF Memory!Next
  <2>5. CASE Answered
    BY <2>5 DEF Answered, Goto, IInv, MemInv, Querying
  <2>6. CASE \/ Unlock \/ UnlockConfirm \/ Erase \/ EraseConfirm \/ EraseWait
             \/ WordNext \/ WordData \/ WordWait
    BY <2>6 DEF Unlock, UnlockConfirm, Erase, EraseConfirm, EraseWait, WordNext, WordData, WordWait,
                Goto, Keep, WriteStep
  <2>7. CASE \/ BufCommand \/ BufStatus \/ BufCount \/ BufLoad \/ BufConfirm \/ BufWait
             \/ Reset \/ ResetRead
    BY <2>7 DEF BufCommand, BufStatus, BufCount, BufLoad, BufConfirm, BufWait, Reset, ResetRead,
                Goto, Keep
  <2>8. CASE OtpRound \/ OtpEnd
    BY <2>8 DEF OtpRound, OtpEnd, Goto
  <2>9. CASE ChipDone
    <3>1. pc \in Waiting
      BY <2>9 DEF ChipDone, IInv, ChipInv, ModeInv
    <3> QED
      BY <2>9, <3>1 DEF ChipDone, driverVars, Waiting
  <2>10. CASE UNCHANGED vars
    BY <2>10 DEF vars, driverVars
  <2> QED
    BY <2>1, <2>2, <2>3, <2>4, <2>5, <2>6, <2>7, <2>8, <2>9, <2>10 DEF Next, Driver
<1> QED
  BY <1>1, <1>2, Invariant, PTL DEF Spec, ImplementsMemory, Memory!Spec
=============================================================================
