--------------------------- MODULE FlashAmdProofs ---------------------------
(***************************************************************************)
(* Theorems about the driver for AMD chips, for every flash, every chunk   *)
(* and every size of a page: the chip understands what it is told, memory  *)
(* changes only where it should, the loader waits for commands with a      *)
(* flash that can be read, and a BIN command of whole pages does what      *)
(* FlashMemory says.                                                       *)
(***************************************************************************)
EXTENDS FlashAmd, NorFlashProofs, SequenceTheorems

-----------------------------------------------------------------------------
(* The inductive invariant.                                                *)

Modes == {"array", "unlocked", "erase_unlocked", "otp_unlocked", "erase", "word", "count",
          "otp", "id", "load", "confirm"}

Operations == [erase : BOOLEAN, at : Nat, words : Seq(Words)]

ChipStates ==
  [mode : Modes, working : BOOLEAN, busy : Operations, misuse : BOOLEAN,
   at : Nat, left : Int, words : Seq(Words)]

Outside == {"idle", "answer"}
ByWord  == {"word", "word_wait"}
Loading == {"load", "confirm", "page_wait"}
Ending  == {"finish", "give_up"}
Waiting == {"erase_wait", "word_wait", "page_wait"}

Steps == Outside \cup {"erase", "erase_wait", "buffer"} \cup ByWord \cup Loading \cup Ending

(* Between two steps of the driver the chip shows the array, except while  *)
(* a page is loaded; it works only while the driver polls it.              *)
ModeInv ==
  /\ ~chip.misuse
  /\ chip.working => pc \in Waiting
  /\ chip.mode = IF pc = "load" THEN "load" ELSE IF pc = "confirm" THEN "confirm" ELSE "array"

(* What the command is about: words of one block which are erased, or will *)
(* be.                                                                     *)
JobInv ==
  pc \notin Outside =>
    /\ job \in Chunks /\ mode # ERASE_NO
    /\ addr \in Addresses /\ Extent(addr, job) \subseteq Block(addr)
    /\ \A b \in Extent(addr, job) : Cleared(before, addr)[b] = Erased
    /\ pc \in {"erase", "erase_wait"} => addr \in BlockStarts
    /\ pc \in ByWord => mode = ERASE_WRITE_BLOCK
    /\ mode = ERASE_WRITE_BUFFER => addr % BufferWords = 0
    /\ pc \in Loading \cup {"buffer"} => mode = ERASE_WRITE_BUFFER
    /\ pc = "finish" => mode \in {ERASE_WRITE_BLOCK, ERASE_WRITE_BUFFER, ERASE_ONLY}
    /\ pc = "give_up" => mode > ERASE_ONLY

(* Where the page begins whose words the chip holds.                       *)
Start == k - Len(chip.words)

(* How many words are written, and which ones the chip holds.              *)
CountInv ==
  /\ pc \in {"erase", "erase_wait"} => k = 0
  /\ pc = "word_wait" => k < Len(job)
  /\ pc = "buffer" => k % BufferWords = 0
  /\ pc \in Loading =>
       /\ Start \in Nat /\ Start % BufferWords = 0 /\ Start + BufferWords <= Len(job)
       /\ \A i \in 1 .. Len(chip.words) : chip.words[i] = job[Start + i]
       /\ chip.words # << >> => chip.at = addr + Start
  /\ pc = "load" => chip.left \in 1 .. BufferWords /\ Len(chip.words) + chip.left = BufferWords
  /\ pc \in {"confirm", "page_wait"} => Len(chip.words) = BufferWords
  /\ pc = "finish" /\ mode = ERASE_WRITE_BLOCK => k = Len(job)
  /\ pc = "finish" /\ mode = ERASE_WRITE_BUFFER =>
       k % BufferWords = 0 /\ ~(k \div BufferWords < Pages(Len(job)))

(* What the chip is working on.                                            *)
WorkInv ==
  chip.working =>
    /\ pc = "erase_wait" => chip.busy = [erase |-> TRUE, at |-> addr, words |-> << >>]
    /\ pc = "word_wait"  => chip.busy = [erase |-> FALSE, at |-> addr + k, words |-> <<job[k + 1]>>]
    /\ pc = "page_wait"  => chip.busy = [erase |-> FALSE, at |-> addr + Start, words |-> chip.words]

(* The memory, in terms of Cleared and Written of NorFlashProofs.          *)
MemInv ==
  /\ pc \in {"answer", "erase"} => mem = before
  /\ pc = "erase_wait" => mem = IF chip.working THEN before ELSE Cleared(before, addr)
  /\ pc \in {"word", "buffer"} => mem = Written(before, addr, job, k)
  /\ pc = "word_wait" => mem = Written(before, addr, job, IF chip.working THEN k ELSE k + 1)
  /\ pc \in {"load", "confirm"} => mem = Written(before, addr, job, Start)
  /\ pc = "page_wait" => mem = Written(before, addr, job, IF chip.working THEN Start ELSE k)
  /\ pc \in Ending => mem = IF mode \in {ERASE_WRITE_BLOCK, ERASE_WRITE_BUFFER}
                            THEN Written(before, addr, job, k) ELSE Cleared(before, addr)

AnswerInv ==
  pc = "answer" => \A n \in DOMAIN answer : answer[n].shown \in {"id", "otp", "stack"}

ChipInv == chip \in ChipStates /\ pc \in Steps /\ ModeInv /\ WorkInv

IInv == TypeOK /\ ChipInv /\ JobInv /\ CountInv /\ MemInv /\ AnswerInv

-----------------------------------------------------------------------------
(* What the chip makes of the command sequences of the driver.             *)

(* A chip that has begun to work.                                          *)
Busy(s, op) == [s EXCEPT !.mode = "array", !.working = TRUE, !.busy = op]

LEMMA BusyType ==
  ASSUME NEW s \in ChipStates, NEW op \in Operations
  PROVE  /\ Busy(s, op) \in ChipStates /\ Busy(s, op).busy = op
         /\ Busy(s, op).working /\ Busy(s, op).mode = "array"
         /\ Busy(s, op).misuse = s.misuse /\ Busy(s, op).at = s.at
         /\ Busy(s, op).words = s.words
BY DEF Busy, ChipStates, Modes

LEMMA UnlockCycles ==
  ASSUME NEW s \in ChipStates, ~s.working
  PROVE  /\ s.mode = "array" => AfterUnlock(s) = [s EXCEPT !.mode = "unlocked"]
         /\ s.mode = "erase" => AfterUnlock(s) = [s EXCEPT !.mode = "erase_unlocked"]
         /\ s.mode = "otp"   => AfterUnlock(s) = [s EXCEPT !.mode = "otp_unlocked"]
BY DEF AfterUnlock, Unlocked, ChipStates

LEMMA SetupCommand ==
  ASSUME NEW s \in ChipStates, ~s.working, s.mode = "array", NEW a
  PROVE  /\ AfterCommand(AfterUnlock(s), a, "setup_erase") = [s EXCEPT !.mode = "erase"]
         /\ AfterCommand(AfterUnlock(s), a, "setup_write") = [s EXCEPT !.mode = "word"]
         /\ AfterCommand(AfterUnlock(s), a, "buffer") = [s EXCEPT !.mode = "count"]
         /\ AfterCommand(AfterUnlock(s), a, "otp") = [s EXCEPT !.mode = "otp"]
         /\ AfterCommand(AfterUnlock(s), a, "id") = [s EXCEPT !.mode = "id"]
<1>1. AfterUnlock(s) = [s EXCEPT !.mode = "unlocked"]
  BY UnlockCycles
<1> QED
  BY <1>1 DEF AfterCommand, Setup, ChipStates

LEMMA ModeType ==
  ASSUME NEW s \in ChipStates, NEW m \in Modes
  PROVE  /\ [s EXCEPT !.mode = m] \in ChipStates /\ [s EXCEPT !.mode = m].mode = m
         /\ [s EXCEPT !.mode = m].working = s.working
BY DEF ChipStates

LEMMA ReadCommand ==
  ASSUME NEW s \in ChipStates, ~s.working, s.mode # "otp", NEW a
  PROVE  AfterCommand(s, a, "read") = [s EXCEPT !.mode = "array"]
BY DEF AfterCommand, Setup, ChipStates

LEMMA ResetCommand ==
  ASSUME NEW s \in ChipStates, ~s.working, s.mode = "array", NEW a
  PROVE  AfterCommand(s, a, "read") = s
<1>1. AfterCommand(s, a, "read") = [s EXCEPT !.mode = "array"]
  BY ReadCommand
<1> QED
  BY <1>1 DEF ChipStates

LEMMA EraseCommands ==
  ASSUME NEW s \in ChipStates, ~s.working, s.mode = "array", NEW a
  PROVE  AfterCommand(AfterUnlock(AfterCommand(AfterUnlock(s), a, "setup_erase")), a, "sector")
           = Busy(s, [erase |-> TRUE, at |-> a, words |-> << >>])
<1> DEFINE t == [s EXCEPT !.mode = "erase"]
<1>1. AfterCommand(AfterUnlock(s), a, "setup_erase") = t
  BY SetupCommand
<1>2. t \in ChipStates /\ ~t.working /\ t.mode = "erase"
  BY ModeType DEF Modes
<1>3. AfterUnlock(t) = [t EXCEPT !.mode = "erase_unlocked"]
  BY <1>2, UnlockCycles
<1>4. AfterUnlock(t) = [s EXCEPT !.mode = "erase_unlocked"]
  BY <1>3 DEF ChipStates
<1>5. AfterCommand(AfterUnlock(t), a, "sector") = Begin(AfterUnlock(t), TRUE, a, << >>)
  BY <1>4 DEF AfterCommand, Setup, ChipStates
<1>6. Begin(AfterUnlock(t), TRUE, a, << >>) = Busy(s, [erase |-> TRUE, at |-> a, words |-> << >>])
  BY <1>4 DEF Begin, Busy, ChipStates
<1> QED
  BY <1>1, <1>5, <1>6

LEMMA WordCommands ==
  ASSUME NEW s \in ChipStates, ~s.working, s.mode = "array", NEW a, NEW b, NEW w
  PROVE  AfterWord(AfterCommand(AfterUnlock(s), a, "setup_write"), b, w)
           = Busy(s, [erase |-> FALSE, at |-> b, words |-> <<w>>])
<1>1. AfterCommand(AfterUnlock(s), a, "setup_write") = [s EXCEPT !.mode = "word"]
  BY SetupCommand
<1> QED
  BY <1>1 DEF AfterWord, Begin, Busy, ChipStates

LEMMA CountCommands ==
  ASSUME NEW s \in ChipStates, ~s.working, s.mode = "array", NEW a, NEW n
  PROVE  AfterCount(AfterCommand(AfterUnlock(s), a, "buffer"), n)
           = [s EXCEPT !.mode = "load", !.left = n, !.words = << >>]
<1>1. AfterCommand(AfterUnlock(s), a, "buffer") = [s EXCEPT !.mode = "count"]
  BY SetupCommand
<1> QED
  BY <1>1 DEF AfterCount, ChipStates

LEMMA ConfirmCommand ==
  ASSUME NEW s \in ChipStates, ~s.working, s.mode = "confirm", NEW a
  PROVE  AfterCommand(s, a, "confirm") = Busy(s, [erase |-> FALSE, at |-> s.at, words |-> s.words])
BY DEF AfterCommand, Setup, Begin, Busy, ChipStates

LEMMA IdCommands ==
  ASSUME NEW s \in ChipStates, ~s.working, s.mode = "array", NEW a, NEW b
  PROVE  AfterCommand(AfterUnlock(s), a, "id").mode = "id"
         /\ AfterCommand(AfterCommand(AfterUnlock(s), a, "id"), b, "read") = s
<1> DEFINE t == [s EXCEPT !.mode = "id"]
<1>1. AfterCommand(AfterUnlock(s), a, "id") = t
  BY SetupCommand
<1>2. t \in ChipStates /\ ~t.working /\ t.mode = "id"
  BY ModeType DEF Modes
<1>3. AfterCommand(t, b, "read") = [t EXCEPT !.mode = "array"]
  BY <1>2, ReadCommand
<1>4. [t EXCEPT !.mode = "array"] = s
  BY DEF ChipStates
<1> QED
  BY <1>1, <1>2, <1>3, <1>4

LEMMA OtpCommands ==
  ASSUME NEW s \in ChipStates, ~s.working, s.mode = "array", NEW a
  PROVE  LET t == AfterCommand(AfterUnlock(s), a, "otp")
         IN t.mode = "otp" /\ AfterCommand(AfterCommand(AfterUnlock(t), a, "id"), a, "read") = s
<1> DEFINE t == [s EXCEPT !.mode = "otp"]
           u == [s EXCEPT !.mode = "id"]
<1>1. AfterCommand(AfterUnlock(s), a, "otp") = t
  BY SetupCommand
<1>2. t \in ChipStates /\ ~t.working /\ t.mode = "otp"
  BY ModeType DEF Modes
<1>3. AfterUnlock(t) = [t EXCEPT !.mode = "otp_unlocked"]
  BY <1>2, UnlockCycles
<1>4. AfterUnlock(t) = [s EXCEPT !.mode = "otp_unlocked"]
  BY <1>3 DEF ChipStates
<1>5. AfterCommand(AfterUnlock(t), a, "id") = u
  BY <1>4 DEF AfterCommand, Setup, ChipStates
<1>6. u \in ChipStates /\ ~u.working /\ u.mode = "id"
  BY ModeType DEF Modes
<1>7. AfterCommand(u, a, "read") = [u EXCEPT !.mode = "array"]
  BY <1>6, ReadCommand
<1>8. [u EXCEPT !.mode = "array"] = s
  BY DEF ChipStates
<1> QED
  BY <1>1, <1>2, <1>5, <1>7, <1>8

-----------------------------------------------------------------------------
LEMMA ChunkType ==
  ASSUME NEW ws \in Chunks
  PROVE  ws \in Seq(Words) /\ Len(ws) \in Nat \ {0}
<1>1. ws \in Seq(Words)
  BY FlashConstants DEF Words
<1> QED
  BY <1>1, AmdBlocks

-----------------------------------------------------------------------------
(* The invariant holds at first, and every action keeps it.                *)

LEMMA InitInv == Init => IInv
<1> SUFFICES ASSUME Init PROVE IInv
  OBVIOUS
<1>1. TypeOK
  BY FlashConstants, AmdConstants DEF Init, TypeOK, Addresses, Words, ERASE_NO
<1>2. ChipInv
  BY DEF Init, ChipInv, ChipStates, Modes, Steps, Outside, Waiting, ModeInv, WorkInv, PowerUp, NoOp,
         Operations
<1>3. JobInv /\ CountInv /\ MemInv /\ AnswerInv
  BY DEF Init, JobInv, CountInv, MemInv, AnswerInv, Outside, ByWord, Loading, Ending
<1> QED
  BY <1>1, <1>2, <1>3 DEF IInv

(* What every step of a BIN command knows of its job.                      *)
LEMMA Job ==
  ASSUME IInv, pc \notin Outside
  PROVE  /\ addr \in Nat /\ job \in Seq(Words) /\ Len(job) \in Nat \ {0}
         /\ addr + Len(job) <= Size
         /\ BufferWords \in Nat \ {0} /\ k \in 0 .. Len(job)
         /\ before \in [Addresses -> Words]
<1>1. job \in Chunks /\ addr \in Addresses /\ Extent(addr, job) \subseteq Block(addr)
  BY DEF IInv, JobInv
<1>2. job \in Seq(Words) /\ Len(job) \in Nat \ {0}
  BY <1>1, ChunkType
<1>3. addr \in Nat /\ Size \in Nat
  BY <1>1, FlashConstants DEF Addresses
<1>4. addr + (Len(job) - 1) \in Addresses
  <2>1. Block(addr) \subseteq Addresses
    BY DEF Block
  <2>2. addr + (Len(job) - 1) \in Extent(addr, job)
    BY <1>2, <1>3 DEF Extent
  <2> QED
    BY <1>1, <2>1, <2>2
<1>5. k \in 0 .. Len(job) /\ before \in [Addresses -> Words]
  BY DEF IInv, TypeOK
<1> QED
  BY <1>2, <1>3, <1>4, <1>5, AmdConstants DEF Addresses

LEMMA ADDRKeeps == ASSUME IInv, ADDR PROVE IInv'
<1>1. TypeOK'
  BY FlashConstants DEF IInv, ADDR, TypeOK, Addresses
<1>2. ChipInv'
  BY DEF IInv, ADDR, ChipInv, ModeInv, WorkInv, Waiting
<1>3. JobInv' /\ CountInv' /\ MemInv' /\ AnswerInv'
  BY DEF IInv, ADDR, JobInv, CountInv, MemInv, AnswerInv, Outside, ByWord, Loading, Ending
<1> QED
  BY <1>1, <1>2, <1>3 DEF IInv

LEMMA ERASEKeeps == ASSUME IInv, ERASE PROVE IInv'
<1>1. TypeOK'
  BY FlashConstants DEF IInv, ERASE, TypeOK
<1>2. ChipInv'
  BY DEF IInv, ERASE, ChipInv, ModeInv, WorkInv, Waiting
<1>3. JobInv' /\ CountInv' /\ MemInv' /\ AnswerInv'
  BY DEF IInv, ERASE, JobInv, CountInv, MemInv, AnswerInv, Outside, ByWord, Loading, Ending
<1> QED
  BY <1>1, <1>2, <1>3 DEF IInv

LEMMA WriteSteps ==
  ASSUME mode \in Nat, mode # 0
  PROVE  \/ WriteStep = "word"    /\ mode = ERASE_WRITE_BLOCK
         \/ WriteStep = "buffer"  /\ mode = ERASE_WRITE_BUFFER
         \/ WriteStep = "finish"  /\ mode = ERASE_ONLY
         \/ WriteStep = "give_up" /\ mode > ERASE_ONLY
<1> USE DEF WriteStep, ERASE_WRITE_BLOCK, ERASE_WRITE_BUFFER, ERASE_ONLY
<1>1. CASE mode = 1
  BY <1>1
<1>2. CASE mode = 2
  BY <1>2
<1>3. CASE mode = 3
  BY <1>3
<1>4. CASE mode > 3
  BY <1>4
<1> QED
  BY <1>1, <1>2, <1>3, <1>4

(* Both ways to the write method, from an erased block and from the start  *)
(* of the command: the words to write are erased.                          *)
LEMMA WriteStepKeeps ==
  ASSUME TypeOK', ChipInv', AnswerInv', pc' = WriteStep, k' = 0, mode' = mode,
         mode # ERASE_NO, job' \in Chunks, addr' \in Addresses,
         Extent(addr', job') \subseteq Block(addr'),
         \A b \in Extent(addr', job') : Cleared(before', addr')[b] = Erased,
         mode = ERASE_WRITE_BUFFER => addr' % BufferWords = 0,
         mem' = Cleared(before', addr')
  PROVE  IInv'
<1>1. mode \in Nat /\ mode # 0 /\ addr' \in Nat /\ before' \in [Addresses -> Words]
  BY FlashConstants DEF TypeOK, ERASE_NO, Addresses
<1>2. \/ pc' = "word"    /\ mode = ERASE_WRITE_BLOCK
      \/ pc' = "buffer"  /\ mode = ERASE_WRITE_BUFFER
      \/ pc' = "finish"  /\ mode = ERASE_ONLY
      \/ pc' = "give_up" /\ mode > ERASE_ONLY
  BY <1>1, WriteSteps DEF ERASE_NO
<1>3. JobInv'
  BY <1>2 DEF JobInv, ByWord, Loading, Ending, ERASE_NO
<1>4. CountInv'
  <2>1. 0 % BufferWords = 0
    BY AmdConstants
  <2>2. ERASE_ONLY \notin {ERASE_WRITE_BLOCK, ERASE_WRITE_BUFFER}
    BY DEF ERASE_WRITE_BLOCK, ERASE_WRITE_BUFFER, ERASE_ONLY
  <2> QED
    BY <1>2, <2>1, <2>2, Zenon DEF CountInv, Loading
<1>5. MemInv'
  <2>1. Written(before', addr', job', 0) = mem'
    BY <1>1, WrittenNone
  <2>2. mode >= ERASE_ONLY => mode \notin {ERASE_WRITE_BLOCK, ERASE_WRITE_BUFFER}
    BY <1>1 DEF ERASE_WRITE_BLOCK, ERASE_WRITE_BUFFER, ERASE_ONLY
  <2> QED
    BY <1>1, <1>2, <2>1, <2>2 DEF MemInv, Ending, ERASE_ONLY
<1> QED
  BY <1>3, <1>4, <1>5 DEF IInv

LEMMA BINKeeps == ASSUME IInv, BIN PROVE IInv'
<1> USE DEF IInv, BIN, HostKeepsRules
<1>1. job' \in Chunks /\ Extent(addr, job') \subseteq Block(addr) /\ Len(job') \in Nat \ {0}
  BY ChunkType
<1>2. addr \in Addresses
  <2>1. addr \in Extent(addr, job') /\ Block(addr) \subseteq Addresses
    BY <1>1, FlashConstants DEF Extent, TypeOK, Block
  <2> QED
    BY <1>1, <2>1
<1>3. Geometry(addr) <=> addr \in BlockStarts
  BY <1>2, AmdBlocks DEF Geometry
<1>4. \A b \in Extent(addr, job') : Cleared(mem, addr)[b] = Erased
  <2>1. CASE addr \in BlockStarts
    <3>1. \A b \in Block(addr) : b \in Addresses
      BY DEF Block
    <3> QED
      BY <1>1, <2>1, <3>1 DEF Cleared, EraseAt
  <2>2. CASE addr \notin BlockStarts
    BY <2>2 DEF Cleared
  <2> QED
    BY <2>1, <2>2
<1>5. TypeOK'
  BY <1>1, AmdConstants DEF TypeOK
<1>6. AnswerInv'
  BY DEF AnswerInv, WriteStep
<1>7. mode \in Nat /\ mode # 0
  BY FlashConstants DEF TypeOK, ERASE_NO
<1>8. WriteStep \in {"word", "buffer", "finish", "give_up"}
  BY <1>7, WriteSteps
<1>9. ChipInv'
  BY <1>8 DEF ChipInv, ModeInv, WorkInv, Waiting, Steps, Outside, Ending, ByWord
<1>10. CASE addr \notin BlockStarts
  <2>1. mem' = Cleared(before', addr') /\ pc' = WriteStep
    BY <1>3, <1>10 DEF Cleared
  <2>2. /\ \A b \in Extent(addr', job') : Cleared(before', addr')[b] = Erased
        /\ mode = ERASE_WRITE_BUFFER => addr' % BufferWords = 0
    <3>1. before' = mem /\ addr' = addr
      OBVIOUS
    <3> QED
      BY <1>4, <3>1, Zenon
  <2> QED
    BY <1>1, <1>2, <1>5, <1>6, <1>9, <2>1, <2>2, WriteStepKeeps
<1>11. CASE addr \in BlockStarts
  <2>1. pc' = "erase"
    BY <1>3, <1>11
  <2>2. JobInv'
    BY <1>1, <1>2, <1>4, <1>11, <2>1 DEF JobInv, ByWord, Loading, Ending
  <2>3. CountInv' /\ MemInv'
    BY <2>1 DEF CountInv, MemInv, Loading, Ending
  <2> QED
    BY <1>5, <1>6, <1>9, <2>2, <2>3
<1> QED
  BY <1>10, <1>11

LEMMA EraseKeeps == ASSUME IInv, Erase PROVE IInv'
<1> USE DEF IInv, Erase, Goto, Keep
<1>1. chip \in ChipStates /\ ~chip.working /\ chip.mode = "array" /\ addr \in Nat
  BY Job DEF ChipInv, ModeInv, Waiting, Outside
<1>2. chip' = Busy(chip, [erase |-> TRUE, at |-> addr, words |-> << >>])
  BY <1>1, EraseCommands
<1>3. /\ chip' \in ChipStates /\ chip'.working /\ chip'.mode = "array"
      /\ chip'.busy = [erase |-> TRUE, at |-> addr, words |-> << >>]
      /\ chip'.misuse = chip.misuse
  <2>1. [erase |-> TRUE, at |-> addr, words |-> << >>] \in Operations
    BY <1>1 DEF Operations
  <2> QED
    BY <1>1, <1>2, <2>1, BusyType
<1>4. TypeOK'
  BY DEF TypeOK
<1>5. ChipInv'
  BY <1>3 DEF ChipInv, ModeInv, WorkInv, Waiting, Steps
<1>6. JobInv'
  BY DEF JobInv, Outside, ByWord, Loading, Ending
<1>7. CountInv' /\ MemInv' /\ AnswerInv'
  BY <1>3 DEF CountInv, MemInv, AnswerInv, Loading, Ending
<1> QED
  BY <1>4, <1>5, <1>6, <1>7

LEMMA EraseWaitKeeps == ASSUME IInv, EraseWait PROVE IInv'
<1> USE DEF IInv, EraseWait, Goto, Keep, Reset
<1>1. /\ chip \in ChipStates /\ pc = "erase_wait" /\ chip.mode = "array" /\ ~chip.misuse
      /\ addr \in Addresses /\ addr \in BlockStarts /\ mode \in Nat /\ mode # 0
  BY FlashConstants DEF ChipInv, ModeInv, JobInv, Outside, TypeOK, ERASE_NO
<1>2. ~chip.working
  <2>1. chip.working => chip.busy.erase
    BY <1>1 DEF ChipInv, WorkInv
  <2> QED
    BY <2>1, AmdBlocks DEF Waited, ShownDQ7, Erased
<1>3. chip' = chip
  BY <1>1, <1>2, ResetCommand
<1>4. pc' \in {"word", "buffer", "finish", "give_up"} /\ k = 0 /\ mem = Cleared(before, addr)
  BY <1>1, <1>2, WriteSteps DEF CountInv, MemInv
<1>5. TypeOK'
  BY DEF TypeOK
<1>6. ChipInv'
  BY <1>1, <1>2, <1>3, <1>4 DEF ChipInv, ModeInv, WorkInv, Waiting, Steps, Outside, Ending, ByWord
<1>7. AnswerInv'
  BY <1>4 DEF AnswerInv
<1>8. /\ mode # ERASE_NO /\ job' \in Chunks /\ addr' \in Addresses
      /\ Extent(addr', job') \subseteq Block(addr')
      /\ \A b \in Extent(addr', job') : Cleared(before', addr')[b] = Erased
      /\ mem' = Cleared(before', addr')
  BY <1>1, <1>4 DEF JobInv, Outside
<1>9. mode = ERASE_WRITE_BUFFER => addr' % BufferWords = 0
  BY <1>1, Zenon DEF JobInv, Outside
<1> QED
  BY <1>4, <1>5, <1>6, <1>7, <1>8, <1>9, WriteStepKeeps

-----------------------------------------------------------------------------
(* Word by word.                                                           *)

LEMMA WordNextKeeps == ASSUME IInv, WordNext PROVE IInv'
<1> USE DEF IInv, WordNext, Keep
<1>1. /\ chip \in ChipStates /\ ~chip.working /\ chip.mode = "array" /\ ~chip.misuse
      /\ pc = "word" /\ k \in Nat /\ k < Len(job) /\ Len(job) \in Nat /\ addr \in Nat
  BY Job DEF ChipInv, ModeInv, Waiting, Outside
<1>2. CASE job[k + 1] = Erased
  <2>1. pc' = "word" /\ chip' = chip /\ k' = k + 1
    BY <1>1, <1>2
  <2>2. TypeOK'
    BY <1>1, <2>1 DEF TypeOK
  <2>3. ChipInv'
    BY <1>1, <2>1 DEF ChipInv, ModeInv, WorkInv
  <2>4. JobInv'
    BY <1>1, <2>1 DEF JobInv
  <2>5. CountInv' /\ AnswerInv'
    BY <1>1, <2>1 DEF CountInv, AnswerInv, Loading
  <2>6. MemInv'
    <3>1. Written(before, addr, job, k + 1) = Written(before, addr, job, k)
      BY <1>1, <1>2, Job, WrittenErased DEF Outside
    <3> QED
      BY <1>1, <2>1, <3>1 DEF MemInv, Ending
  <2> QED
    BY <2>2, <2>3, <2>4, <2>5, <2>6
<1>3. CASE job[k + 1] # Erased
  <2> DEFINE op == [erase |-> FALSE, at |-> addr + k, words |-> <<job[k + 1]>>]
  <2>1. pc' = "word_wait" /\ k' = k /\ chip' = Busy(chip, op)
    BY <1>1, <1>3, WordCommands
  <2>2. op \in Operations
    <3>1. job[k + 1] \in Words
      BY <1>1, Job DEF Outside
    <3> QED
      BY <1>1, <3>1 DEF Operations
  <2>3. /\ chip' \in ChipStates /\ chip'.working /\ chip'.mode = "array"
        /\ chip'.busy = op /\ chip'.misuse = chip.misuse
    BY <1>1, <2>1, <2>2, BusyType
  <2>4. TypeOK'
    BY <2>1 DEF TypeOK
  <2>5. ChipInv'
    BY <1>1, <2>1, <2>3 DEF ChipInv, ModeInv, WorkInv, Waiting, Steps, ByWord
  <2>6. JobInv'
    BY <1>1, <2>1 DEF JobInv, Outside, ByWord, Loading, Ending
  <2>7. CountInv' /\ MemInv' /\ AnswerInv'
    BY <1>1, <2>1, <2>3 DEF CountInv, MemInv, AnswerInv, Loading, Ending
  <2> QED
    BY <2>4, <2>5, <2>6, <2>7
<1> QED
  BY <1>2, <1>3

(* The word that is polled reads back as it was sent: it was erased.       *)
LEMMA WordWaitKeeps == ASSUME IInv, WordWait PROVE IInv'
<1> USE DEF IInv, WordWait, Keep
<1>1. /\ chip \in ChipStates /\ chip.mode = "array" /\ ~chip.misuse
      /\ pc = "word_wait" /\ k \in Nat /\ k < Len(job) /\ Len(job) \in Nat /\ addr \in Nat
      /\ job[k + 1] \in Words
  BY Job DEF ChipInv, ModeInv, CountInv, Outside
<1>2. ~chip.working
  <2>1. chip.working => chip.busy = [erase |-> FALSE, at |-> addr + k, words |-> <<job[k + 1]>>]
    BY <1>1 DEF ChipInv, WorkInv
  <2> QED
    BY <2>1 DEF Waited, ShownDQ7
<1>3. mem = Written(before, addr, job, k + 1)
  BY <1>1, <1>2 DEF MemInv
<1>4. mem[addr + k] = job[k + 1]
  <2>1. addr + k \in Addresses /\ addr + k \in Extent(addr, job)
    BY <1>1, Job, FlashConstants DEF Addresses, Extent, Outside
  <2>2. Cleared(before, addr)[addr + k] = Erased
    BY <1>1, <2>1 DEF JobInv, Outside
  <2>3. addr + k \in addr .. (addr + (k + 1) - 1) /\ (addr + k) - addr + 1 = k + 1
    BY <1>1
  <2>4. mem[addr + k] = Erased \cap job[k + 1]
    BY <1>3, <2>1, <2>2, <2>3 DEF Written
  <2> QED
    BY <1>1, <2>4 DEF Erased, Words
<1>5. pc' = "word" /\ k' = k + 1 /\ chip' = chip
  BY <1>4
<1>6. TypeOK'
  BY <1>1, <1>5 DEF TypeOK
<1>7. ChipInv'
  BY <1>1, <1>2, <1>5 DEF ChipInv, ModeInv, WorkInv, Waiting, Steps, ByWord
<1>8. JobInv'
  BY <1>1, <1>5 DEF JobInv, Outside, ByWord, Loading, Ending
<1>9. CountInv' /\ MemInv' /\ AnswerInv'
  BY <1>1, <1>3, <1>5 DEF CountInv, MemInv, AnswerInv, Loading, Ending
<1> QED
  BY <1>6, <1>7, <1>8, <1>9

LEMMA WordEndKeeps == ASSUME IInv, WordEnd PROVE IInv'
<1> USE DEF IInv, WordEnd, Goto, Keep, Reset
<1>1. /\ chip \in ChipStates /\ ~chip.working /\ chip.mode = "array" /\ ~chip.misuse
      /\ mode = ERASE_WRITE_BLOCK
  BY DEF ChipInv, ModeInv, Waiting, JobInv, Outside, ByWord
<1>2. chip' = chip
  BY <1>1, ResetCommand
<1>3. TypeOK'
  BY DEF TypeOK
<1>4. ChipInv'
  BY <1>1, <1>2 DEF ChipInv, ModeInv, WorkInv, Steps, Ending
<1>5. JobInv'
  BY <1>1 DEF JobInv, Outside, ByWord, Loading, Ending
<1>6. CountInv' /\ MemInv' /\ AnswerInv'
  BY <1>1 DEF CountInv, MemInv, AnswerInv, Loading, Ending, ERASE_WRITE_BLOCK, ERASE_WRITE_BUFFER
<1> QED
  BY <1>3, <1>4, <1>5, <1>6

-----------------------------------------------------------------------------
(* Pages.                                                                  *)

LEMMA Quotients ==
  ASSUME NEW B \in Nat \ {0}, NEW x \in Nat, NEW y \in Nat, x % B = 0
  PROVE  /\ x \div B < y \div B => x + B <= y
         /\ ~(x \div B < y \div B) /\ x <= y /\ y % B = 0 => x = y
<1> DEFINE p == x \div B
           q == y \div B
           r == y % B
<1>1. x = B * p /\ y = B * q + r /\ p \in Int /\ q \in Int /\ r \in 0 .. (B - 1)
  <2>1. x = B * p + (x % B) /\ p \in Int
    BY Euclid
  <2>2. y = B * q + r /\ q \in Int /\ r \in 0 .. (B - 1)
    BY Euclid
  <2>3. B * p \in Int
    BY <2>1
  <2> HIDE DEF p, q, r
  <2> QED
    BY <2>1, <2>2, <2>3
<1> HIDE DEF p, q, r
<1>2. y - x = B * (q - p) + r
  BY <1>1
<1>3. CASE p < q
  <2>1. q - p \in Int /\ q - p >= 1
    BY <1>1, <1>3
  <2>2. B * (q - p) >= B
    BY <2>1, Multiple
  <2>3. B * (q - p) \in Int
    BY <1>1
  <2>4. x + B <= y
    BY <1>1, <1>2, <2>2, <2>3
  <2> QED
    BY <1>3, <2>4 DEF p, q
<1>4. CASE ~(p < q)
  <2>1. ASSUME x <= y, r = 0 PROVE x = y
    <3>1. p - q \in Int /\ (p - q >= 1 \/ p = q)
      BY <1>1, <1>4
    <3>2. p - q >= 1 => B * (p - q) >= B
      BY <3>1, Multiple
    <3>3. x - y = B * (p - q)
      BY <1>1, <2>1
    <3>4. p = q
      BY <2>1, <3>1, <3>2, <3>3
    <3> QED
      BY <1>1, <2>1, <3>4
  <2> QED
    BY <1>4, <2>1 DEF p, q, r
<1> QED
  BY <1>3, <1>4

(* The words of a page have the quotient of its first word.                *)
LEMMA SamePage ==
  ASSUME NEW B \in Nat \ {0}, NEW a \in Nat, NEW r \in Nat, a % B = 0, r % B = 0,
         NEW j \in 0 .. (B - 1)
  PROVE  (a + r + j) \div B = (a + r) \div B
<1> DEFINE p == a \div B
           q == r \div B
           x == a + r
           y == a + r + j
<1>1. x = B * (p + q) /\ p + q \in Int
  <2>1. a = B * p + (a % B) /\ p \in Int
    BY Euclid
  <2>2. r = B * q + (r % B) /\ q \in Int
    BY Euclid
  <2>3. B * p \in Int /\ B * q \in Int
    BY <2>1, <2>2
  <2> HIDE DEF p, q
  <2>4. a = B * p /\ r = B * q
    BY <2>1, <2>2, <2>3
  <2> QED
    BY <2>1, <2>2, <2>4
<1>2. x \in Nat /\ y \in Nat /\ y = x + j
  OBVIOUS
<1>3. /\ x = B * (x \div B) + (x % B) /\ x % B \in 0 .. (B - 1) /\ x \div B \in Int
      /\ y = B * (y \div B) + (y % B) /\ y % B \in 0 .. (B - 1) /\ y \div B \in Int
  <2> HIDE DEF x, y
  <2> QED
    BY <1>2, Euclid
<1> DEFINE d == x \div B
           e == y \div B
           m == x % B
           n == y % B
           s == p + q
<1>4. /\ x = B * s /\ s \in Int /\ y = x + j
      /\ x = B * d + m /\ m \in 0 .. (B - 1) /\ d \in Int
      /\ y = B * e + n /\ n \in 0 .. (B - 1) /\ e \in Int
  BY <1>1, <1>2, <1>3, Zenon
<1> HIDE DEF d, e, m, n, s, x, y
<1>5. ASSUME NEW f \in Int, NEW g \in Int, NEW u \in 0 .. (B - 1), NEW v \in 0 .. (B - 1),
             B * f + u = B * g + v
      PROVE  f = g
  <2>1. B * (f - g) = v - u /\ B * (g - f) = u - v
    BY SMT, <1>5
  <2>2. (f - g >= 1 => B * (f - g) >= B) /\ (g - f >= 1 => B * (g - f) >= B)
    BY SMT, Multiple
  <2> QED
    BY SMT, <2>1, <2>2
<1>6. B * s + 0 = B * d + m /\ B * s + j = B * e + n /\ 0 \in 0 .. (B - 1)
  <2>1. B * s \in Int
    BY <1>4
  <2> QED
    BY <1>4, <2>1
<1>7. s = d /\ s = e
  BY <1>4, <1>5, <1>6, Zenon
<1> QED
  BY <1>7, Zenon DEF d, e, x, y

LEMMA BufferNextKeeps == ASSUME IInv, BufferNext PROVE IInv'
<1> USE DEF BufferNext, Keep
<1>1. /\ chip \in ChipStates /\ ~chip.working /\ chip.mode = "array" /\ ~chip.misuse
      /\ pc = "buffer" /\ pc \notin Outside /\ mode = ERASE_WRITE_BUFFER
  BY DEF IInv, ChipInv, ModeInv, Waiting, JobInv, Outside
<1>2. k \in Nat /\ k <= Len(job) /\ Len(job) \in Nat /\ BufferWords \in Nat \ {0}
  BY <1>1, Job
<1>3. k % BufferWords = 0
  BY <1>1, Zenon DEF IInv, CountInv
<1>4. CASE k \div BufferWords < Pages(Len(job))
  <2>1. /\ pc' = "load" /\ k' = k
        /\ chip' = [chip EXCEPT !.mode = "load", !.left = BufferWords, !.words = << >>]
    BY <1>1, <1>4, CountCommands
  <2>2. /\ chip' \in ChipStates /\ ~chip'.working /\ chip'.mode = "load" /\ ~chip'.misuse
        /\ chip'.left = BufferWords /\ chip'.words = << >> /\ Len(chip'.words) = 0
    <3> DEFINE none == << >>
    <3>1. "load" \in Modes /\ BufferWords \in Int /\ none \in Seq(Words) /\ Len(none) = 0
      BY <1>2 DEF Modes
    <3> HIDE DEF none
    <3>2. chip' = [chip EXCEPT !.mode = "load", !.left = BufferWords, !.words = none]
      BY <2>1 DEF none
    <3>3. /\ chip' \in ChipStates /\ ~chip'.working /\ chip'.mode = "load" /\ ~chip'.misuse
          /\ chip'.left = BufferWords /\ chip'.words = none
      BY <1>1, <3>1, <3>2 DEF ChipStates
    <3> QED
      BY <3>1, <3>3, Zenon DEF none
  <2>3. Start' = k /\ k + BufferWords <= Len(job)
    <3>1. k + BufferWords <= Len(job)
      BY <1>2, <1>3, <1>4, Quotients, Zenon DEF Pages
    <3> QED
      BY <1>2, <2>1, <2>2, <3>1 DEF Start
  <2>4. TypeOK'
    BY <2>1 DEF IInv, TypeOK
  <2>5. ChipInv'
    BY <2>1, <2>2 DEF IInv, ChipInv, ModeInv, WorkInv, Steps, Loading
  <2>6. JobInv'
    BY <1>1, <2>1 DEF IInv, JobInv, Outside, ByWord, Loading, Ending
  <2>7. CountInv'
    <3>1. /\ Start' \in Nat /\ Start' % BufferWords = 0 /\ Start' + BufferWords <= Len(job')
      BY <1>2, <1>3, <2>1, <2>3, Zenon
    <3>2. chip'.left \in 1 .. BufferWords /\ Len(chip'.words) + chip'.left = BufferWords
      BY <1>2, <2>2
    <3>3. \A i \in 1 .. Len(chip'.words) : chip'.words[i] = job'[Start' + i]
      BY <2>2
    <3> QED
      BY <2>1, <2>2, <3>1, <3>2, <3>3, Zenon DEF CountInv
  <2>8. MemInv' /\ AnswerInv'
    BY <1>1, <2>1, <2>3 DEF IInv, MemInv, AnswerInv, Ending
  <2> QED
    BY <2>4, <2>5, <2>6, <2>7, <2>8 DEF IInv
<1>5. CASE ~(k \div BufferWords < Pages(Len(job)))
  <2>1. pc' = "finish" /\ k' = k /\ chip' = chip
    BY <1>1, <1>5
  <2>2. TypeOK'
    BY <2>1 DEF IInv, TypeOK
  <2>3. ChipInv'
    BY <1>1, <2>1 DEF IInv, ChipInv, ModeInv, WorkInv, Steps, Ending
  <2>4. JobInv'
    BY <1>1, <2>1 DEF IInv, JobInv, Outside, ByWord, Loading, Ending
  <2>5. CountInv'
    <3>1. k' % BufferWords = 0 /\ ~(k' \div BufferWords < Pages(Len(job'))) /\ mode' # ERASE_WRITE_BLOCK
      <4>1. ERASE_WRITE_BUFFER # ERASE_WRITE_BLOCK
        BY DEF ERASE_WRITE_BLOCK, ERASE_WRITE_BUFFER
      <4>2. job' = job /\ mode' = mode
        OBVIOUS
      <4> QED
        BY <1>1, <1>3, <1>5, <2>1, <4>1, <4>2, Zenon
    <3> QED
      BY <2>1, <3>1, Zenon DEF CountInv, Loading
  <2>6. MemInv' /\ AnswerInv'
    BY <1>1, <2>1 DEF IInv, MemInv, AnswerInv, Ending
  <2> QED
    BY <2>2, <2>3, <2>4, <2>5, <2>6 DEF IInv
<1> QED
  BY <1>4, <1>5

LEMMA BufferLoadKeeps == ASSUME IInv, BufferLoad PROVE IInv'
<1> DEFINE n == Len(chip.words)
           ws == Append(chip.words, job[k + 1])
           mode1 == IF chip.left = 1 THEN "confirm" ELSE "load"
           at1 == IF chip.words = << >> THEN addr + k ELSE chip.at
<1>1. /\ chip \in ChipStates /\ ~chip.working /\ chip.mode = "load" /\ ~chip.misuse
      /\ pc = "load" /\ pc \in Loading /\ pc \notin Outside /\ chip.left \in Int
      /\ chip.at \in Nat /\ chip.words \in Seq(Words) /\ n \in Nat
  BY DEF IInv, BufferLoad, ChipInv, ModeInv, Waiting, ChipStates, Loading, Outside
<1>2. addr \in Nat /\ Len(job) \in Nat /\ job \in Seq(Words) /\ k \in Nat /\ BufferWords \in Nat \ {0}
  BY <1>1, Job
<1>3. /\ chip.left \in 1 .. BufferWords /\ n + chip.left = BufferWords
      /\ Start \in Nat /\ Start + BufferWords <= Len(job)
  BY <1>1, Zenon DEF IInv, CountInv
<1>0. /\ Start % BufferWords = 0
      /\ \A i \in 1 .. n : chip.words[i] = job[Start + i]
      /\ chip.words # << >> => chip.at = addr + Start
  BY <1>1, Zenon DEF IInv, CountInv
<1>4. k = Start + n
  BY <1>1, <1>2 DEF Start
<1>5. n \in 0 .. (BufferWords - 1) /\ k + 1 <= Len(job) /\ (chip.left = 1 <=> n + 1 = BufferWords)
  BY <1>1, <1>2, <1>3, <1>4
<1>6. addr % BufferWords = 0
  BY <1>1, Zenon DEF IInv, JobInv
<1>7. pc' = IF chip.left = 1 THEN "confirm" ELSE "load"
  <2>1. (k + 1) % BufferWords = 0 <=> n + 1 = BufferWords
    <3>1. CASE n + 1 = BufferWords
      <4>1. k + 1 = Start + BufferWords
        BY <1>1, <1>2, <1>3, <1>4, <3>1
      <4>2. (Start + BufferWords) % BufferWords = 0
        BY <1>0, <1>2, <1>3, RoundsMeet, Zenon
      <4> QED
        BY <3>1, <4>1, <4>2, Zenon
    <3>2. CASE n + 1 # BufferWords
      <4> DEFINE j == n + 1
      <4>1. k + 1 = Start + j /\ j \in 0 .. (BufferWords - 1) /\ j # 0
        BY <1>1, <1>2, <1>3, <1>4, <1>5, <3>2
      <4> HIDE DEF j
      <4>2. (Start + j) % BufferWords = j
        BY <1>0, <1>2, <1>3, <4>1, RoundsMeet, Zenon
      <4> QED
        BY <3>2, <4>1, <4>2, Zenon
    <3> QED
      BY <3>1, <3>2
  <2>2. k' = k + 1
    BY DEF BufferLoad
  <2> QED
    BY <1>5, <2>1, <2>2, Zenon DEF BufferLoad
<1>8. ws \in Seq(Words) /\ Len(ws) = n + 1 /\ \A i \in 1 .. (n + 1) : ws[i] = job[Start + i]
  <2>1. job[k + 1] \in Words /\ k + 1 = Start + (n + 1)
    BY <1>1, <1>2, <1>3, <1>4, <1>5
  <2>2. Len(chip.words) = n
    OBVIOUS
  <2>3. /\ ws \in Seq(Words) /\ Len(ws) = n + 1
        /\ \A i \in 1 .. (n + 1) : ws[i] = IF i <= n THEN chip.words[i] ELSE job[k + 1]
    <3> HIDE DEF n
    <3> QED
      BY <1>1, <2>1, <2>2
  <2>4. \A i \in 1 .. (n + 1) : IF i <= n THEN i \in 1 .. n ELSE i = n + 1
    BY <1>1
  <2> QED
    BY <1>0, <2>1, <2>3, <2>4, Zenon
<1>9. at1 = addr + Start /\ at1 \in Nat
  <2>1. chip.words = << >> => n = 0
    OBVIOUS
  <2>2. addr + Start \in Nat /\ (n = 0 => addr + k = addr + Start)
    <3> HIDE DEF n
    <3> QED
      BY <1>2, <1>3, <1>4
  <2> QED
    BY <1>0, <2>1, <2>2, Zenon
<1>10. chip.words = << >> \/ (addr + k) \div BufferWords = chip.at \div BufferWords
  <2>1. (addr + Start + n) \div BufferWords = (addr + Start) \div BufferWords
    <3> HIDE DEF n
    <3> QED
      BY <1>0, <1>2, <1>3, <1>5, <1>6, SamePage, Zenon
  <2>2. addr + Start + n = addr + k
    <3>1. n \in Nat
      BY <1>1
    <3> HIDE DEF n
    <3> QED
      BY <1>2, <1>3, <1>4, <3>1
  <2> QED
    BY <1>0, <2>1, <2>2, Zenon
<1>11. chip' = [chip EXCEPT !.at = at1, !.words = ws, !.left = chip.left - 1, !.mode = mode1]
  BY <1>1, <1>10 DEF BufferLoad, AfterWord, ChipStates
<1>12. /\ chip' \in ChipStates
       /\ chip'.mode = mode1 /\ chip'.left = chip.left - 1 /\ chip'.words = ws /\ chip'.at = at1
       /\ ~chip'.working /\ ~chip'.misuse
  <2>1. mode1 \in Modes /\ chip.left - 1 \in Int
    BY <1>1 DEF Modes
  <2> HIDE DEF ws, mode1, at1
  <2> QED
    BY <1>1, <1>8, <1>9, <1>11, <2>1 DEF ChipStates
<1> HIDE DEF ws, at1
<1>13. Start' = Start /\ Len(chip'.words) = n + 1 /\ k' = k + 1
  <2>1. Len(chip'.words) = n + 1 /\ k' = k + 1
    BY <1>8, <1>12 DEF BufferLoad
  <2>2. (k + 1) - (n + 1) = Start
    <3> HIDE DEF n
    <3> QED
      BY <1>1, <1>3, <1>4
  <2> QED
    BY <2>1, <2>2, Zenon DEF Start
<1>14. job' = job /\ addr' = addr /\ mode' = mode /\ before' = before /\ mem' = mem /\ answer' = answer
  BY DEF BufferLoad, Keep
<1>15. TypeOK'
  BY <1>2, <1>5 DEF IInv, BufferLoad, Keep, TypeOK
<1>16. ChipInv'
  BY <1>7, <1>12 DEF ChipInv, ModeInv, WorkInv, Steps, Loading
<1>17. JobInv'
  BY <1>1, <1>7, <1>14 DEF IInv, JobInv, Outside, ByWord, Loading, Ending
<1>18. CountInv'
  <2>1. /\ Start' \in Nat /\ Start' % BufferWords = 0 /\ Start' + BufferWords <= Len(job')
        /\ chip'.at = addr' + Start'
    BY <1>0, <1>3, <1>9, <1>12, <1>13, <1>14, Zenon
  <2>2. \A i \in 1 .. Len(chip'.words) : chip'.words[i] = job'[Start' + i]
    BY <1>8, <1>12, <1>13, <1>14, Zenon
  <2>3. chip.left # 1 => chip'.left \in 1 .. BufferWords
    BY <1>2, <1>3, <1>12
  <2>4. Len(chip'.words) + chip'.left = BufferWords
    BY <1>1, <1>2, <1>3, <1>12, <1>13
  <2>5. chip.left = 1 => Len(chip'.words) = BufferWords
    BY <1>5, <1>13
  <2> QED
    BY <1>7, <2>1, <2>2, <2>3, <2>4, <2>5, Zenon DEF CountInv
<1>19. MemInv' /\ AnswerInv'
  BY <1>1, <1>7, <1>13, <1>14 DEF IInv, MemInv, AnswerInv, Ending
<1> QED
  BY <1>15, <1>16, <1>17, <1>18, <1>19 DEF IInv

LEMMA BufferConfirmKeeps == ASSUME IInv, BufferConfirm PROVE IInv'
<1> USE DEF BufferConfirm, Goto, Keep
<1>1. /\ pc = "confirm" /\ pc \in Loading /\ pc \notin Outside
      /\ chip \in ChipStates /\ ~chip.working /\ chip.mode = "confirm" /\ ~chip.misuse
      /\ chip.words \in Seq(Words) /\ chip.at \in Nat
  BY DEF IInv, ChipInv, ChipStates, ModeInv, Waiting, Loading, Outside
<1>2. chip.at = addr + Start
  <2>1. Len(chip.words) = BufferWords /\ BufferWords \in Nat \ {0}
    BY <1>1, AmdConstants DEF IInv, CountInv
  <2>2. chip.words # << >>
    BY <2>1
  <2> QED
    BY <1>1, <2>2 DEF IInv, CountInv
<1> DEFINE op == [erase |-> FALSE, at |-> chip.at, words |-> chip.words]
<1>3. chip' = Busy(chip, op)
  BY <1>1, ConfirmCommand
<1>4. /\ chip' \in ChipStates /\ chip'.working /\ chip'.mode = "array" /\ ~chip'.misuse
      /\ chip'.busy = op /\ chip'.words = chip.words /\ chip'.at = chip.at
  <2>1. op \in Operations
    BY <1>1 DEF Operations
  <2> QED
    BY <1>1, <1>3, <2>1, BusyType
<1>5. Start' = Start
  BY <1>4 DEF Start
<1> USE DEF IInv
<1>6. TypeOK'
  BY DEF TypeOK
<1>7. ChipInv'
  BY <1>2, <1>4, <1>5 DEF ChipInv, ModeInv, WorkInv, Waiting, Steps, Loading
<1>8. JobInv'
  BY <1>1 DEF JobInv, Outside, ByWord, Loading, Ending
<1>9. CountInv'
  BY <1>1, <1>4, <1>5 DEF CountInv, Loading
<1>10. MemInv' /\ AnswerInv'
  BY <1>4, <1>5 DEF MemInv, AnswerInv, Ending
<1> QED
  BY <1>6, <1>7, <1>8, <1>9, <1>10

LEMMA BufferWaitKeeps == ASSUME IInv, BufferWait PROVE IInv'
<1> USE DEF BufferWait, Goto, Keep, Reset
<1>1. /\ pc = "page_wait" /\ pc \in Loading /\ pc \notin Outside
      /\ chip \in ChipStates /\ chip.mode = "array" /\ ~chip.misuse
      /\ chip.words \in Seq(Words)
  BY DEF IInv, ChipInv, ChipStates, ModeInv, Loading, Outside
<1>2. /\ Start \in Nat /\ Start % BufferWords = 0 /\ Len(chip.words) = BufferWords
      /\ \A i \in 1 .. Len(chip.words) : chip.words[i] = job[Start + i]
  BY <1>1, Zenon DEF IInv, CountInv
<1>3. BufferWords \in Nat \ {0} /\ k \in Nat /\ k = Start + BufferWords
  BY <1>1, <1>2, Job DEF Start
<1>4. ~chip.working
  <2>1. chip.working => ~chip.busy.erase /\ chip.busy.words = chip.words
    BY <1>1 DEF IInv, ChipInv, WorkInv
  <2>2. chip.words[Len(chip.words)] = job[k]
    BY <1>2, <1>3
  <2> QED
    BY <2>1, <2>2 DEF Waited, ShownDQ7
<1>5. chip' = chip
  BY <1>1, <1>4, ResetCommand
<1>6. k % BufferWords = 0
  <2>1. (Start + BufferWords) % BufferWords = 0
    BY <1>2, <1>3, RoundsMeet, Zenon
  <2> QED
    BY <1>3, <2>1, Zenon
<1>7. TypeOK'
  BY DEF IInv, TypeOK
<1>8. ChipInv'
  BY <1>1, <1>4, <1>5 DEF IInv, ChipInv, ModeInv, WorkInv, Steps
<1>9. JobInv'
  BY <1>1 DEF IInv, JobInv, Outside, ByWord, Loading, Ending
<1>10. CountInv'
  <2>1. k' % BufferWords = 0 /\ pc' = "buffer"
    BY <1>6, Zenon
  <2> QED
    BY <2>1, Zenon DEF CountInv, Loading
<1>11. MemInv' /\ AnswerInv'
  BY <1>1, <1>4 DEF IInv, MemInv, AnswerInv, Ending
<1> QED
  BY <1>7, <1>8, <1>9, <1>10, <1>11 DEF IInv

-----------------------------------------------------------------------------
(* The end of a command, and the questions.                                *)

LEMMA FinishKeeps == ASSUME IInv, Finish PROVE IInv'
<1> USE DEF IInv, Finish
<1>1. addr' \in 0 .. Size
  <2>1. addr \in Nat /\ Len(job) \in Nat /\ addr + Len(job) <= Size
    BY Job DEF Outside
  <2> QED
    BY <2>1, FlashConstants
<1>2. TypeOK'
  BY <1>1 DEF TypeOK
<1>3. ChipInv'
  BY DEF ChipInv, ModeInv, WorkInv, Waiting, Steps, Outside
<1>4. JobInv' /\ CountInv' /\ MemInv' /\ AnswerInv'
  BY DEF JobInv, CountInv, MemInv, AnswerInv, Outside, Loading, Ending
<1> QED
  BY <1>2, <1>3, <1>4

LEMMA QueryKeeps ==
  ASSUME IInv, Query, chip' = chip,
         \A n \in DOMAIN answer' : answer'[n].shown \in {"id", "otp", "stack"}
  PROVE  IInv'
<1> USE DEF IInv, Query, Goto
<1>1. TypeOK'
  BY AmdConstants DEF TypeOK
<1>2. ChipInv'
  BY DEF ChipInv, ModeInv, WorkInv, Waiting, Steps, Outside
<1>3. JobInv' /\ CountInv' /\ MemInv'
  BY DEF JobInv, CountInv, MemInv, Outside, Loading, Ending
<1>4. AnswerInv'
  BY Zenon DEF AnswerInv
<1> QED
  BY <1>1, <1>2, <1>3, <1>4

LEMMA RQFIKeeps == ASSUME IInv, RQFI PROVE IInv'
<1>1. chip \in ChipStates /\ ~chip.working /\ chip.mode = "array"
  BY DEF IInv, RQFI, Query, Goto, ChipInv, ModeInv, Waiting
<1>2. chip' = chip
  BY <1>1, IdCommands DEF RQFI
<1>3. \A n \in DOMAIN answer' : answer'[n].shown = "id"
  BY <1>1, IdCommands DEF RQFI, Seen
<1> QED
  BY <1>2, <1>3, QueryKeeps DEF RQFI

LEMMA READ_OTPKeeps == ASSUME IInv, READ_OTP PROVE IInv'
<1>1. chip \in ChipStates /\ ~chip.working /\ chip.mode = "array"
  BY DEF IInv, READ_OTP, Query, Goto, ChipInv, ModeInv, Waiting
<1>2. chip' = chip
  BY <1>1, OtpCommands DEF READ_OTP
<1>3. \A n \in DOMAIN answer' : answer'[n].shown \in {"otp", "stack"}
  BY <1>1, OtpCommands DEF READ_OTP, Seen, Stack
<1> QED
  BY <1>2, <1>3, QueryKeeps DEF READ_OTP

LEMMA AnsweredKeeps == ASSUME IInv, Answered PROVE IInv'
<1> USE DEF IInv, Answered, Goto
<1>1. TypeOK'
  BY DEF TypeOK
<1>2. ChipInv'
  BY DEF ChipInv, ModeInv, WorkInv, Waiting, Steps, Outside
<1>3. JobInv' /\ CountInv' /\ MemInv' /\ AnswerInv'
  BY DEF JobInv, CountInv, MemInv, AnswerInv, Outside, Loading, Ending
<1> QED
  BY <1>1, <1>2, <1>3

-----------------------------------------------------------------------------
(* The chip completes what it has begun.                                   *)

LEMMA ChipDoneKeeps == ASSUME IInv, ChipDone PROVE IInv'
<1> USE DEF ChipDone, driverVars
<1>1. /\ pc \in Waiting /\ pc \notin Outside /\ chip.working /\ chip \in ChipStates
      /\ pc' = pc /\ k' = k /\ job' = job /\ before' = before /\ addr' = addr /\ mode' = mode
  BY DEF IInv, ChipInv, ModeInv, Waiting, Outside
<1>2. /\ chip' \in ChipStates /\ ~chip'.working /\ chip'.mode = chip.mode
      /\ chip'.misuse = chip.misuse /\ chip'.words = chip.words /\ chip'.at = chip.at
  <2>1. NoOp \in Operations
    BY DEF NoOp, Operations
  <2> QED
    BY <1>1, <2>1 DEF ChipStates
<1>3. Start' = Start
  BY <1>1, <1>2 DEF Start
<1>4. addr \in Nat /\ job \in Seq(Words) /\ Len(job) \in Nat /\ k \in Nat /\ k <= Len(job)
      /\ before \in [Addresses -> Words]
  BY <1>1, Job
<1>5. /\ pc = "erase_wait" => mem' = Cleared(before, addr)
      /\ pc = "word_wait"  => mem' = Written(before, addr, job, k + 1)
      /\ pc = "page_wait"  => mem' = Written(before, addr, job, k)
  <2>1. CASE pc = "erase_wait"
    <3>1. mem = before /\ addr \in BlockStarts /\ chip.busy = [erase |-> TRUE, at |-> addr, words |-> << >>]
      BY <1>1, <2>1 DEF IInv, MemInv, JobInv, ChipInv, WorkInv
    <3> QED
      BY <1>1, <2>1, <3>1 DEF Cleared
  <2>2. CASE pc = "word_wait"
    <3> DEFINE new == <<job[k + 1]>>
    <3>1. /\ mem = Written(before, addr, job, k) /\ k < Len(job)
          /\ chip.busy = [erase |-> FALSE, at |-> addr + k, words |-> new]
      BY <1>1, <2>2 DEF IInv, MemInv, CountInv, ChipInv, WorkInv
    <3>2. new \in Seq(Words) /\ Len(new) = 1 /\ k + Len(new) <= Len(job)
          /\ \A i \in 1 .. Len(new) : new[i] = job[k + i]
      BY <1>4, <3>1
    <3>3. ProgramAt(Written(before, addr, job, k), addr + k, new) = Written(before, addr, job, k + Len(new))
      BY <1>4, <3>2, WrittenMore, Zenon
    <3> HIDE DEF new
    <3> QED
      BY <1>1, <2>2, <3>1, <3>2, <3>3
  <2>3. CASE pc = "page_wait"
    <3> DEFINE ws == chip.words
    <3>1. /\ mem = Written(before, addr, job, Start) /\ Start \in Nat
          /\ chip.busy = [erase |-> FALSE, at |-> addr + Start, words |-> ws]
          /\ \A i \in 1 .. Len(ws) : ws[i] = job[Start + i]
      BY <1>1, <2>3 DEF IInv, MemInv, CountInv, ChipInv, WorkInv, Loading
    <3>2. ws \in Seq(Words) /\ Len(ws) \in Nat
      BY <1>1 DEF ChipStates
    <3>3. k = Start + Len(ws)
      BY <1>4, <3>2 DEF Start
    <3>4. Start + Len(ws) <= Len(job)
      BY <1>4, <3>3
    <3>5. ProgramAt(Written(before, addr, job, Start), addr + Start, ws) =
            Written(before, addr, job, Start + Len(ws))
      BY <1>4, <3>1, <3>2, <3>4, WrittenMore, Zenon
    <3> QED
      BY <1>1, <2>3, <3>1, <3>3, <3>5
  <2> QED
    BY <2>1, <2>2, <2>3
<1>6. TypeOK'
  <2>1. mem' \in [Addresses -> Words]
    BY <1>1, <1>4, <1>5, ClearedType, WrittenType DEF Waiting
  <2> QED
    BY <2>1 DEF IInv, TypeOK
<1> USE DEF IInv
<1>7. ChipInv'
  BY <1>1, <1>2 DEF ChipInv, ModeInv, WorkInv, Waiting
<1>8. JobInv'
  BY <1>1, <1>2 DEF JobInv
<1>9. CountInv' /\ AnswerInv'
  BY <1>1, <1>2, <1>3 DEF CountInv, AnswerInv, Waiting
<1>10. MemInv'
  BY <1>1, <1>2, <1>5 DEF MemInv, Waiting, Ending
<1> QED
  BY <1>6, <1>7, <1>8, <1>9, <1>10

-----------------------------------------------------------------------------
(* Every step keeps the invariant.                                         *)

LEMMA StepKeepsInv == IInv /\ [Next]_vars => IInv'
<1> SUFFICES ASSUME IInv, [Next]_vars PROVE IInv'
  OBVIOUS
<1>1. CASE ADDR \/ ERASE \/ BIN \/ RQFI \/ READ_OTP
  BY <1>1, ADDRKeeps, ERASEKeeps, BINKeeps, RQFIKeeps, READ_OTPKeeps
<1>2. CASE Erase \/ EraseWait \/ WordNext \/ WordWait \/ WordEnd
  BY <1>2, EraseKeeps, EraseWaitKeeps, WordNextKeeps, WordWaitKeeps, WordEndKeeps
<1>3. CASE BufferNext \/ BufferLoad \/ BufferConfirm \/ BufferWait
  BY <1>3, BufferNextKeeps, BufferLoadKeeps, BufferConfirmKeeps, BufferWaitKeeps
<1>4. CASE Finish \/ Answered \/ ChipDone
  BY <1>4, FinishKeeps, AnsweredKeeps, ChipDoneKeeps
<1>5. CASE UNCHANGED vars
  <2> USE <1>5 DEF vars, driverVars, IInv
  <2>1. TypeOK' /\ ChipInv'
    BY DEF TypeOK, ChipInv, ModeInv, WorkInv, Start
  <2>2. JobInv' /\ AnswerInv'
    BY DEF JobInv, AnswerInv
  <2>3. CountInv' /\ MemInv'
    BY DEF CountInv, MemInv, Start
  <2> QED
    BY <2>1, <2>2, <2>3
<1> QED
  BY <1>1, <1>2, <1>3, <1>4, <1>5 DEF Next, Driver

LEMMA Invariant == Spec => []IInv
<1> QED
  BY InitInv, StepKeepsInv, PTL DEF Spec

-----------------------------------------------------------------------------
(* The variables keep their types: received_address_ptr never points       *)
(* behind the flash, and dst never behind the chunk.                       *)
THEOREM TypeCorrectness == Spec => []TypeOK
<1>1. IInv => TypeOK
  BY DEF IInv
<1> QED
  BY <1>1, Invariant, PTL

(* Whatever the order of commands, the chip is only ever told what it      *)
(* takes: no cycle reaches it while it works, and every page is loaded     *)
(* within its bounds.                                                      *)
THEOREM CommandsUnderstood == Spec => []ChipUnderstood
<1>1. IInv => ChipUnderstood
  BY DEF IInv, ChipInv, ModeInv, ChipUnderstood
<1> QED
  BY <1>1, Invariant, PTL

(* In the middle of every command the memory differs from what it was only *)
(* in the block the chunk starts and in the words of the chunk.            *)
THEOREM ChangesConfined == Spec => []Confined
<1>1. IInv => Confined
  <2> SUFFICES ASSUME IInv, pc # "idle", NEW b \in Addresses, mem[b] # before[b],
                      b \notin Extent(addr, job)
               PROVE  addr \in BlockStarts /\ b \in Block(addr)
    BY DEF Confined
  <2>1. pc \notin Outside
    BY DEF IInv, MemInv, Outside
  <2>2. addr \in Nat /\ Len(job) \in Nat /\ k \in Nat /\ k <= Len(job)
        /\ before \in [Addresses -> Words]
    BY <2>1, Job
  <2>3. ASSUME NEW n \in Nat, n <= Len(job), mem = Written(before, addr, job, n)
        PROVE  mem[b] = Cleared(before, addr)[b]
    <3>1. b \notin addr .. (addr + n - 1)
      BY <2>2, <2>3, FlashConstants DEF Extent, Addresses
    <3> QED
      BY <2>3, <3>1, Zenon DEF Written
  <2>4. mem[b] = Cleared(before, addr)[b]
    <3>1. CASE pc \in {"erase", "erase_wait"}
      BY <3>1 DEF IInv, MemInv
    <3>2. CASE pc \in {"word", "word_wait", "buffer"}
      <4>1. \/ mem = Written(before, addr, job, k)
            \/ pc = "word_wait" /\ mem = Written(before, addr, job, k + 1)
        BY <3>2 DEF IInv, MemInv
      <4>2. pc = "word_wait" => k + 1 <= Len(job)
        BY <2>2 DEF IInv, CountInv
      <4> QED
        BY <2>2, <2>3, <4>1, <4>2
    <3>3. CASE pc \in Loading
      <4>1. Start \in Nat /\ Start + BufferWords <= Len(job) /\ BufferWords \in Nat
        BY <3>3, AmdConstants DEF IInv, CountInv
      <4>2. Start <= Len(job)
        BY <2>2, <4>1
      <4>3. mem = Written(before, addr, job, Start) \/ mem = Written(before, addr, job, k)
        BY <3>3 DEF IInv, MemInv, Loading
      <4> QED
        BY <2>2, <2>3, <4>1, <4>2, <4>3
    <3>4. CASE pc \in Ending
      BY <2>2, <2>3, <3>4 DEF IInv, MemInv
    <3> QED
      BY <2>1, <3>1, <3>2, <3>3, <3>4 DEF IInv, ChipInv, Steps, Outside, ByWord
  <2>5. Cleared(before, addr)[b] # before[b]
    BY <2>4
  <2> QED
    BY <2>5 DEF Cleared, EraseAt
<1> QED
  BY <1>1, Invariant, PTL

(* Between two commands the flash shows its contents.                      *)
THEOREM IdleIsReadable == Spec => []ReadableWhenIdle
<1>1. IInv => ReadableWhenIdle
  BY DEF IInv, ChipInv, ModeInv, Waiting, ReadableWhenIdle
<1> QED
  BY <1>1, Invariant, PTL

(* RQFI and READ_OTP answer with what the chip showed, and leave it        *)
(* showing the array.                                                      *)
THEOREM QueriesAnswered == Spec => []QueryAnswered
<1>1. IInv => QueryAnswered
  BY DEF IInv, ChipInv, ModeInv, Waiting, AnswerInv, QueryAnswered
<1> QED
  BY <1>1, Invariant, PTL

(* A host that sends chunks of whole pages: flash_write_buffer() drops the *)
(* rest of a chunk that ends inside a page.                                *)
WholePages == \A ws \in Chunks : Len(ws) % BufferWords = 0

(* The driver implements the promise of FlashMemory for such a host:       *)
(* Finish is the step in which a BIN command takes effect, everything else *)
(* it does is a stutter.                                                   *)
THEOREM DriverImplementsMemory == ASSUME WholePages PROVE Spec => ImplementsMemory
<1>1. Init => Memory!Init
  BY DEF Init, Memory!Init, Memory!ERASE_NO, ERASE_NO
<1>2. IInv /\ [Next]_vars => [Memory!Next]_<<IF pc = "idle" THEN mem ELSE before, addr, mode>>
  <2> SUFFICES ASSUME IInv, [Next]_vars
               PROVE  [Memory!Next]_<<IF pc = "idle" THEN mem ELSE before, addr, mode>>
    OBVIOUS
  <2>1. CASE ADDR
    BY <2>1 DEF ADDR, Memory!Next, Memory!ADDR, Memory!Addresses, Addresses
  <2>2. CASE ERASE
    BY <2>2 DEF ERASE, Memory!Next, Memory!ERASE
  <2>3. CASE BIN \/ RQFI \/ READ_OTP
    BY <2>3 DEF BIN, RQFI, READ_OTP, Query, Goto, WriteStep
  <2>4. CASE Finish
    <3>1. /\ job \in Chunks /\ mode # ERASE_NO /\ (pc = "finish" <=> mode <= ERASE_ONLY)
          /\ pc \notin Outside /\ pc \in Ending
      BY <2>4 DEF Finish, IInv, JobInv, Outside, Ending, ERASE_WRITE_BLOCK, ERASE_WRITE_BUFFER,
                  ERASE_ONLY, TypeOK
    <3>2. mem = Outcome(before, addr, mode, job)
      <4>1. CASE mode \in {ERASE_WRITE_BLOCK, ERASE_WRITE_BUFFER}
        <5>1. mode <= ERASE_ONLY
          BY <4>1 DEF ERASE_WRITE_BLOCK, ERASE_WRITE_BUFFER, ERASE_ONLY
        <5>2. pc = "finish" /\ mem = Written(before, addr, job, k)
          BY <3>1, <4>1, <5>1 DEF IInv, MemInv
        <5>3. k = Len(job)
          <6>1. CASE mode = ERASE_WRITE_BLOCK
            BY <5>2, <6>1 DEF IInv, CountInv
          <6>2. CASE mode = ERASE_WRITE_BUFFER
            <7>1. k % BufferWords = 0 /\ ~(k \div BufferWords < Len(job) \div BufferWords)
                  /\ Len(job) % BufferWords = 0
              BY <3>1, <5>2, <6>2, Zenon DEF IInv, CountInv, Pages, WholePages
            <7>2. k \in Nat /\ k <= Len(job) /\ Len(job) \in Nat /\ BufferWords \in Nat \ {0}
              BY <3>1, Job
            <7> QED
              BY <7>1, <7>2, Quotients, Zenon
          <6> QED
            BY <4>1, <6>1, <6>2
        <5>4. addr \in Nat /\ before \in [Addresses -> Words]
          BY <3>1, Job
        <5> QED
          BY <3>1, <4>1, <5>2, <5>3, <5>4, OutcomeWritten
      <4>2. CASE mode \notin {ERASE_WRITE_BLOCK, ERASE_WRITE_BUFFER}
        BY <3>1, <4>2, OutcomeCleared DEF IInv, MemInv
      <4> QED
        BY <4>1, <4>2
    <3>3. addr' = NextAddress(addr, mode, job)
      BY <2>4, <3>1 DEF Finish, NextAddress
    <3>4. Memory!BIN(job)
      BY <2>4, <3>1, <3>2, <3>3
         DEF Finish, Memory!BIN, Memory!Outcome, Outcome, Memory!NextAddress, NextAddress,
             Memory!ERASE_NO, ERASE_NO, Memory!ERASE_WRITE_BLOCK, ERASE_WRITE_BLOCK,
             Memory!ERASE_WRITE_BUFFER, ERASE_WRITE_BUFFER, Memory!ERASE_ONLY, ERASE_ONLY,
             Memory!EraseAt, EraseAt, Memory!ProgramAt, ProgramAt, Memory!Block, Block,
             Memory!Extent, Extent, Memory!Addresses, Addresses, Memory!Erased, Erased
    <3> QED
      BY <3>1, <3>4 DEF Memory!Next
  <2>5. CASE Answered
    BY <2>5 DEF Answered, Goto, IInv, MemInv
  <2>6. CASE Erase \/ EraseWait \/ WordNext \/ WordWait \/ WordEnd
    BY <2>6 DEF Erase, EraseWait, WordNext, WordWait, WordEnd, Goto, Keep, WriteStep
  <2>7. CASE BufferNext \/ BufferLoad \/ BufferConfirm \/ BufferWait
    BY <2>7 DEF BufferNext, BufferLoad, BufferConfirm, BufferWait, Goto, Keep
  <2>8. CASE ChipDone
    <3>1. pc \in Waiting
      BY <2>8 DEF ChipDone, IInv, ChipInv, ModeInv
    <3> QED
      BY <2>8, <3>1 DEF ChipDone, driverVars, Waiting
  <2>9. CASE UNCHANGED vars
    BY <2>9 DEF vars, driverVars
  <2> QED
    BY <2>1, <2>2, <2>3, <2>4, <2>5, <2>6, <2>7, <2>8, <2>9 DEF Next, Driver
<1> QED
  BY <1>1, <1>2, Invariant, PTL DEF Spec, ImplementsMemory, Memory!Spec
=============================================================================
