------------------------------ MODULE Session ------------------------------
(***************************************************************************)
(* A flashing session: the command handlers of the loader (hitagi_commands *)
(* and the hitagi_command_... functions) serve a host that uploads an      *)
(* image in chunks, while the power of the phone may fail at any moment.   *)
(*                                                                         *)
(* Frames and answers arrive whole (FrameReceiver, AnswerSender); what a   *)
(* BIN command does to the flash is Outcome (FlashIntel and FlashAmd carry *)
(* it out access by access). What is left is what the texts say (Texts)    *)
(* and the order in which things happen: the loader acknowledges a chunk   *)
(* BEFORE it writes it, so that the host can send the next one meanwhile.  *)
(***************************************************************************)
EXTENDS NorFlash, Texts

CONSTANTS
  Plans,            \* uploads: [mode, image, at], mode being the ERASE count
  Phones,           \* what the registers of a phone may hold
  Value,            \* the number a word of the flash stands for
  StackBytes,       \* what a byte of the stack that nothing was put in may be
  FLASH_START_ADDRESS, RamStart,      \* where the flash and the RAM begin
  USB_MAX_TX_DATA_SIZE,               \* bytes of tx_data
  MinRead,          \* bytes a READ command must ask for at least
  ReadWords,        \* words the host reads back at once
  MaxFailures       \* how often the power fails (bound of the model)

(* The host cuts the image into chunks, of which chunk n goes to at[n]; the *)
(* last member of at is the end of the image.                              *)
Count(p)      == Len(p.at) - 1
ChunkAt(p, n) == p.at[n]
Start(p)      == ChunkAt(p, 1)
ImageEnd(p)   == Start(p) + Len(p.image)
Chunk(p, n)   == SubSeq(p.image, ChunkAt(p, n) - Start(p) + 1, ChunkAt(p, n + 1) - Start(p))

Greatest(x, y) == IF x > y THEN x ELSE y
Lesser(x, y)   == IF x < y THEN x ELSE y

(* An image to be flashed starts with a block, and a chunk starts every    *)
(* block it reaches: the loader erases no other (hitagi.c:43).             *)
BlocksStarted(p) ==
  /\ Start(p) \in BlockStarts
  /\ \A s \in BlockStarts : Start(p) <= s /\ s < ImageEnd(p) =>
       \E n \in 1 .. Count(p) : ChunkAt(p, n) = s

VersionWord == 7                        \* the version of the boot loader

Questions == {"RQHW", "RQVN", "RQSW", "RQSN", "RQFI", "READ_OTP"}

ASSUME SessionConstants ==
  /\ MinRead \in Nat /\ MaxFailures \in Nat /\ ReadWords \in Nat \ {0}
  /\ Greatest(MinRead, 2 * ReadWords) + 3 <= MAX_READ_RESPONSE_SIZE
  /\ MAX_READ_RESPONSE_SIZE <= USB_MAX_TX_DATA_SIZE - 22
  /\ USB_MAX_TX_DATA_SIZE \in Nat /\ USB_MAX_TX_DATA_SIZE < 16 * Power[4]
  /\ Size > VersionWord /\ Value \in [Words -> 0 .. (16 * Power[4] - 1)]
  /\ StackBytes \subseteq 0 .. 255
  /\ \A a \in {FLASH_START_ADDRESS, RamStart} :
       a \in Nat /\ (a + 2 * Size) \div 16 < Power[8]      \* a u32
  /\ \A p \in Plans :
       /\ p.mode \in ERASE_NO .. ERASE_WRITE_BUFFER
       /\ p.image \in Seq(Words) /\ p.at \in Seq(0 .. Size) /\ Len(p.at) > 1
       /\ \A m, n \in DOMAIN p.at : m < n => ChunkAt(p, m) < ChunkAt(p, n)
       /\ ChunkAt(p, Count(p) + 1) = ImageEnd(p)
       /\ \A n \in 1 .. Count(p) : Chunk(p, n) \in Chunks
       /\ p.mode # ERASE_NO => BlocksStarted(p)
  /\ \A p \in Phones :
       /\ p.version \in Nat /\ p.version < 16 * Power[4]
       /\ p.uid \in [1 .. 8 -> Nat] /\ \A k \in 1 .. 8 : p.uid[k] < 16 * Power[4]
       /\ p.id \in Nat /\ p.id \div 16 < Power[8]
       /\ p.otp \in Seq(Nat) /\ \A k \in DOMAIN p.otp : p.otp[k] < 16 * Power[2]
       /\ p.unread \in Nat /\ Len(p.otp) + p.unread > 0
       /\ 2 * (Len(p.otp) + p.unread) < MAX_READ_RESPONSE_SIZE

VARIABLES
  phone,            \* the registers of the phone, of the flash chip as well,
                    \* and how many of its bytes READ_OTP does not read
  mem,              \* the memory the host uploads to: RAM in mode 0, else flash
  addr,             \* received_address_ptr
  mode,             \* erase_cmdlet
  pc,               \* what the loader is at
  job,              \* the words of a BIN command that is not carried out yet
  req, ans,         \* the command not taken, and the answer not heard, yet
  plan,             \* what the host uploads
  stage, next, sure,\* how far the host is; the chunk it is at; chunks it relies on
  seen,             \* words of the image it has read back
  failures          \* power failures so far

loaderVars == <<addr, mode, pc, job>>
hostVars   == <<phone, plan, stage, next, sure, seen>>
vars       == <<mem, loaderVars, req, ans, hostVars, failures>>

None == [cmd |-> "none"]

(* The words at byte addresses from .. to - 1. What is behind the memory   *)
(* of the model may be read, and nobody looks at it.                       *)
WordAt(m, a) == IF a \in Addresses THEN m[a] ELSE Erased
WordsAt(m, from, to) ==
  [k \in 1 .. ((to + 1) \div 2 - from \div 2) |-> WordAt(m, (from \div 2) + k - 1)]

(* A command that needs them gives addresses and sizes in digits; the ETX  *)
(* of the frame is still behind them when the handler gets its data.       *)
Base    == IF plan.mode = ERASE_NO THEN RamStart ELSE FLASH_START_ADDRESS
Hex(a)  == HexAsc(Base + a, CMD_32_SIZE)
Null    == (0 - Base) \div 2

-----------------------------------------------------------------------------
(* The loader. received_address_ptr counts words from the start of mem.    *)

Take(c) == pc = "idle" /\ req.cmd = c /\ req' = None

Answer(a) == ans' = a

ACK(data) == [cmd |-> "ACK", data |-> data]
ERR       == [cmd |-> "ERR"]

AddressIn(data, k) == Number32(data, k) - Base

ADDR ==
  /\ Take("ADDR") /\ addr' = AddressIn(req.data, 1) \div 2 /\ Answer(ACK(req.data))
  /\ UNCHANGED <<mem, mode, pc, job, hostVars, failures>>

(* Mutant: the answer to ERASE does not count the command itself.          *)
ERASE_CountsBefore ==
  /\ Take("ERASE") /\ mode' = mode + 1 /\ Answer(ACK(HexAsc(mode, CMD_16_SIZE)))
  /\ UNCHANGED <<mem, addr, pc, job, hostVars, failures>>

(* The answer to ERASE says how many there have been.                      *)
ERASE ==
  /\ Take("ERASE") /\ mode' = mode + 1 /\ Answer(ACK(HexAsc(mode + 1, CMD_16_SIZE)))
  /\ UNCHANGED <<mem, addr, pc, job, hostVars, failures>>

(* Mutant: the next chunk is taken while one is being written.             *)
BIN_Busy ==
  /\ pc \in {"idle", "bin"} /\ req.cmd = "BIN" /\ req' = None
  /\ job' = req.words /\ pc' = "bin" /\ Answer(ACK(<< >>))
  /\ UNCHANGED <<mem, addr, mode, hostVars, failures>>

(* The first half of hitagi_command_BIN(): acknowledge ...                 *)
BIN ==
  /\ Take("BIN")
  /\ job' = req.words /\ pc' = "bin" /\ Answer(ACK(<< >>))
  /\ UNCHANGED <<mem, addr, mode, hostVars, failures>>

CopyAt(m, a, ws) ==
  [b \in Addresses |-> IF b \in Extent(a, ws) THEN ws[b - a + 1] ELSE m[b]]

(* Mutants: blocks are never erased; the address, a u16 *, is advanced by  *)
(* the bytes of the chunk.                                                 *)
WriteBIN_NoErase ==
  /\ pc = "bin" /\ pc' = "idle" /\ job' = << >>
  /\ mem' = IF mode = ERASE_NO THEN CopyAt(mem, addr, job) ELSE ProgramAt(mem, addr, job)
  /\ addr' = NextAddress(addr, mode, job)
  /\ UNCHANGED <<mode, req, ans, hostVars, failures>>

WriteBIN_ByBytes ==
  /\ pc = "bin" /\ pc' = "idle" /\ job' = << >>
  /\ mem' = IF mode = ERASE_NO THEN CopyAt(mem, addr, job) ELSE Outcome(mem, addr, mode, job)
  /\ addr' = addr + 2 * Len(job)
  /\ UNCHANGED <<mode, req, ans, hostVars, failures>>

(* ... and the second: copy to RAM or write to flash, and move on.         *)
WriteBIN ==
  /\ pc = "bin" /\ pc' = "idle" /\ job' = << >>
  /\ mem' = IF mode = ERASE_NO THEN CopyAt(mem, addr, job) ELSE Outcome(mem, addr, mode, job)
  /\ addr' = NextAddress(addr, mode, job)
  /\ UNCHANGED <<mode, req, ans, hostVars, failures>>

(* Two bytes of size and a checksum go with the data into the array on the *)
(* stack, and from there into the answer, which takes no more of them than *)
(* tx_data holds besides 22 other bytes. A loader that writes past the     *)
(* array may answer or not, and go on or run into the watchdog.            *)
Fits(size) == size + 3 <= MAX_READ_RESPONSE_SIZE

(* Mutant: the size is taken for the address of the last byte.             *)
ReadAnswers_Short(from, size) ==
  LET sent   == Lesser(size, USB_MAX_TX_DATA_SIZE - 22 - 2)
      answer == [cmd |-> "READ", words |-> WordsAt(mem, from, from + sent - 2)]
  IN IF size < MinRead THEN {ERR} ELSE IF Fits(size) THEN {answer} ELSE {answer, None}

ReadAnswers(from, size) ==
  LET sent   == Lesser(size, USB_MAX_TX_DATA_SIZE - 22 - 2)
      answer == [cmd |-> "READ", words |-> WordsAt(mem, from, from + sent)]
  IN IF size < MinRead THEN {ERR} ELSE IF Fits(size) THEN {answer} ELSE {answer, None}

READ ==
  /\ Take("READ")
  /\ LET from == AddressIn(req.data, 1)
         size == Number16(req.data, CMD_32_SIZE + 2)
     IN /\ ans' \in ReadAnswers(from, size)
        /\ pc' \in IF size < MinRead \/ Fits(size) THEN {pc} ELSE {pc, "reset"}
  /\ UNCHANGED <<mem, addr, mode, job, hostVars, failures>>

(* The range includes its end; a range of one byte is refused. The sum is  *)
(* abstracted to the words it is made from.                                *)
RQRC ==
  /\ Take("RQRC")
  /\ LET from == AddressIn(req.data, 1)
         to   == AddressIn(req.data, CMD_32_SIZE + 2)
     IN Answer(IF to = from THEN ERR ELSE [cmd |-> "RSRC", words |-> WordsAt(mem, from, to + 1)])
  /\ UNCHANGED <<mem, loaderVars, hostVars, failures>>

(* Questions about the phone. The version is a word of the flash, which an *)
(* upload may be writing; RQFI and READ_OTP ask the flash chip. An answer  *)
(* on its way is the values it is made from, as they are when the command  *)
(* is carried out; TextOf is what the handlers make of them.               *)
Query(c, a) ==
  /\ Take(c) /\ Answer(a)
  /\ UNCHANGED <<mem, loaderVars, hostVars, failures>>

Version == IF plan.mode = ERASE_NO THEN phone.version ELSE Value[mem[VersionWord]]

RQHW == Query("RQHW", [cmd |-> "RSHW", version |-> Version])
RQVN == Query("RQVN", [cmd |-> "RSVN", version |-> Version])
RQSW == Query("RQSW", [cmd |-> "RSSW"])
RQSN == Query("RQSN", [cmd |-> "RSSN", uid |-> phone.uid])
RQFI == Query("RQFI", [cmd |-> "RSFI", id |-> phone.id])

(* The driver of the AMD chips reads 16 bytes of the sector and hands over *)
(* 128: the others are what it found on the stack.                         *)
READ_OTP ==
  \E rest \in [1 .. phone.unread -> StackBytes] :
    Query("READ_OTP", [cmd |-> "READ_OTP", bytes |-> phone.otp \o rest])

TextOf(a) ==
  CASE a.cmd = "RSHW"     -> RSHW(a.version)
    [] a.cmd = "RSVN"     -> RSVN(a.version)
    [] a.cmd = "RSSW"     -> RSSW(SW, FLEX)
    [] a.cmd = "RSSN"     -> RSSN(a.uid)
    [] a.cmd = "RSFI"     -> RSFI(a.id)
    [] a.cmd = "READ_OTP" -> OTP(a.bytes)

(* Both acknowledge and then let the watchdog end the session.             *)
RESTART == Take("RESTART") /\ Answer(ACK(<< >>)) /\ pc' = "reset"
           /\ UNCHANGED <<mem, addr, mode, job, hostVars, failures>>
POWER_DOWN == Take("POWER_DOWN") /\ Answer(ACK(<< >>)) /\ pc' = "reset"
              /\ UNCHANGED <<mem, addr, mode, job, hostVars, failures>>

Commands  == Questions \cup {"ADDR", "ERASE", "BIN", "READ", "RQRC", "RESTART", "POWER_DOWN"}

Unknown ==
  /\ pc = "idle" /\ req.cmd \notin Commands \cup {"none"}
  /\ req' = None /\ Answer(ERR)
  /\ UNCHANGED <<mem, loaderVars, hostVars, failures>>

(* hitagi_start() in a fresh image of the loader, where received_address_- *)
(* ptr is NULL.                                                            *)
Boot == addr' = Null /\ mode' = ERASE_NO /\ pc' = "idle" /\ job' = << >>

(* The phone leaves the bus after a fixed time, whether or not the host    *)
(* has read the ACK by then.                                               *)
Reset ==
  /\ pc = "reset"
  /\ Boot /\ ans' = None /\ stage' = "off"
  /\ UNCHANGED <<mem, req, phone, plan, next, sure, seen, failures>>

-----------------------------------------------------------------------------
(* The host, which waits for the answer to each command. It asks something *)
(* first, repeats ERASE until the answer shows the mode it wants, sets the *)
(* address once, sends the chunks and reads the image back in the two ways *)
(* the loader has, with READ piece by piece. Its digits are upper case.    *)

Piece     == Lesser(ReadWords, Len(plan.image) - seen)
NextPiece == SubSeq(plan.image, seen + 1, seen + Piece)
ReadSize  == Greatest(MinRead, 2 * Piece)

Request ==
  CASE stage = "hello"  -> {[cmd |-> c] : c \in Questions \cup {"HELLO"}}
    [] stage = "erase"  -> {[cmd |-> "ERASE"]}
    [] stage = "addr"   -> {[cmd |-> "ADDR", data |-> Hex(2 * ChunkAt(plan, next)) \o <<ETX>>]}
    [] stage = "bin"    -> {[cmd |-> "BIN", words |-> Chunk(plan, next)]}
    [] stage = "verify" ->
         {[cmd |-> "READ",
           data |-> Hex(2 * (Start(plan) + seen)) \o <<Comma>>
                    \o HexAsc(ReadSize, CMD_16_SIZE) \o <<ETX>>]}
    [] stage = "check"  ->
         {[cmd |-> "RQRC",
           data |-> Hex(2 * Start(plan)) \o <<Comma>> \o Hex(2 * ImageEnd(plan) - 1) \o <<ETX>>]}
    [] stage = "done"   -> {[cmd |-> "RESTART"], [cmd |-> "POWER_DOWN"]}
    [] OTHER            -> {}

HostSend ==
  /\ req = None /\ ans = None
  /\ req' \in Request
  /\ UNCHANGED <<mem, loaderVars, ans, hostVars, failures>>

(* An answer to the next command tells the host that the chunk before it   *)
(* has been written; its own ACK does not.                                 *)
HostHear ==
  /\ ans # None /\ ans' = None
  /\ stage' = CASE stage = "hello"  -> IF plan.mode = ERASE_NO THEN "addr" ELSE "erase"
                [] stage = "erase"  -> IF Reads(ans.data, 1, plan.mode, 4) THEN "addr" ELSE "erase"
                [] stage = "addr"   -> "bin"
                [] stage = "bin"    -> IF next = Count(plan) THEN "verify" ELSE "bin"
                [] stage = "verify" -> IF ~IsPrefix(NextPiece, ans.words) THEN "bad"
                                       ELSE IF seen + Piece = Len(plan.image) THEN "check"
                                       ELSE "verify"
                [] stage = "check"  -> IF plan.image = ans.words THEN "done" ELSE "bad"
                [] OTHER            -> "off"
  /\ next' = IF stage = "bin" THEN next + 1 ELSE next
  /\ sure' = IF stage \in {"bin", "verify"} THEN next - 1 ELSE sure
  /\ seen' = IF stage = "verify" THEN seen + Piece ELSE seen
  /\ UNCHANGED <<mem, loaderVars, req, phone, plan, failures>>

-----------------------------------------------------------------------------
(* The power fails. RAM is lost; in the flash, a block being erased and    *)
(* words being written may hold anything. The host starts a fresh loader   *)
(* and goes on with the last block it can be sure of the start of.         *)

Touched ==
  IF plan.mode = ERASE_NO THEN Addresses
  ELSE IF pc # "bin" THEN {}
  ELSE Extent(addr, job) \cup (IF addr \in BlockStarts THEN Block(addr) ELSE {})

Resumable ==
  {1} \cup {n \in 1 .. Lesser(sure + 1, Count(plan)) :
              plan.mode # ERASE_NO /\ ChunkAt(plan, n) \in BlockStarts}

PowerFailure ==
  /\ failures < MaxFailures /\ stage # "off"
  /\ failures' = failures + 1
  /\ mem' \in {m \in [Addresses -> Words] : \A b \in Addresses \ Touched : m[b] = mem[b]}
  /\ Boot /\ req' = None /\ ans' = None
  /\ IF plan.mode # ERASE_NO /\ stage \in {"check", "done", "bad"}
     THEN UNCHANGED hostVars
     ELSE \E n \in Resumable :
            /\ \A m \in Resumable : m <= n
            /\ stage' = "hello" /\ next' = n /\ sure' = n - 1 /\ seen' = 0
            /\ UNCHANGED <<phone, plan>>

Init ==
  /\ phone \in Phones /\ plan \in Plans /\ stage = "hello" /\ next = 1 /\ sure = 0 /\ seen = 0
  /\ mem \in Contents /\ addr = Null /\ mode = ERASE_NO /\ pc = "idle" /\ job = << >>
  /\ req = None /\ ans = None /\ failures = 0

Loader ==
  \/ ADDR \/ ERASE \/ BIN \/ WriteBIN \/ READ \/ RQRC
  \/ RQHW \/ RQVN \/ RQSW \/ RQSN \/ RQFI \/ READ_OTP
  \/ RESTART \/ POWER_DOWN \/ Unknown \/ Reset

Host == HostSend \/ HostHear

Next == Loader \/ Host \/ PowerFailure

(* The loader never sleeps and the host goes on with its upload.           *)
Fairness == WF_vars(Loader) /\ WF_vars(Host)

Spec == Init /\ [][Next]_vars /\ Fairness

-----------------------------------------------------------------------------
(* Properties.                                                             *)

Stages == {"hello", "erase", "addr", "bin", "verify", "check", "done", "off", "bad"}

(* Every variable keeps its type; the address stays inside the memory or   *)
(* at its end, and the mode never passes the one the host asked for.       *)
TypeOK ==
  /\ mem \in [Addresses -> Words] /\ addr \in {Null} \cup 0 .. Size
  /\ mode \in ERASE_NO .. plan.mode /\ pc \in {"idle", "bin", "reset"}
  /\ job \in Chunks \cup {<< >>} /\ plan \in Plans /\ stage \in Stages
  /\ next \in 1 .. (Count(plan) + 1) /\ sure \in 0 .. Count(plan)
  /\ seen \in 0 .. Len(plan.image)
  /\ failures \in 0 .. MaxFailures

(* A chunk the loader is about to write goes to its own place in the image *)
(* and by the method the host chose, however many power failures there     *)
(* were: the host sends the address only once after each.                  *)
EachChunkAtItsPlace ==
  pc = "bin" =>
    /\ mode = plan.mode
    /\ \E n \in {next - 1, next} \cap 1 .. Count(plan) :
         job = Chunk(plan, n) /\ addr = ChunkAt(plan, n)

(* The chunks the host is sure of are in the memory and stay there, also   *)
(* when the power fails while a later chunk is being written.              *)
SureSurvives ==
  LET end == ChunkAt(plan, sure + 1)
  IN WordsAt(mem, 2 * Start(plan), 2 * end) = SubSeq(plan.image, 1, end - Start(plan))

(* READ and RQRC show the host the image it has sent.                      *)
VerifyFindsImage == stage # "bad"

(* Every answer to a question tells the host what the registers, and the   *)
(* word of the flash with the version, hold while it is heard: no piece is *)
(* cut off by the NUL of the one before it and none written over. Of the   *)
(* OTP bytes this holds for those that the driver has read.                *)
AnswersTrue ==
  LET text == TextOf(ans)
  IN /\ ans.cmd = "RSHW" => Len(text) = 16 /\ Reads(text, 13, Version, 4)
     /\ ans.cmd = "RSVN" => /\ Len(text) = 33 /\ text[17] = Comma
                            /\ \A k \in {13, 30} : Reads(text, k, Version, 4)
     /\ ans.cmd = "RSSW" => text = SW \o <<Colon>> \o FLEX
     /\ ans.cmd = "RSSN" => /\ Len(text) = 32
                            /\ \A k \in 1 .. 8 : Reads(text, 4 * k - 3, phone.uid[9 - k], 4)
     /\ ans.cmd = "RSFI" => Len(text) = 8 /\ Reads(text, 1, phone.id, 8)
     /\ ans.cmd = "READ_OTP" =>
          /\ Len(text) = 2 * (Len(phone.otp) + phone.unread)
          /\ \A k \in DOMAIN phone.otp : Reads(text, 2 * k - 1, phone.otp[k], 2)

(* The upload comes to its end, with power failures on the way.            *)
UploadEnds == <>(stage = "off")
=============================================================================
