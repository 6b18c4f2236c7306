# Verification of the Hitagi loader

Hitagi is a RAM downloader: a host (FlashTerminal) puts it into the memory of a
Motorola phone and starts it, and it then serves the Motorola Flash Protocol
over USB, to read the phone's memory and to erase and program its flash. This
directory holds TLA+ modules that model the loader (`hitagi.c`,
`flash_intel16.c`, `flash_amd16.c`), TLC configurations that check them, and
proofs for TLAPS. Line numbers refer to the files of the repository.

## 1. The system

The loader is one thread without interrupts and without an operating system.
Everything it waits for, it polls: the USB controller, which receives and sends
packets while the code runs, and the flash chip, which erases and programs
while the code runs. These two, the host behind the first and a power switch
are what the loader runs concurrently with.

| part | state | operations | partners |
|---|---|---|---|
| Frame receiver: `usb_rx` 288-318, `hitagi_read_packets` 877-1051, receive loop of `hitagi_command_BIN` 420-436 | `data_array`, `rx_data`, `rx_command`, the counters and pointers of the parser, endpoint 1 | poll, find STX, take the command, take the BIN size, take the data, scan for ETX, hand over | host and bus fill endpoint 1; handlers are called |
| Answer sender: `hitagi_send_packet_aux` 762-834, `usb_tx` 251-287 | `tx_data`, bytes left and offset, endpoint 2 | build the answer, cut it into packets, hand each to the controller, empty packet behind a full last one | the controller sends while the code runs; the host reads |
| Realignment: `hitagi_command_BIN` 441-457 | `rx_data`, source and target pointer, counter | shift the payload to a multiple of four, in place | |
| Intel driver: `flash_intel16.c` | the chip's mode, the loader's position in a command sequence | unlock, erase, write words, write buffer, reset, part id, OTP | the chip works on its own |
| AMD driver: `flash_amd16.c` | same | erase, write words, write pages, reset, part id, OTP | the chip works on its own, DQ7 shows it |
| Command handlers: `hitagi_command_*` 392-752 | `received_address_ptr`, `erase_cmdlet`, the memory | ADDR, ERASE, BIN, READ, RQRC, RQHW, RQVN, RQSW, RQSN, RQFI, READ_OTP, RESTART, POWER_DOWN, the command table | receiver, sender, driver |
| Start-up and watchdog: 320-387, 1053-1066 | control registers | init, service, reboot, shutdown | the watchdog resets after 32 s |
| Conversions: 163-249 | none | hexadecimal to number and back, string copy and compare | handlers |

What is hard about it:

- **Packet boundaries.** The protocol is a stream of bytes; the code reads
  packets, with different assumptions for every kind of frame. Where a packet
  ends decides which path the parser takes.
- **Counters of eight bits** that are decremented past their test, accumulate
  over packets, and keep values of earlier frames.
- **Polling concurrent hardware**: a register is read, decided on and written
  while the other side goes on.
- **Order of acknowledgment and effect**: a chunk is acknowledged before it is
  written, so that the host can send the next one meanwhile.
- **State implied, not sent**: the address of a chunk follows from all chunks
  before it, the write method from how many ERASE commands there were, what a
  read of the flash shows from the last command the chip got.
- **Power failure** in the middle of an erase or a write.

What makes each part correct: the receiver hands over the frames that were
sent, whole, once each, in order, and never writes behind a buffer; the sender's
answers are heard whole, once each, in order, and each is recognised as ended;
a BIN command does to the flash exactly what `FlashMemory` says and nothing else,
and comes to its end; an upload ends with the image in the memory; an answer
tells the host what the phone holds; the watchdog ends a wait for somebody who
will not answer, and no other.

## 2. Modules

```
        Channel (messages whole, once, in order)          FlashMemory (what BIN promises)
          ^                 ^                               ^                  ^
     implements        implements                      implements         implements
          |                 |                               |                  |
     FrameReceiver     AnswerSender                    FlashIntel           FlashAmd
       FrameReceiverProofs AnswerSenderProofs            FlashIntelProofs     FlashAmdProofs
          |                                                 |                  |
     ByteMemory                                         IntelChip           AmdChip
          |                                                 \____ NorFlash ____/
          |   Realign     Watchdog                                NorFlashProofs
          |    RealignProofs  WatchdogProofs                          |
        Texts ------------------------- Session ----------------------+
                                          SessionProofs
```

A component's theorems are in the module named after it with `Proofs` behind
(those about Texts are in SessionProofs, those about ByteMemory where they are
needed); its instance for TLC is in `MC...`.

- **Channel** is the abstract specification of either direction of the link.
- **ByteMemory** has C arrays as functions from indices. Model arrays are longer
  than the C arrays, so that an access past the end is seen by an invariant.
- **FrameReceiver** has one action for the code between two calls of `usb_rx()`
  or two decisions: `Poll`, `Command`, `Separator`, `BinSizeCheck`, `Data`,
  `MoreData`, `Scan`, `Leftover`, `Dispatch`, `BinReceive`, `BinAck`. The
  pointers of the code are indices, the buffers hold real bytes, and the two
  `u8` counters wrap (`U8`); `TypeOK` says that on frames of the protocol they
  never do. `HostSend` cuts frames into packets as a host may do,
  `BusDeliver` fills the endpoint, `BusError` damages a packet.
- **AnswerSender** has the register accesses of `usb_tx()` that the host can see
  as single actions: copy to the hardware buffer (`TxCopy`), byte count
  (`TxCount`), clearing of the flags (`TxClear`), transfer enable (`TxEnable`).
  Bytes are abstracted to (answer, offset), lengths are exact.
- **Realign** has one action per iteration of the overlapping copy.
- **NorFlash** is what a flash is: words as sets of bits, erasing sets them,
  programming clears them. **FlashMemory** is the promise of the flash commands.
- **IntelChip**, **AmdChip** are the command automata of the chips, as the
  drivers use them (external: they are not in the repository). They remember
  when they are given something they do not take.
- **FlashIntel**, **FlashAmd** are the two drivers inside `hitagi_command_BIN()`,
  `_RQFI()` and `_READ_OTP()`. In FlashIntel every write or poll of the chip
  that belongs to a BIN command is an action; in FlashAmd, writes that follow
  each other without a poll are one, because the chip changes on its own only
  while it works. A query (RQFI, or one round of READ_OTP) is one action in
  both, for the same reason: the chip does not work then.
- **Texts** has the conversions between numbers and hexadecimal digits and the
  answers put together from them, byte by byte in an array that holds stale bytes
  of the stack before (`Stale`): an answer is what stands there up to the first
  NUL. The loops of RQSN and READ_OTP put one conversion behind the other, each
  with a NUL that the next one takes the place of (`PutAll`). `Reads` is what the
  host makes of a text.
- **Session** has all thirteen commands and unknown ones, and a host that asks
  something about the phone, repeats ERASE until the answer shows the mode it
  wants, sets the address once, sends an image in chunks, reads it back with
  READ, piece by piece, and with RQRC, and ends with RESTART or POWER_DOWN. The
  version in the answers to RQHW and RQVN is the word of the flash the code reads
  (`VersionWord`), which the upload may be replacing. An answer to a question
  is the values the handler has read, and `TextOf` what it makes of them; the
  OTP bytes of READ_OTP are those the driver has read (`phone.otp`) and
  `unread` more that hold what was on the stack (`StackBytes`), as the AMD
  driver hands them over. READ has the limits of its array (`Fits`) and of
  `tx_data`; past the array, the loader may answer or not and go on or reset. A
  `PowerFailure` may come at any moment, and the ACK of RESTART may never be
  heard (`Reset`). The module takes frames and answers as whole (that is what
  the receiver and the sender were checked for) and takes a BIN as `Outcome`,
  which is what both drivers implement. `BIN` (acknowledge) and `WriteBIN`
  (write) are two actions, with the host in between. Addresses and sizes travel
  as digits with the ETX still behind them, as the handlers get them. A plan
  gives an image and the places at which the host cuts it.
- **Watchdog** has a clock (`Tick`) and the loops of the loader that wait, each
  with who ends it and whether it calls `watchdog_service()`. `since` is what the
  watchdog counts. A host or a chip in order answers within a time; `Lose` takes
  one of them away.

`Mutant:` in a comment marks an operator that is a plausible mistake in the code.
It is not part of any specification; replacing the operator beside it by this
one must violate a property, which shows that the property can fail.

## 3. Runs

| run | states | shows |
|---|---|---|
| `receiver` | 53,618 | every frame is handed over as sent, buffers hold, nothing unreceived is parsed, every frame is answered |
| `receiver_coalesced` | violation | frames sharing a packet are lost or executed twice |
| `receiver_refused` | violation | a BIN frame answered with ERR is executed |
| `sender` | 20,994 | answers are heard whole and recognised as ended, the buffer is not overwritten under the controller |
| `flash_intel` | 133,391 | the Intel driver implements FlashMemory, the chip understands all it is told, changes stay where they belong also in between, answers of RQFI and READ_OTP come from the right registers, every command ends |
| `flash_intel_erase_only` | violation | the chip is left in status mode by the erase-only mode |
| `flash_amd` | 59,398 | the same for the AMD driver, for a host that keeps to `HostKeepsRules` |
| `flash_amd_tail` | violation | words behind the last full page are dropped |
| `flash_amd_otp` | violation | READ_OTP answers with 112 bytes nobody has read |
| `session` | 45,866 | every chunk goes to its place, what the host relies on survives any two power failures, the image is read back, the answers tell the truth, and the upload ends |
| `watchdog` | 5,889 | the watchdog expires only in a wait for somebody who is lost, and it does expire there |
| `realign` | 1,225 | the overlapping copy moves the payload and nothing else |

Three properties deserve a word. `ReadsOnlyReceived` (receiver) says that the
command name ends inside the bytes counted and that the scan for ETX never goes
on with a count of zero, which a `u8` would turn into 255. `SureSurvives`
(session) is the meaning of the early acknowledgment for a host: its own ACK
says nothing of a chunk, the answer to the *next* command says that it is
written, and what the host knows in this way survives every power failure from
which it resumes at the start of the last block it is sure of.
`ExpiresOnlyWhenStuck` (watchdog) is a question about sums: the payload loop of
BIN (hitagi.c:432), the wait behind its ACK and the Intel `flash_wait()` do not
service the watchdog, so every packet the host is slow with shortens the time
that is left for the erase and the first word.

**Bounds and why they are enough.**

- `receiver`: packets of 16 bytes as in the LTE1 build, `data_array` of 32
  bytes as in the code, `rx_data` scaled to 64 bytes with payloads of 8 and 24
  bytes (a size field of up to 40 is taken). The frames have the lengths at which the paths differ: no data, ETX
  inside the second packet, ETX alone in the second, a payload of one and of two
  packets with ETX alone in the third. Payload and checksum consist of STX
  and ETX, the bytes that are most easily mistaken. Three frames, two of them
  unanswered at a time: the parser keeps nothing of the last frame but one, so
  three frames bring every leftover state before every kind of frame. The
  theorems remove these bounds and cover the LTE2 build, whose packets have 32
  bytes.
- `sender`: packets of 4 bytes and a `tx_data` of 32; answers of one to five
  packets, with and without a full last one, and data that is cut. Three answers
  of any kind in a row. The theorems remove these bounds.
- `flash_intel`, `flash_amd`: blocks of two sizes (2 and 4 words) on both sides
  of a boundary, a write buffer of two words, chunks with one short round, with
  full rounds, with both (Intel) and with erased words in them; every address,
  every mode up to one beyond the last, two commands in a row. A word has two
  bits: bit 7, which AMD chips use for polling, and another. One command leaves
  the chip in a state the next one starts from; there is no longer memory.
- `session`: a memory of three blocks, uploads to RAM, to one block, to two
  blocks, and to part of a block with several chunks in it; two power failures,
  so that one may hit the resumed upload. A power failure may leave any
  contents in the words that were being erased or written. The host asks one
  question before each upload. Addresses are full ones (the flash at 0x10000000),
  so that all eight digits are used; two phones, one with registers of zeros and
  an OTP byte its driver does not read, and one with digits below and above 9.
  The version is a word of the last block, which one plan uploads. Answers are
  put together in an array of 64 bytes, which the longest of the model (33
  characters) does not fill, and `tx_data` has 86. The host reads back two words
  at once, so an image takes one to three READ commands, and the piece of an odd
  last word is smaller than the least READ. The theorems remove the bounds.
- `watchdog`: the timeout is 14 ticks, a BIN has up to three packets behind its
  first, each late by up to 2, an erase takes up to 4 and a write up to 3 ticks:
  13 in all. The timeout cannot be smaller, and a service that is left out is a
  violation. What `WatchdogConstants` asks of a real phone follows from it:
  a BIN of 8192 bytes in packets of 16 comes in 513, so a host that takes about
  60 ms for each uses up the 32 seconds in the payload loop alone, and has less
  than that when a block is to be erased. The theorem removes the bounds.
- `realign`: every offset and alignment, payloads of 0 to 9 bytes, that is
  shorter and longer than the shift; all bytes different.

`CHECK_DEADLOCK FALSE` appears where the run is meant to stop: in `sender` after
the last answer, in `session` after the phone is off, in `realign` after the
copy. The other systems never have to stop: flash drivers accept ADDR for ever,
the receiver polls for ever, a new loader starts after the watchdog's reset.

**Fairness.** The loader is a single thread that never sleeps: its actions, as
one disjunction, are weakly fair (`Loader`, `UsbTx`, `Driver`). A chip completes
what it has begun (`ChipDone`), a host that has begun a transfer goes on with it
(`BusDeliver`, `HostRead`, `Host`). Nothing makes a host begin a command (except
in `session`, where the question is what becomes of an upload that a host
carries on with), and nothing makes a bus error or a power failure happen. In
Watchdog time passes (`Tick`), and a wait whose end is due ends (`Step`); that a
host or chip that is there ends a wait in time is a guard of `Tick`, not
fairness.

**Rules the host has to keep**, which the passing runs assume and the code does
not check:

- `HostKeepsProtocol` of FrameReceiver: one frame per transfer (`Coalesce =
  FALSE`; run `receiver_coalesced` shows why), names shorter than `rx_command` and
  without control characters, data without ETX or NUL that ends in the second
  packet (`MoreData` and `Scan` receive one more and no third), and a BIN whose
  size field has a legal value and says how much follows (run `receiver_refused`
  shows why). MCFrameReceiver asserts it of the frames of run `receiver`, and
  the theorems about the receiver have it as their hypothesis;
- a chunk stays inside one erase block: the Intel driver unlocks no other;
- with AMD chips, words are written only where the flash is erased (otherwise
  `flash_wait()` does not return), chunks are whole pages in buffer mode and start
  with a page;
- an image starts a block, and a chunk starts every block it reaches
  (`BlocksStarted`, note 3 of `ReadMe.md` and the comment at hitagi.c:43).

## 4. Findings

1. `receiver_coalesced`: hitagi.c:904 promises to add data "left over from
   previous command". Only commands with data keep leftovers, the rest of a
   packet behind a command without data is lost, and the offset is not reset
   afterwards, so that an executed frame can be executed again.
2. `receiver_refused`: after `ERR_INVALID_PACKET_SIZE` (hitagi.c:971) the BIN
   handler is called all the same, with pointers of an earlier frame or NULL.
3. `flash_intel_erase_only`: `flash_unlock()` of the Intel driver (flash_intel16.c:80)
   leaves the chip in its status mode, and so does `flash_erase()`; only the write
   functions reset it. After a BIN in the erase-only mode, at the start of a block
   or not, READ and RQRC answer with status words.
4. `flash_amd_tail`: the AMD buffer mode drops what is behind the last full page.
5. `flash_amd_otp`: READ_OTP reads 8 of the 64 words it answers with.

Observed while modelling and part of the models, without a run of their own: a
bus error stalls endpoint 1 for good (`EveryFrameAnswered` excepts it); with
packets of 32 bytes any leftover makes the next packet run past `data_array`
(the `receiver` run has packets of 16; a host that keeps the protocol leaves
nothing over, theorem `BufferSafety`).

## 5. Proofs

**FrameReceiverProofs** proves `TypeOK`, `BuffersHold`, `ReadsOnlyReceived` and that
the receiver implements `Channel`, for packets of 16 and of 32 bytes, every window,
every number of frames, every place and alignment of `rx_data`, and every set of
frames that keeps the protocol: from `ReceiverConstants` and the hypothesis
`HostKeepsProtocol`, which runs `receiver_coalesced` and `receiver_refused` show to
be needed. None of the properties is inductive, because what the parser finds
in a packet depends on where the host cut the frame. `IInv` ties the parser to the
frame the host is sending (`Current`):

- `Reading(n)`: the parser has the first `n` bytes of the frame, a packet may end
  there (`Boundary`), and the packets still to come, the one in the endpoint
  included (`Line`), continue with the byte behind (`Coming`);
- for every position of the parser, which bytes of the frame are in `data_array`
  (`CommandInv`, `SeparatorInv`) or in `rx_data` (`Holds(n)`), so that the ETX
  found by the scan is the one of the frame and the size that is checked is the
  one the host sent;
- `Between`: between two frames, what is left of the last one holds no STX, so
  `Poll` throws it away and starts with the next frame. That is also why no
  leftovers ever remain in `data_array` (`prev = 0`).

`TransferFacts` says how a transfer of the host may be cut, `Advance` and
`LineReceived` what a packet taken from the endpoint leaves, `HostKeeps`,
`BusKeeps` and one lemma per parser action that `IInv` is kept, while the host and
the bus go on (`EnvironmentKeeps`). The refinement maps `HostSend` to `Send`,
`Dispatch` or `BinAck` to `Take`, and all else to a stutter.

`TypeOK` is more than types: the counters of the code are `u8` and would take any
value between 0 and 255 if one were ever taken below zero, and twice a packet if
one were counted twice; `Ranges` keeps them, next to `IInv`, to what a packet
holds (`RangesKept`). Each conjunct of `BuffersHold` about `rx_data` is a sum over
packets; a payload has room for one more packet behind it, and for the up to
three bytes it is shifted by, because a size is at most `MaxBin`. TLC checked `IInv` on the states of run `receiver` before it was
proved.

**AnswerSenderProofs** proves, for every packet size up to 63, every size of
`tx_data` from 17 on and every set of answers: `TypeOK`, `InOrder`,
`NothingLeftOpen`, `NoOverwrite`, and that the sender implements `Channel`. It uses
`SenderConstants` only. `InOrder` is not inductive: whether the next packet will
continue what the host has read depends on where the packet before it ended,
and on whether the host took it before or in the middle of `usb_tx()`. `Inv`
therefore says, for each position inside `usb_tx()`, what is in the endpoint and
how far the host is: `LoopInv` (bytes left plus offset give the length of the
answer), `CopyInv`, `CountInv`, `ClearInv`, `EnableInv` and `IdleInv`. Between
clearing the flags and setting XFREN the host may already read, because XFREN is
never cleared by the code, so `EnableInv` has two cases. The proof has one lemma
per action; `HostReadKeepsInv` is the hard one. The refinement maps `SendPacket`
to `Send`, a `HostRead` that ends an answer to `Take`, and everything else to a
stutter.

**RealignProofs** proves `TypeOK`, `PayloadAligned` and `NothingElse` for every
buffer, base address, offset and size that fits. The invariant `Moved` says which
bytes the first `i` iterations have moved and that those still to be read are
untouched, which is what the direction of the copy is for. `LoopIsOneMove` joins
this model to FrameReceiver: the loop leaves `rx_data` as the one move of `BinAck`
does, which reads the whole payload before it writes.

**FlashIntelProofs** proves `TypeOK`, `ChipUnderstood`, `Confined`,
`ReadableAfterWrite`, `QueryAnswered` and that the driver implements
`FlashMemory`, for every flash, chunk, content and length of the write buffer. It
uses `FlashConstants`, `IntelConstants` and `IntelBlocks`: the blocks of the chip
are those `flash_geometry()` computes, and a BIN carries at least one word. None
of the properties is inductive, since what the chip makes of a command depends
on the ones before. `IInv` says for every position of the driver which mode the
chip is in (`ModeInv`), what it works on (`WorkInv`), that the block is unlocked
(`JobInv`), how far the chunk is and which of its words the write buffer holds
(`CountInv`), and what the memory is (`MemInv`): `Written(before, addr, job, n)`,
the memory before the command with its block erased and `n` words programmed. A
round of the write buffer starts at a multiple of its length (`Start`), so the
test for the end of a round meets the count the chip was given; that is lemma
`RoundsMeet`. The refinement maps `Finish` to `BIN` and all else to a stutter:
until then the abstract memory is the one before the command. TLC checked `IInv`
on the states of run `flash_intel` before it was proved.

**FlashAmdProofs** proves `TypeOK`, `ChipUnderstood`, `Confined`,
`ReadableWhenIdle`, `QueryAnswered` and the refinement in the same way, from
`FlashConstants`, `AmdConstants` and `AmdBlocks` (bit 7 is a bit of a word). Two
things differ. The driver sees of the chip one bit, which is the complement of
the one written while the chip works; that `flash_wait()` does not return before
the chip is done follows from the bit being the one of the last word written,
and that a word then reads back as it was sent from its having been erased,
which `JobInv` keeps through the command. And the refinement has the hypothesis
`WholePages`, a host whose chunks are whole pages, because the driver drops the
rest (finding 4); the other theorems do without it.

**NorFlashProofs** has the lemmas both drivers rest on: the arithmetic of rounds,
and how `Written` grows by what the chip programs.

**SessionProofs** proves `TypeOK`, `EachChunkAtItsPlace`, `SureSurvives`,
`VerifyFindsImage` and `AnswersTrue` for every memory, image, cut, address, phone,
size of `tx_data` and of the array on the stack, length of the pieces read back
and number of power failures, from `FlashConstants`, `TextsConstants` and
`SessionConstants`. Its first section is about Texts: what `HexAsc` writes is what
`util_hexasc_to_u32()` reads, in four and eight digits, inside the data of a
command, and what the host reads. A digit is shifted in by `Shift` (a `u32`), and
the number formed so far is the one divided by a power of 16 (`Places`).

The heart of the upload is `Due`, the
chunk whose place `received_address_ptr` points to: host and loader may each be
one behind, the host until it hears the ACK, the loader until it has written.
The chunks before `Due` are in the memory (`StoredTo`), and the block of the
chunk that is due is erased from there on unless that chunk starts it
(`FreshAt`). A power failure keeps this, because it only touches the chunk being
written and the block it starts, and the host goes on with the last chunk that
starts a block and is sure.

`VerifyFindsImage` needs that a piece of the image is in the answer whole:
`SessionConstants` has it fit into the array of READ and into `tx_data`
(`PieceFacts`), and a host that keeps to that knows how far it has read
(`ReadBack`). Of a longer READ the theorem says nothing.

`AnswersTrue` is about the array on the stack: `PutFacts` says what a piece and
its NUL make of it, `EndsAtNul` that the answer ends at the first NUL, and one
lemma for each handler that the only NUL left is the last one. For the loops of
RQSN and READ_OTP that is an induction over the numbers written so far (each
takes the place of the NUL before it), for an answer of any length that fits.
What an answer says must still be so while it is heard: `Answered` ties it to the
registers and to the version word, which no command changes before. Of the bytes
of READ_OTP that the driver has not read, it says nothing (finding 5).

**WatchdogProofs** proves `TypeOK` and `ExpiresOnlyWhenStuck` for all times that
meet `WatchdogConstants`. `InBudget` says for each loop how much of the time may be used up: in
the payload loop, `since + left * HostDelay` is at most `MaxPackets * HostDelay + wait`,
and behind it the erase and the first write add theirs. A packet that arrives
takes one off `left` and resets `wait`, which was at most `HostDelay`; a tick adds
one to both sides.

But for `HostKeepsProtocol` and `WholePages`, what the proofs assume of the host
is in the models themselves (section 3) and in the assumptions named.

Every invariant, action property and refinement that a passing run checks is
thereby proved. Only model-checked is liveness (`EveryChunkEnds`, `UploadEnds`,
`HangEnds`, `EveryFrameAnswered`, `EveryAnswerHeard`), which is out of the prover's
reach. Induction over data is as well, because the library's theorems on it take
an operator as a parameter; where a first index had to be found (`FirstIn`), the
least member of a set of naturals (`LeastNat`, from the well-foundedness of `<`)
serves instead, also for the loops of RQSN and READ_OTP, where the first number
for which the text is wrong would have a right one before it.

## 6. Not modelled

- What a READ of more bytes than its array holds (hitagi.c:546) overwrites on the
  stack: the model has it answered or not, and followed by a reset or not. RQRC
  of a reversed range or up to the last address: the host of Session does not
  ask for it.
- Transfers a host cuts more often than once in the header of a frame (a BIN
  size that comes one byte at a time, hitagi.c:957), chunks across erase blocks,
  pages of the AMD chips that start elsewhere, words that are not erased: the
  hosts of the models keep to rules that exclude them, and the hazards in
  `PROJECT.json` say so.
- Digits the host should not send: `DigitValue` gives every character a value
  as the code does, but the host of Session sends upper-case digits.
- The checksum of RQRC and the one at the end of a BIN, which the loader does not
  look at: the sum is abstracted to the words it is made from.
- The register writes of start-up; the delays (`nop`); memory barriers. Start-up
  is modelled as the state it leaves (`Boot`, `Start`).
- Linking and signing (`prelink.py`, `postlink.py`, `build.sh`): scripts without
  state. The IMEI tool: a stand-alone straight-line computation. `old/`, the
  loader's predecessor, which is not built.

## 7. Plan

Done, in the order of importance: the link (FrameReceiver, AnswerSender), the
flash path (FlashIntel, FlashAmd), the session above both with the texts of its
answers, the realignment, the watchdog; the theorems of section 5, which cover
all of their invariants and refinements.

To come:

1. RQRC of reversed and unbounded ranges in Session.
2. A theorem that Session, with FrameReceiver and AnswerSender between host and
   handlers, needs no more of them than `Channel`.
