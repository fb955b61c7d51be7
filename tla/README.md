# sensor-watch-ir-tools: TLA+ specifications

Specifications, model-checking configurations and proofs for the infrared tool
chain of this repository: the Python tools on the host, the modem firmwares for
three boards, and, as far as the repository shows it, the watch they talk to.
Paths are relative to the repository (`src/modem_*.cpp`, `bin/*.py`,
`README.md`).

    firmware_flasher.py, totp_sender.py,      modem_xiao_samd21.cpp,
    test_rx.py, test_tx.py                    modem_arduino_uno.cpp,
       |  ir_modem.py, serial_frame.py        modem_esp32c3.cpp
       |                                          |
       +---- USB: SOF type len payload ---------- + ---- light ---- watch
             CMD_* down, MSG_* up                       frames out,
                                                        2-byte id echoed back

## 1. Inventory

| component | state | operations | module |
|---|---|---|---|
| Acknowledged link (`firmware_flasher.py` 167-239, `totp_sender.py` 105-186) | frame and attempt, deadline, `tx_done`, messages in the USB pipe | drain, CMD_TX, read MSG_TX_DONE / MSG_RX, time out, retry, give up | `AckLink`, abstractly `StopAndWait` |
| Receive ring (`byte_received`, `forward_rx_bytes`, ring reset in `enter_rx_*`) | `g_ring`, head, tail, drop counters | append in the interrupt, drain in the main loop, reset on entering RX | `RxRing` |
| USB parser and modem modes (`poll_usb_commands`, `handle_command`) | `g_cstate`, `g_clen`, `g_cbuf`, configuration, `g_dir` | one step per byte, the five commands, unsolicited messages | `UsbModem` |
| Host driver (`ir_modem.py`, run of `test_tx.py`, `test_rx.py`) | bytes being written, the reply awaited | handshake, chunked write, drain, Ctrl-C, exit | `Handshake` |
| Flash session (`firmware_flasher.py` 242-321, 501-705, 954-1063) | stage, arguments of the run, block | test, confirm, ENTER, stream, EXIT, resend, fall back from patch to full | `FlashSession` |
| Watch's flasher face (another repository; `README.md` 188-238) | mode, last id, patch decoder, flash rows | TEST, ENTER, block, chunk, EXIT | `Watch`, external |
| Flasher simulator (`flasher-sim/harness.c`) | queued frames, ACKs counted, scenario | queue, run a session, starve, reboot | `FlasherSim`, on `Watch` |
| Digital receive front end (`pt_edge_isr`, `TC4_Handler`, `TIMER1_*_vect`, `poll_digital_rx`) | receiver state, byte so far, compare register, pending interrupts | edge, compare, poll | `DigitalRx`, on `OpticalLine` |
| Wire frame (`serial_frame.py`) | parser state and buffer | `build_frame`, `feed` | `FrameParser` |
| Analog receive front end (`a_track_env` to `a_process_sample`, `analog_sample_is_light`, `analog_process_sample`) | envelopes, classifier, byte so far, arming | a sample: slice, start, accumulate, finalise bit and frame | `AnalogRx`, on `OpticalLine` |
| Direction control and transmit bit clock (`enter_idle`, `enter_tx`, `enter_rx_*`, `send_blob`, the timer and edge interrupts) | `g_dir`, configuration, timer, bit queue, receiver state | CONFIG, TX, RX, STOP statement by statement; the interrupts | `HalfDuplex` |
| UF2 parsing, image assembly, patch geometry and building | none (pure) | | not modelled |
| Beacon guard, console dialogue, patch generators, schematics script, build files | none of interest | | not modelled |

The hard parts: three concurrent programs with timeouts of their own and an echo
that carries nothing but an id (AckLink); a ring shared with an interrupt
without a lock (RxRing); a modem that outlives the tools and a parser without a
timeout (Handshake); a flash that may be cut anywhere and taken up by another
run with other arguments (FlashSession); interrupts that fall together within a
bit time (DigitalRx), or between two statements of a change of direction
(HalfDuplex); thresholds that learn from the signal they judge (AnalogRx); a parser that
believes a length before the CRC vouches for it (FrameParser). `PROJECT.json` lists each hazard with its line and the
properties aimed at it.

## 2. Modules and how they correspond to the code

**StopAndWait** is the promise of a link: frames are credited one after another,
each only after the receiver has taken it.

**AckLink** is one tool, the modem and the watch with time in ticks. A host step
is the code between two blocking calls: `HostDrain` (the discard of stale
messages), `HostSend` (CMD_TX and the overall ceiling), `HostReadTxDone` (the
tight window), `HostReadRx` (the gate and the match), `HostTimeout` (retry or
give up). The modem's `ModemTake ... EndTx` is `handle_command(CMD_TX)`, which
blocks until the frame is out, resets the ring and only then reports
MSG_TX_DONE. The watch echoes after any of `ReplyTimes`, which includes times
beyond the ACK window. A message may spend a tick on the USB. Steps that take no
time are urgent: `Tick` waits for them, so a deadline passes only when the code
would see it pass. `Tool` selects the flasher's rules (drain, gate, a give-up
ends the session) or totp_sender's (none of them, and the id survives a
give-up). Abstracted: the bytes of the echo and the rolling window that
finds them; an id stands for them. Ids do not repeat in the model; in the code the
blocks reuse the ids of the link test, with the ENTER frame (id 0xFFFF) and its
drain in between. The settling pauses between frames of both tools are left
out: they make nothing of what the runs show impossible, since a retry has no
pause. The first `TestFrames` frames are the link test's, with `Retries`
retransmissions at most; the others are retried without limit.

**RxRing** splits `byte_received` from the steps of `forward_rx_bytes`: read a
byte, move tail, send, read the drop counter and compare it (`ReadDrops`), note
it as reported and send it (`SendStatus`). The interrupt may come between any
two. `EnterTx`, `ResetTail`, `ResetHead` and `Listen` are the way through
`enter_tx` and `enter_rx_digital`, with the two writes of the reset apart.

**UsbModem** is the modem side of the USB: the parser a byte at a time
(`OnSof ... OnPayload`), with both bytes of a length, `handle_command` with its guards and
answers, the end of a transmission, and what the modem sends by itself in RX. **Handshake** extends
it with a host: `Open` to `ReadOk` is `handshake()`, `SendTx`/`SendRx` are
test_tx and test_rx, `WriteChunk` is one `ser.write` of at most 64 bytes.
`Finish` is a Ctrl-C that reaches the handler (CMD_STOP is sent), `Abort` one
that does not. The ghost `half` says that a command is written in part, and `cut` that
one stayed so. The modem keeps its state from run to run.

**HalfDuplex** is the other half of the main loop: what a command does to the
hardware while the interrupts go on. A command is a list of statements (`todo`)
in the code's order, one list per board and direction (`Samd21`, `Uno`,
`Esp32c3`); a timer or edge interrupt may come between any two. Stores enclosed
by cli() and sei() are one statement, and neighbouring stores that no interrupt
can tell apart are one too (`bit_clock`, `free_run`). The one timer has its run bit,
interrupt enable, flag, count and present use. In TX `BitIsr` shifts the bit queue,
and the ghost `line` collects the cells it puts on the air; in RX a byte under way
is only told by its kind: the session's own, or mixed from two sessions or two
configurations (its bits are DigitalRx's and AnalogRx's). The
ESP32-C3 sends through RMT: `Symbols` are its level and duration pairs, `Read`
decodes the light they make; its `analog_start` may fail. Of the XIAO and UNO the
bit queue, the spin loop and the arming are there, of the ESP32-C3 `Poll`.

**Watch** is the watch as its callers know it, external to this repository: id 0 restarts a
full flash at any time, a repeat of the last id is acknowledged without writing,
the next id is written, any other is ignored; a write may fail and is then not answered.
A patch chunk is answered when the decoder takes it; the rows it makes come
at a pace of its own (`Pace`), and a decoder that fails (`Dead`) leaves the watch parked
with a chunk already answered. EXIT is answered only if the described rows
verify. What README.md leaves open was read conservatively: an ENTER forgets the
last id, a torn row is possible at any write. Rows hold an image's name, or `Torn`; a patch
is named by the image it makes.

**FlashSession** takes an exchange of AckLink as one step (lost, or handled with
the echo lost, or acknowledged) and models `main`, `run_test_stage`,
`send_enter`, `stream_frames`, `send_exit_verify`, `flash_stage` and
`patch_flash` over several runs of the tool: fresh or with `--start-block`, the
whole image or `--count`, full or patch, against the same Watch.

**FlasherSim** is `flasher-sim/harness.c` on that Watch: the scenarios of its
main queue their frames (`Queue`), `ReadFrame` hands them to the watch one by one, and a
session ends with a reboot or when the stream has drained. It is what ties the external
Watch to something in this repository: what main demands of the real firmware is demanded
of the model, for bodies of one to six frames and every pace of the decoder. The frame
that main corrupts holds the byte at `body_len / 2`: of an even number of frames that is
the last of the first half or, if the last frame is full, the first of the second
(`Middles`).

**OpticalLine** is the light: a sender's characters (start, data and stop cells,
NRZ or IrDA pulses, a slip of its clock in mid-character and a gap before the
next character) and the account of bytes owed. The two receivers extend it.

**DigitalRx** has the free-running counter that wraps, one pending edge and one pending
compare, and the handlers of the three boards. The edge handler is served first
when both are pending; an interrupt waits at most `Latency` ticks. The UNO's
capture register, its clearing of OCF1A on a pivot and of ICF1 at the end of a byte
are there, so is the ESP32's polling. The XIAO's re-anchoring of NRZ bits is a
compile-time option, `RX_NRZ_RESYNC`, 0 in the shipped build; a front has it or
not (`resync`), and the XIAO is checked and proved both ways. Its start time is the
counter as the handler reads it, late by the latency. `RX_NOISE_FILTERING` is 0 as well
and is left out: the model reads a sample once.

**AnalogRx** works on integer samples with the arithmetic of the code: envelopes
in sixty-fourths of a count and shifts that round down (`Attack`, `Decay`,
`Track`), thresholds (`Mid`, `Hysteresis`), the classifier (`IsLight`) and
`a_process_sample` with all its returns: `IdleDark`, `IdleUnsettled`,
`BeginByte`, `InByte`, down to `FinalizeBit` and `FinalizeFrame` with the contrast
check and the saturation guard. The UNO runs the XIAO's code on ten bits; the
ESP32's own slicer and its missing guards are the cases marked `Esp32`. A tick
is a sample, and a sample alternates with the line. The first sample after an
edge of the sender may lie half-way or still at the old level. A behaviour
starts with a receiver seeded on a dark line, and may begin with stray light.
The seeding loops, the choice of the oversampling and the ADC's and DMA's set-up
are left out.

**FrameParser** is `build_frame` and `FrameParser.feed`, one action per state.
The checksum is a constant operator, `Crc`; the proofs hold for any, and for model checking
MCFrameParser makes it a pair of residues of the bytes, which tells apart what the few
modelled faults make of a frame. A byte may be lost, replaced, or come from
nowhere. No tool calls `reset()`; neither does the model. Frames keep coming: their
number is not bounded.

## 3. Runs

| run | module, cfg | distinct states | what it shows |
|---|---|---|---|
| ack_link | AckLink, AckLink.cfg | 6 329 | with the flasher's rules an ACK means the watch took this frame, the host is never a command ahead of the modem, an echo counts if and only if it was heard in this attempt's session, StopAndWait is implemented, and after a passed link test every frame is in the end acknowledged |
| totp_genuine | AckLink, AckLink_totp_AckGenuine.cfg | violation | the first of these does not hold of totp_sender |
| rx_ring | RxRing | 47 136 | order, no loss; in the end all bytes forwarded and all drops reported, those between snapshot and report included |
| handshake | MCHandshake, Handshake.cfg | 241 241 | a handshake fails only after a command was cut off in the middle, at most a bounded number of times in a row; a tool works with the configuration it asked for and reads its own answers |
| half_duplex | MCHalfDuplex, HalfDuplex.cfg | 578 160 | the light of a CMD_TX is its bytes cell by cell; a transmission ends; no byte mixed of two sessions or configurations reaches the host; a modem that has answered is ready to receive; nothing runs while the ring is reset |
| flash_session | FlashSession | 161 685 | the watch never runs a mixture; success means the whole image; what the tool says after a failed EXIT is true; a pass never loses step; an ACK means a written row; a parked watch is recovered by a pass from block 0 |
| flasher_sim | FlasherSim | 3 325 | every scenario of the harness ends as its main demands, with as many ACKs |
| digital_rx | MCDigitalRx, DigitalRx.cfg | 1 020 768 | six receivers get every byte and no other; XIAO NRZ as shipped and re-anchoring |
| xiao_back_to_back, esp32_nrz | MCDigitalRx, DigitalRx_*.cfg | violations | one receiver of each of two boards does not |
| analog_rx | MCAnalogRx, AnalogRx.cfg | 4 153 625 | three boards receive every byte of a burst and no other, through slow edges, shifts of ambient light and stray light; nothing from light below the squelch; the envelopes never cross |
| frame_parser | MCFrameParser, FrameParser.cfg | 222 880 | no false frame; none lost while in step; bounded loss after a fault, for frames that hold no second preamble the parser would take |

`CHECK_DEADLOCK FALSE` stands where the system really stops: Handshake and
FlashSession end when their bound on runs is reached.
HalfDuplex is checked for deadlock: no interrupt is ever pending that no handler
serves, which is why TC4_Handler's branch for a stray one (614) is left out.

### What the violations say

1. *totp_genuine.* `totp_sender.py` 109 calls itself a faithful mirror of the
   flasher's exchange. But the id is not advanced when a URI is given up
   (177-183), so the late echo of that URI is the ACK of the next, which the
   watch never got.
2. *xiao_back_to_back.* XIAO, IrDA: when the next start edge meets the end-of-byte
   compare, `pt_edge_isr` pivots (555-568) but leaves a compare that has matched
   meanwhile pending; it ends the new byte at once as all ones. The UNO clears
   the flag (481).
3. *esp32_nrz.* `poll_digital_rx` (397) passes `!light` as `stop_is_pulse`:
   every good NRZ byte counts as a framing error.

Three more disagreements are contained in the models without a run of their own.
totp_sender has neither the drain nor the gate, so an echo after its window can put it a
CMD_TX ahead of the modem (AckLink with `Tool = "totp"` and NeverAhead). And a
Ctrl-C between two chunks of a CMD_TX leaves the parser in C_PAYLOAD: STOP and
PING of the next runs are eaten, 8 bytes a run, which with MAX_FRAME 540 is up to
some 60 refused handshakes (RefusalsBounded counts them in the handshake run). A UNO resets
when the port is opened and is spared. Finally, `README.md` 151-153 promises that a receiver
of frames re-synchronises after any optical dropout. `FrameParser` (113-165) takes a preamble
inside a payload for a frame's, and after a failed CRC hunts on behind the bytes it has
eaten. When each frame's payload is `AA 55 AA 55 01 00 08 00`, one lost byte is enough: the
parser takes the payload for the start of a frame of length 8, eats the real CRC and the
next preamble and header with it, fails the CRC, meets the next payload, and delivers nothing
ever again, although every further byte arrives. With a frame like that in `Frames`,
`missed <= MostMissed` fails; LossBounded therefore claims it of frames without
(`NoFalsePreamble`).

### Bounds and why they suffice

- *AckLink*: three frames make a second frame that has both a predecessor and a
  successor, the first of them a test frame with two retransmissions, which
  distinguish an attempt from the one before the last (the totp run: all three);
  reply times 1, 2, 4 and 6 against a window of 4 lie within, at and beyond it,
  up to a later attempt; one lost command. Turn numbers are ghosts and wrap at 6,
  more than can be under way.
- *RxRing*: four slots, batches of two, six bytes: the ring wraps and fills, a
  batch is shorter than its contents, two drops. The proofs cover all sizes.
- *Handshake*: a chunk is 6 bytes, the longest frame 15: three writes, of which two
  can be missing; payload bytes include those of commands and the start byte, so
  eaten and resumed commands are read as others. Four runs: refusals in a row
  and the recovery after them.
- *HalfDuplex*: two data bits of four ticks, an interrupt delayed by at most one
  tick, a ring of one byte (its indices are RxRing's). Blobs of one and of two
  bytes, whose stop and start bits meet cells of either level. Commands and
  configurations come in any order and number: the run is not bounded in length.
- *FlashSession*: four rows, three chunks, a decoder that may keep two of them
  before its first row, two test blocks, one retry, five runs, two images:
  a mixture takes two runs, its recovery a third.
- *FlasherSim*: four rows; bodies of 1, 2, 3, 4 and 6 frames, on both sides of every
  condition on nframes in main; a decoder that makes its first row with the
  fourth chunk at the latest, which is what main's limit of four ACKs presumes.
- *DigitalRx*: two data bits of eight ticks, counter modulo 96, which is more than
  twice the longest interval any handler measures. Gaps: NRZ 0 and 3; IrDA on
  the XIAO -2 and 3 (within two ticks of the compare is the second finding above), on the UNO
  -2, 0 and 3, on the ESP32 1 and 3 (it looks for a start edge only after ten bit times).
  One tick of slip and one of latency on bits of eight are within the margin of half a
  bit. The comment on RX_NRZ_RESYNC (87-92) is about a slip beyond it, of which nothing is
  claimed; the option does not widen the margin for every byte, since one without a falling
  edge among its data bits is never re-anchored.
- *AnalogRx*: two data bits, oversampling 8 (A_OVERSAMPLE_MIN, the coarsest),
  bursts of three characters after at least one of which the line pauses for
  five bits; contrasts of 100, 400 and 2000 counts on the XIAO, 100 on the UNO,
  370 on the ESP32, and just below the squelch on each; shifts of a quarter of
  the contrast or less; stray light shorter than a start bit's sample, or longer
  than a byte (what lies between is a valid start bit and yields a byte, rightly).
  A sender an eighth of a bit early per character (gap -1) is followed for three
  characters and lost at the fourth, because the receiver anchors only after a
  whole stop cell. The ESP32's dark level takes up a rise only from 32 counts on
  (rounding), so pulses shallower than about 80 counts may be missed after dusk:
  no run claims otherwise.
- *FrameParser*: payload at most 8 bytes, two faults, any number of frames; frames without
  payload, with a payload that is a piece of the preamble, and of the greatest length with
  a payload that is a preamble and a header too long by one; garbage that is an allowed length, the greatest length, and the two
  preamble bytes. The bound of LossBounded is reached. Its hypothesis, NoFalsePreamble, holds
  of these frames (`WireFramesAreApart`): no preamble but their own, nor one at the joint
  of two, is followed by a length that the parser takes.

### Fairness

- AckLink: weak fairness of each step of the programs and of time, since their
  loops run on. The optical path is assumed poor, not dead: of infinitely many
  attempts the watch could hear in time, infinitely many are heard, and of the
  echoes that end two ticks or more before the deadline not all are lost (strong
  fairness, because each attempt ends the opportunity).
- RxRing: weak fairness of the main loop. `loop()` never blocks in RX. Commands are not owed.
- HalfDuplex: weak fairness of the main loop's next statement, of the timer's
  interrupt and of time. Neither commands nor light are owed.
- FlashSession: weak fairness of the tool's steps, strong fairness of an answered
  exchange. Answers at the prompt: the user may always stop.

With the gate, the drain is redundant in the model: without it every property of
ack_link still holds. The code's own comment (171-176) argues from the drain; the
gate (188-191) is what carries the proof.

## 4. Proofs

Eight modules, `<component>_proofs`, are checked by TLAPS: the theorems hold for every value of
the constants that the assumptions of the components allow.

| assumption | what it says |
|---|---|
| `LinkAssumption`, `CeilingAssumption` (AckLink) | times are numbers; a lost command does not bring an old ghost turn number back; the overall ceiling is two ticks or more above the longest frame, which is what its extra second is for |
| `RingAssumption` (RxRing) | a ring of at least two slots |
| `LineAssumption`, `AnalogAssumption` (OpticalLine, AnalogRx) | known boards, samples within the ADC's range; a pulse of half a bit at most |
| `ReceiverAssumption` (DigitalRx) | the counter does not wrap within two characters |
| `WatchAssumption`, `SessionAssumption` (Watch, FlashSession) | the names of images differ from those of damage; a patch has no more chunks than the image has rows |
| `SimAssumption` (FlasherSim) | ref.bin and new.bin differ; a body has at least one frame |
| `ClockAssumption` (HalfDuplex) | an interrupt waits less than half a bit; a byte fits the bit counter; a blob is not empty (handle_command refuses it) |
| `WireAssumption`, `CrcAssumption` (FrameParser) | a payload within the ten bits of the length; a checksum of four bytes |
| `ModemAssumption`, `HandshakeAssumption` (UsbModem, Handshake) | MAX_FRAME fits two bytes; payloads are bytes, two at least; of all commands only a CMD_TX takes more than one write (CONFIG is 14 bytes, a write 64) |

None of them bounds the number of frames, rows, retries, runs or losses. What is proved,
with the inductive invariant and why it is needed:

**AckLink_proofs.** `TypeCorrect`. `FlasherAckIsGenuine`: AckGenuine is not inductive, a
matching id in the inbox says nothing by itself. `GenuineInv` says that wherever an id is
(on the air, about to be echoed, in the ring, on the wire, in the inbox) its frame has been
taken or is the one on its way, and that under the flasher's rules id and frame agree;
`Control` ties id, cur and credited together. No assumption on times is needed: a credited
frame is genuine however late an echo is. `FlasherKeepsPromise`: by the same invariant every
step is one of StopAndWait or a stutter. `FlasherIsNeverAhead` (NeverAhead) and
`GateKeepsTurnsApart` (GateSeparates) do rest on time. Their invariant, `InTurn`, distinguishes
four phases of an attempt (nothing outstanding; command under way; frame on the air; report
under way) and says of each what the host still has to read (`Link`: ring, USB and inbox as one
stream, parted by the report) and how much of the deadline must be left.

**RxRing_proofs.** `TypeCorrect`, `RingLosesNothing`, `BatchesAreInOrder`, `DropsAreHonest`:
the invariant relates the slots between tail and head to the tail of the accepted bytes
(`SlotOf`), and during the reset of head and tail knows that the interrupt is off.
`DropsOnlyWhenFull`, which DropsAreHonest states, is a theorem only and no run's property.

**Handshake_proofs.** `TypeCorrect`, `ConfiguredAsAskedAlways`, `RefusalsAreBounded`,
`RepliesStayInStep`. The parser's state is read back as the bytes it has taken (`Seen`), so
that everything under way is one sequence, `Sent`, and a step of the parser skips its first
byte, changes nothing, or completes the command at its front (`ParserStep`). `Place` then says for
every point of a run what `Sent` may be: nothing, the one command just written, or, if a
Ctrl-C came in the middle of one, a CMD_TX cut off (`Lost`) that swallows what follows. `Counted`
and `OwedAtMost` keep the account of the bytes such a command still waits for: a run feeds it
eight, so the refusals in a row are bounded by what the longest frame can lack. That a
handshake on the same bytes is not refused without a cut, and that an OK read is CONFIG's, are
the same case analysis.

**FlashSession_proofs** has the theorems of both users of Watch. Of the tool: `TypeCorrect`, `NeverRunsMixtureAlways`, `NoAckIsTold`, `StreamStaysInStep`,
`AckMeansWritten`, and `DoneMeansWhole` for the action property SuccessIsWhole. The
invariant `SessionOK` adds to the five properties what ties the tool to the watch: an armed watch
has taken no id (`ArmedAfresh`), the rows sent so far hold the image and a repeat is answered
only for a row that does (`SentRowsHold`, `RepeatIsWritten`), no decoder of an earlier patch is
in the way of a full pass (`NoDecoderLeft`), and at the EXIT the watch is parked behind the
last frame or has verified and left (`ExitTold`).
Of the simulator: `SimTypeCorrect`, and `SessionsEndAsDemanded` (EndsAsDemanded) for every size of
image and body. EndsAsDemanded says nothing of a session under way; the invariant, `SimInv`, does, in
terms of how many of its frames are read (`Read`): the rest is still queued (`RestQueued`), and the
watch is so many rows into a full flash (`Writing`), so many chunks into a good patch
(`Patching`), in a patch that a full flash may take over at any time (`Parked`), or in one whose
rows fail (`Failing`) or are refused (`Gated`). That the decoder of a failing patch answers
four chunks at most is `acks = last + 1` with `last <= Lead`. The two hypotheses are what
main presumes and Watch leaves open: a decoder makes its first row by its fourth chunk
(`Lead <= 3`), and a row write that fails changes nothing (`Damage \subseteq {FALSE}`, which is what
`g_writes_fail` does). Under them are lemmas about the frames each scenario queues
(`FullFlashFrames`, `DupFrames`, `TakenOverFrames`, `OnlyBodyFrames`) and about what the watch makes of one
(`RowWritten`, `ChunkFed`, `ChunkRepeated`, `FailingChunk`, `GatedChunk`).

**HalfDuplex_proofs.** `TypeCorrect`, `NoByteIsMixed`, `FrontEndIsReady`, `RingIsResetAlone`, on
all three boards. The invariant (`DirectionOK`) is an outline of the programs: what remains
of a command is one of its programs from the k-th statement on (`From`), and for each k it is
said what the statements before have achieved that no interrupt can undo (`IdleOK`, `TxOK`,
`RxOK`), with `Quietness` for what can interrupt at all in each direction.
`LightIsItsFrames` (LightIsFrames, for the two boards whose bits an interrupt clocks out) needs a
second layer, `LightOK`: the cells on the air, the bits in the queue and the bytes in the buffer are
together the bytes asked for (`QueueOK`), and the timer's count and the age of the cell on the air
differ by at most the interrupt's latency within a frame, while before a frame's first cell
the age is the larger (`CellTiming`). That is why no cell is cut short or stretched although the
XIAO zeroes its counter and arms its interrupt in two statements.

**AnalogRx_proofs.** `EnvelopesNeverCross`: for every sequence of samples the dark
envelope stays above the light one, so the branch that collapses them is dead.
The arithmetic is in `Rails` and `RailsOrdered`: a rail ends between where it
was and the sample, and creeps at most as far as the other jumps. `TypeCorrect`: all ranges,
among them that a run of light samples is never longer than the byte is old (`RunBounded`). Ten
bits are fewer than A_SAT_BITS, so the saturation guard cannot fire; stray light is ended by
the bad stop bit and the arming gate instead.
`EveryByteReceived` (NothingMissed) and `NothingFalse` (NoFalseByte) hold within `Margins`, their
hypothesis, for any number of characters, any bytes, slow edges, and on all three boards:

- a sender that keeps its time: no drift, and no gap below zero (the run's gap of -1 loses its fourth
  character, see Bounds);
- at least four samples a bit and two a pulse, and a character shorter than A_SAT_BITS;
- light of one brightness: no shift, no stray light. Half of the kinds of front that analog_rx
  checks satisfy this and the other margins; the rest (dusk, dawn, stray light) stays with TLC;
- a contrast below the squelch (`TooWeak`: then nothing is received), or one that exceeds it by what
  the dark envelope may lose over a byte and has not regained when the next one begins (`StrongEnough`).
  With eight data bits that is a contrast over 76 counts on the XIAO and 20 on the UNO at
  A_OVERSAMPLE_MIN, over 143 and 64 at A_OVERSAMPLE_MAX, and over 69 on the ESP32-C3. Between squelch
  and margin nothing is claimed.

The invariant (`CleanInv`) is the outline of a byte: the receiver rests, the first
sample is due, it was on a slow edge, the byte is being read on time or one sample late, or its last
sample falls into what follows (`Rests`, `FirstSample`, `SlowEdge`, `Reads`, `LastFalls`). In each,
the receiver's bits are the sender's (`BitSoFar`), the contrast has been seen (`ContrastSoFar`),
and the dark envelope is no further below the dark level than its age in the byte explains
(`LagInByte`). That last part is what makes it inductive: the envelope falls slowly through a byte's
light bits and regains most of it in two dark samples of the stop bit, so that bytes
without a pause between them do not wear it down.

**FrameParser_proofs.** `TypeCorrect`; `InStepNothingIsLost`: while no garbage has passed for a
frame, a parser in step loses nothing; `ParserInvertsBuild`: a parser in step completes a valid
frame with the last byte of every frame that arrives, and with no other byte, and it has the id,
flags and payload that build_frame was given. The
invariant `InStep` says how far into the encoded frame the parser is, field by field, and
that its buffers are that prefix.

**DigitalRx_proofs.** `TypeCorrect` needs no assumption but those of the modules. `NothingFalse`
(NoFalseByte) and `EverythingReceived` (NothingMissed) hold within `Margins`, their one hypothesis:

- the sender's slip, either way, plus twice the latency stays under half a bit: a pulse or a sample
  read late is still nearest to its own cell;
- the gap between two characters suits the board (`GapOK`). With NRZ it is not negative. With IrDA,
  where a character's last cell is dark, either more than twice the latency, so that the
  end-of-byte compare is served before the next start edge; or so small that the edge
  comes first: up to half a bit early and no later than the compare on the UNO, which has the edge's
  own time in ICR1 and clears a pending compare, and further inside half a bit by the
  latency on both sides on the XIAO, which does neither. Between those ranges
  (`1 .. 2 * Latency` ticks on the UNO, `-Latency .. 2 * Latency` on the XIAO) the UNO's handler may
  erase a start edge with `TIFR1 = _BV(ICF1)` and the XIAO serve a compare that belongs
  to the byte before. The ESP32 with IrDA needs a gap of one poll;
  with NRZ it has no theorem, since the run esp32_nrz refutes it.

The instance of digital_rx satisfies `Margins`. The invariant (`IInv`) is the outline of a byte for
each of the three ways to receive one (`IrdaInv`, `NrzInv`, `PollInv`): a start edge waits, the byte
on the air is under way, it is whole while the next start edge or a quiet line waits for its
compare, or the receiver rests. Each case knows how old the byte is in ticks
(`Since`, modulo the counter), by how much it was begun late (`Offsets`; the XIAO with NRZ may
take over the sender's slip at an edge if it is built to re-anchor, `NrzOffset`), which cells it holds
(`PulsesTo`), which edge is waiting and when the compare comes. The lemmas under it are the
arithmetic of the wrapping counter (`SinceTick`, `SinceMeets`, `SinceBetween`) and of the cells
(`CellOrder`, `PulseCell`, `SampleInCell`, `EdgeIndex`: the edge served before the
compare of bit i is cell i's). The case that carries the proof is `IrdaPivot`: the next start edge
overtakes the compare, finds all the pulses, and leaves no compare behind.

### What is only model-checked, and why

- Liveness (EveryFrameDelivered, EverythingReported, RestartRecovers, TxEnds): out of the prover's
  reach.
- LightIsFrames of HalfDuplex on the ESP32-C3: its symbols are a concatenation over all bytes sent:
  induction over data.
- NoFalseFrame depends on what the checksum tells apart: as a hypothesis on Crc it would be the
  property itself. LossBounded has NoFalsePreamble for its hypothesis, without which it fails
  (see section 3); that the loss is bounded by what one wrong length can eat is not proved.
- NothingMissed and NoFalseByte of AnalogRx outside `Margins`: how the envelopes follow a shift of the
  ambient light depends on where in a byte it falls and on how far the last one has been made up for.

## 5. Not modelled, and why

- UF2 parsing, image assembly, patch geometry and building: pure functions over
  data whose interesting inputs are sizes in the hundreds of kilobytes.
- Handshakes that begin while the modem is still clocking out a long frame
  (`Settled`): needs a clock beside the parser.
- A CMD_RX to a modem already in RX: no tool sends it. It would reset the ring with
  the interrupt on, and on the XIAO the reset of the timer would take the
  enable bit a byte under way waits for.
- read_message's resynchronisation, and its return of buffered messages past the
  deadline; the wording and logging of the tools; baud rates as numbers.
- Of the simulator: where the watch keeps the patch's first frame and its shift
  buffer, and the generators of its images and patches.
- Pin multiplexing, prescalers, NVIC and EIC set-up, the ADC's and DMA's registers.

## 6. Plan

1. *Proofs*: the analog receiver through a shift of the ambient light that is small against
   the contrast.
2. *Flasher algorithms*: `assemble_image`, `patch_geometry`, block selection as
   operators over scaled sizes, against reference definitions.
