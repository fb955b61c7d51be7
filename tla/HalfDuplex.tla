---- MODULE HalfDuplex ----
(***************************************************************************)
(* The modem between a command and the light: one timer that is bit clock  *)
(* in TX and sampler in RX, reconfigured by the main loop on every change  *)
(* of direction while its interrupts go on. The statements of a command    *)
(* are executed one by one (todo); a timer or an edge interrupt may come   *)
(* between any two. What stands between cli() and sei() is one statement.  *)
(* The ESP32-C3 has no interrupts of its own: RMT sends, the loop polls.   *)
(***************************************************************************)
EXTENDS Naturals, SequencesExt

CONSTANTS
    Boards,   \* the boards that may be built
    DataBits, \* bits of a byte (8)
    BitTicks, \* ticks of a bit
    Pulse,    \* ticks of an IrDA pulse
    Latency,  \* ticks an interrupt waits at most
    Blobs,    \* what a CMD_TX may carry: bytes, as bits from the low one up
    RingCap   \* bound: bytes in the ring

ASSUME ClockAssumption ==
    /\ Boards \subseteq {"samd21", "uno", "esp32c3"}
    /\ DataBits \in 1 .. 253 /\ DataBits % 2 = 0 \* tx_bit_count is a uint8_t
    /\ BitTicks \in Nat /\ 2 * Latency < BitTicks
    /\ Latency \in Nat /\ Pulse \in 1 .. (BitTicks - 1) /\ RingCap \in Nat
    /\ \A blob \in Blobs : blob \in Seq([1 .. DataBits -> {0, 1}]) /\ blob # <<>>

VARIABLES
    board,
    cfg,   \* g_encoding, g_rx_mode, g_configured
    cbuf,  \* g_cbuf: the configuration, or the bytes still to send
    todo,  \* the statements of the command still to execute
    dir,   \* g_dir
    timer, \* TC4 / Timer1: running, its interrupt enabled, its flag, its count and use
    edges, \* pt_edge_isr attached, ICIE1
    adc,   \* the ADC converts
    late,  \* ticks the timer's interrupt has waited
    bits,  \* tx_bit_queue
    left,  \* tx_bit_count
    led,
    rx,    \* g_rx_state and a_state: "idle", or the kind of the byte under way
    ring,  \* g_ring: the kinds of the bytes in it
    setup, \* ghost: the configuration the session was entered with
    asked, \* ghost: the bytes this command sends
    line,  \* ghost: its cells on the air; Bad, if cut short or stretched
    age,   \* ghost: ticks since the last cell began
    host   \* ghost: the kinds of bytes forwarded

hwVars == <<timer, edges, adc>>
txVars == <<bits, left, led>>
airVars == <<asked, line, age>>
rxVars == <<rx, ring, setup, host>>
vars == <<board, cfg, cbuf, todo, dir, hwVars, late, txVars, airVars, rxVars>>

Modes == {"digital", "analog"}
Encodings == {"irda", "nrz"}

\* A byte is the session's own, or a mixture: a step of its reception was made
\* under another configuration than the session's, or in an earlier session.
Kinds == {"own", "mixed"}

Byte == [1 .. DataBits -> {0, 1}]
FrameBits == DataBits + 2
Uses == {"none", "bits", "free", "samples"}
Bad == 2

Unconfigured == [enc |-> "irda", mode |-> "digital", ready |-> FALSE]
NoCommand == [enc |-> "irda", mode |-> "digital", blob |-> <<>>]
NoByte == [m \in Modes |-> "idle"]
Stopped == [on |-> FALSE, irq |-> FALSE, flag |-> FALSE, count |-> 0, use |-> "none"]
Running(use, irq) == [on |-> TRUE, irq |-> irq, flag |-> FALSE, count |-> 0, use |-> use]

-----------------------------------------------------------------------------
(* Programs: the statements of the direction changes, in the code's order  *)

\* timer_off ... dir_idle and so on are the actions below; the others' programs
\* are shorter because cli() and sei() enclose more of them.
Samd21 ==
    [ idle    |-> <<"timer_off", "irq_off", "detach", "adc_stop", "dir_idle">>,
      tx      |-> <<"detach", "adc_stop", "timer_reset", "dir_tx", "bit_clock">>,
      digital |-> <<"reset_rx", "timer_reset", "dir_rx", "free_run", "attach">>,
      analog  |-> <<"reset_rx", "timer_reset", "dir_rx", "adc_start", "sample_clock">> ]

Uno ==
    [ idle    |-> <<"adc_stop", "dir_idle">>,
      tx      |-> <<"adc_stop", "dir_tx">>,
      digital |-> <<"adc_stop", "dir_rx">>,
      analog  |-> <<"reset_rx", "irq_off", "adc_start", "dir_rx">> ]

Esp32c3 ==
    [ idle    |-> <<"adc_stop", "dir_idle">>,
      tx      |-> <<"adc_stop", "dir_tx">>,
      digital |-> <<"dir_rx", "reset_rx">>,
      analog  |-> <<"dir_rx", "reset_rx", "adc_start">> ]

Program == CASE board = "samd21" -> Samd21 [] board = "uno" -> Uno [] OTHER -> Esp32c3

EnterIdleAttached == SelectSeq(Program.idle, LAMBDA s : s # "detach")
EnterIdle == Program.idle
EnterTx == Program.tx

SendByte ==
    IF board = "samd21" THEN <<"load", "count_zero", "arm", "spin">> ELSE <<"load", "spin">>
SendBlob == (IF board = "esp32c3" THEN <<"rmt_write">> ELSE SendByte) \o <<"led_off">>

EnterRx == IF cfg.mode = "analog" THEN Program.analog ELSE Program.digital

-----------------------------------------------------------------------------
(* Statements                                                              *)

At(s) == todo # <<>> /\ Head(todo) = s
Do(s) == At(s) /\ todo' = Tail(todo)
KeepRx == UNCHANGED <<rxVars, airVars>>
KeepTx == UNCHANGED <<txVars, airVars>>

SetEncoding ==
    /\ Do("set_enc")
    /\ cfg' = [cfg EXCEPT !.enc = cbuf.enc]
    /\ UNCHANGED <<board, cbuf, dir, hwVars, late, rxVars>> /\ KeepTx

SetMode ==
    /\ Do("set_mode")
    /\ cfg' = [cfg EXCEPT !.mode = cbuf.mode, !.ready = TRUE]
    /\ cbuf' = NoCommand
    /\ UNCHANGED <<board, dir, hwVars, late, rxVars>> /\ KeepTx

\* Statements that touch nothing but the hardware.
Hardware(s, t, e, a) ==
    /\ Do(s)
    /\ timer' = t /\ edges' = e /\ adc' = a /\ late' = 0
    /\ UNCHANGED <<board, cfg, cbuf, dir, rxVars>> /\ KeepTx

TimerOff   == Hardware("timer_off", [timer EXCEPT !.on = FALSE], edges, adc)
IrqOff     == Hardware("irq_off", [timer EXCEPT !.irq = FALSE], edges /\ board # "uno", adc)
Detach     == Hardware("detach", timer, FALSE, adc)
AdcStop    == Hardware("adc_stop", timer, edges, FALSE)
TimerReset == Hardware("timer_reset", Stopped, edges, adc)
CountZero  == Hardware("count_zero", [timer EXCEPT !.count = 0], edges, adc)
ArmKeepsFlag == Hardware("arm", [timer EXCEPT !.irq = TRUE], edges, adc)
Arm        == Hardware("arm", [timer EXCEPT !.irq = TRUE, !.flag = FALSE], edges, adc)
FreeRun    == Hardware("free_run", Running("free", FALSE), edges, adc)
Attach     == Hardware("attach", timer, TRUE, adc)
SampleClock == Hardware("sample_clock", Running("samples", TRUE), edges, adc)
BitClockStopped == Hardware("bit_clock", Stopped, edges, adc)
BitClock   == Hardware("bit_clock", Running("bits", FALSE), edges, adc)

\* The ESP32-C3's analog_start may fail; enter_rx ignores it.
AdcStart ==
    \E started \in (IF board = "esp32c3" THEN BOOLEAN ELSE {TRUE}) :
        Hardware("adc_start", timer, edges, started)

\* What is under way or in the ring when a session ends is nobody's.
Orphan == [m \in Modes |-> IF rx[m] = "idle" THEN "idle" ELSE "mixed"]
Orphans == [i \in DOMAIN ring |-> "mixed"]
LeaveRx == rx' = Orphan /\ ring' = Orphans /\ setup' = Unconfigured /\ UNCHANGED host

\* The last statements of enter_idle, the UNO's under cli().
DirIdle ==
    /\ Do("dir_idle")
    /\ dir' = "idle" /\ led' = FALSE
    /\ IF board = "uno"
       THEN timer' = [timer EXCEPT !.irq = FALSE, !.count = 0] /\ edges' = FALSE
       ELSE UNCHANGED <<timer, edges>>
    /\ IF board = "esp32c3"
       THEN rx' = NoByte /\ ring' = Orphans /\ setup' = Unconfigured /\ UNCHANGED host
       ELSE LeaveRx
    /\ late' = 0
    /\ UNCHANGED <<board, cfg, cbuf, adc, bits, left, airVars>>

\* enter_tx: the bit queue is empty; the UNO's timer starts to count bits at once.
DirTx ==
    /\ Do("dir_tx")
    /\ dir' = "tx" /\ led' = FALSE /\ bits' = <<>> /\ left' = 0
    /\ IF board = "uno"
       THEN timer' = Running("bits", FALSE) /\ edges' = FALSE
       ELSE UNCHANGED <<timer, edges>>
    /\ late' = 0 /\ LeaveRx
    /\ UNCHANGED <<board, cfg, cbuf, adc, airVars>>

StaleReceiver == rx
StaleRing == ring

\* The receiver of the configured mode starts afresh, the ring is emptied.
Slot(m) == IF board = "esp32c3" THEN "digital" ELSE m
FreshReceiver == [rx EXCEPT ![Slot(cfg.mode)] = "idle"]
FreshRing == <<>>

ResetRx ==
    /\ Do("reset_rx")
    /\ rx' = FreshReceiver /\ ring' = FreshRing
    /\ UNCHANGED <<board, cfg, cbuf, dir, hwVars, late, setup, host>> /\ KeepTx

\* g_dir = DIR_RX; the UNO, under cli(), sets up everything else with it.
DirRx ==
    /\ Do("dir_rx")
    /\ dir' = "rx" /\ setup' = cfg
    /\ IF board = "uno" /\ cfg.mode = "digital"
       THEN /\ timer' = Running("free", FALSE) /\ edges' = TRUE
            /\ rx' = FreshReceiver /\ ring' = FreshRing
       ELSE /\ timer' = IF board = "uno" THEN Running("samples", TRUE) ELSE timer
            /\ UNCHANGED <<edges, rx, ring>>
    /\ late' = 0
    /\ UNCHANGED <<board, cfg, cbuf, adc, host>> /\ KeepTx

-----------------------------------------------------------------------------
(* send_blob                                                               *)

FrameWithoutStop(b) == <<0>> \o b \o <<0>>
Frame(b) == <<0>> \o b \o <<1>>

\* The next byte into the bit queue; the UNO arms its interrupt with it.
Load ==
    /\ Do("load")
    /\ bits' = Frame(Head(cbuf.blob)) /\ left' = FrameBits
    /\ cbuf' = [cbuf EXCEPT !.blob = Tail(@)]
    /\ IF board = "uno"
       THEN timer' = [timer EXCEPT !.irq = TRUE, !.flag = FALSE, !.count = 0] /\ late' = 0
       ELSE UNCHANGED <<timer, late>>
    /\ UNCHANGED <<board, cfg, dir, edges, adc, led, airVars, rxVars>>

\* while (tx_bit_count > 0): the byte has drained.
Spin ==
    /\ At("spin") /\ left = 0
    /\ todo' = IF cbuf.blob = <<>> THEN Tail(todo) ELSE SendByte \o Tail(todo)
    /\ UNCHANGED <<board, cfg, cbuf, dir, hwVars, late, txVars, airVars, rxVars>>

LedOff ==
    /\ Do("led_off")
    /\ led' = FALSE /\ asked' = <<>> /\ line' = <<>>
    /\ UNCHANGED <<board, cfg, cbuf, dir, hwVars, late, bits, left, age, rxVars>>

\* The ESP32-C3's RMT symbols: two runs [lit, ticks] each.
Run(lit, ticks) == [lit |-> lit, ticks |-> ticks]
IrdaSymbol(bit) ==
    IF bit = 1 THEN <<Run(FALSE, 1), Run(FALSE, BitTicks - 1)>>
    ELSE <<Run(TRUE, Pulse), Run(FALSE, BitTicks - Pulse)>>
NrzSymbol(frame, k) == <<Run(frame[2 * k - 1] = 0, BitTicks), Run(frame[2 * k] = 0, BitTicks)>>
Symbols(frame) ==
    IF cfg.enc = "irda" THEN [k \in 1 .. FrameBits |-> IrdaSymbol(frame[k])]
    ELSE [k \in 1 .. FrameBits \div 2 |-> NrzSymbol(frame, k)]

\* The light RMT makes of the symbols, and what it says in cell k.
Light(runs) == FlattenSeq([i \in DOMAIN runs |-> [t \in 1 .. runs[i].ticks |-> runs[i].lit]])
LitFor == IF cfg.enc = "irda" THEN Pulse ELSE BitTicks
CellOf(light, k) ==
    LET lit == {t \in 1 .. BitTicks : light[(k - 1) * BitTicks + t]}
    IN  IF lit = {} THEN 1 ELSE IF lit = 1 .. LitFor THEN 0 ELSE Bad
Read(light) == [k \in 1 .. Len(light) \div BitTicks |-> CellOf(light, k)]

\* rmtWrite returns when all symbols are out; its timeout has a second to spare.
RmtWrite ==
    /\ Do("rmt_write")
    /\ \E symbols \in {FlattenSeq([i \in DOMAIN cbuf.blob |-> Symbols(Frame(cbuf.blob[i]))])} :
         \E light \in {Light(FlattenSeq(symbols))} : line' = Read(light)
    /\ cbuf' = [cbuf EXCEPT !.blob = <<>>]
    /\ UNCHANGED <<board, cfg, dir, hwVars, late, txVars, asked, age, rxVars>>

-----------------------------------------------------------------------------
(* Interrupts. A receiver is told by the kind of its byte: bits and edges  *)
(* are DigitalRx's and AnalogRx's.                                         *)

Interrupts == board # "esp32c3"
Serves == IF cfg.mode = "analog" THEN adc /\ (Interrupts => timer.use = "samples")
                                 ELSE Interrupts => timer.use = "free"
Honest == dir = "rx" /\ setup = cfg /\ Serves
Mixed(kind) == IF Honest /\ kind = "own" THEN "own" ELSE "mixed"

ByteReceived(kind) == ring' = IF Len(ring) < RingCap THEN Append(ring, Mixed(kind)) ELSE ring
Begin(m) == rx[m] = "idle" /\ rx' = [rx EXCEPT ![m] = Mixed("own")] /\ UNCHANGED ring
GoOn(m) == rx[m] # "idle" /\ rx' = [rx EXCEPT ![m] = Mixed(@)] /\ UNCHANGED ring
Finish(m) == rx' = [rx EXCEPT ![m] = "idle"] /\ (UNCHANGED ring \/ ByteReceived(rx[m]))

Quiet == UNCHANGED <<rx, ring>>
KeepLoop == UNCHANGED <<board, cfg, cbuf, todo, dir, adc, setup, host>>

\* pt_edge_isr, TIMER1_CAPT_vect: a start edge arms the compare; with IrDA a later
\* edge is a pulse, or finds the byte over and begins the next.
EdgeIsr ==
    /\ Interrupts /\ edges /\ dir = "rx" /\ cfg.mode = "digital"
    /\ \/ /\ Begin("digital")
          /\ timer' = [timer EXCEPT !.irq = TRUE, !.flag = FALSE] /\ late' = 0
       \/ GoOn("digital") /\ UNCHANGED <<timer, late>>
       \/ /\ cfg.enc = "irda" /\ rx["digital"] # "idle"
          /\ ByteReceived(rx["digital"])
          /\ rx' = [rx EXCEPT !["digital"] = Mixed("own")]
          /\ UNCHANGED <<timer, late>>
    /\ KeepLoop /\ UNCHANGED <<edges>> /\ KeepTx

Pending == Interrupts /\ timer.irq /\ timer.flag
Served(irq) == timer' = [timer EXCEPT !.flag = FALSE, !.irq = irq] /\ late' = 0

\* A cell begins: did the one before last a bit, or longer after a stop bit?
Short == age < BitTicks - Latency
Long == age > BitTicks + Latency /\ Len(line) % FrameBits # 0
CellBegins(bit) ==
    /\ line' = IF Short \/ Long THEN Append(line, Bad) ELSE Append(line, bit)
    /\ age' = 0

\* TX: the next bit of the queue; an IrDA pulse is over when the handler returns.
NextBit == IF bits = <<>> THEN 0 ELSE Head(bits)
UnlessDone == left # 1
BitIsr ==
    /\ Pending /\ dir = "tx"
    /\ Served(UnlessDone)
    /\ bits' = IF bits = <<>> THEN <<>> ELSE Tail(bits)
    /\ left' = (left + 255) % 256
    /\ led' = (cfg.enc = "nrz" /\ NextBit = 0)
    /\ CellBegins(NextBit)
    /\ KeepLoop /\ UNCHANGED <<edges, asked>> /\ Quiet

\* TC4_Handler has a branch for a stray interrupt when idle; none comes (the timer is
\* off then). The UNO's handler does not ask for the direction.
Samples == cfg.mode = "analog" /\ (dir = "rx" \/ board = "uno")
Compares == cfg.mode = "digital" /\ (dir = "rx" \/ board = "uno")

\* RX, analog: one sample into a_process_sample.
SampleIsr ==
    /\ Pending /\ dir # "tx" /\ Samples
    /\ Served(timer.irq)
    /\ Quiet \/ Begin("analog") \/ GoOn("analog") \/ (rx["analog"] # "idle" /\ Finish("analog"))
    /\ KeepLoop /\ UNCHANGED edges /\ KeepTx

\* RX, digital: a bit of NRZ, or the end of the byte.
CompareIsr ==
    /\ Pending /\ dir # "tx" /\ Compares
    /\ \/ cfg.enc = "nrz" /\ GoOn("digital") /\ Served(timer.irq)
       \/ Finish("digital") /\ Served(FALSE)
    /\ KeepLoop /\ UNCHANGED edges /\ KeepTx

\* Time: the counter restarts at each bit; a compare in RX may match at any time.
RunsOn == {[timer EXCEPT !.count = @ + 1]}
Match ==
    CASE timer.use = "bits"    -> {[timer EXCEPT !.count = (@ + 1) % BitTicks,
                                               !.flag = @ \/ timer.count + 1 = BitTicks]}
      [] timer.use = "samples" -> {[timer EXCEPT !.flag = TRUE]}
      [] timer.use = "free"    -> {timer, [timer EXCEPT !.flag = TRUE]}
      [] OTHER                 -> {timer}

AgeCap == BitTicks + Latency + 1
Tick ==
    /\ Pending => late < Latency
    /\ late' = IF Pending THEN late + 1 ELSE 0
    /\ timer' \in IF timer.on THEN Match ELSE {timer}
    /\ age' = IF age < AgeCap THEN age + 1 ELSE age
    /\ KeepLoop /\ UNCHANGED <<edges, txVars, asked, line>> /\ Quiet

-----------------------------------------------------------------------------
(* The main loop between commands                                          *)

AtEase == todo = <<>>
Command(statements) ==
    /\ AtEase
    /\ todo' = statements
    /\ UNCHANGED <<board, cfg, dir, hwVars, late, txVars, line, age, rxVars>>

Reconfigure == <<"set_enc", "set_mode">> \o EnterIdle

Config(e, m) ==
    /\ Command(Reconfigure)
    /\ cbuf' = [cbuf EXCEPT !.enc = e, !.mode = m] /\ UNCHANGED asked

Transmit(blob, auto) ==
    /\ cfg.ready
    /\ Command(EnterTx \o SendBlob \o (IF auto THEN EnterRx ELSE EnterIdle))
    /\ cbuf' = [cbuf EXCEPT !.blob = blob] /\ asked' = blob

\* CMD_RX: no tool sends it to a modem that listens already.
Listen == cfg.ready /\ dir # "rx" /\ Command(EnterRx) /\ UNCHANGED <<cbuf, asked>>
Stop == Command(EnterIdle) /\ UNCHANGED <<cbuf, asked>>

\* forward_rx_bytes
Forward ==
    /\ AtEase /\ dir = "rx" /\ ring # <<>>
    /\ host' = host \cup Range(ring) /\ ring' = <<>>
    /\ UNCHANGED <<board, cfg, cbuf, todo, dir, hwVars, late, txVars, airVars, rx, setup>>

\* The ESP32-C3's poll_rx.
Poll ==
    /\ ~Interrupts /\ AtEase /\ dir = "rx" /\ (cfg.mode = "analog" => adc)
    /\ Begin("digital") \/ GoOn("digital") \/ (rx["digital"] # "idle" /\ Finish("digital"))
    /\ KeepLoop /\ UNCHANGED <<timer, edges, late>> /\ KeepTx

Init ==
    /\ board \in Boards
    /\ cfg = Unconfigured /\ cbuf = NoCommand
    /\ todo = <<>> /\ dir = "idle"
    /\ timer = Stopped /\ edges = FALSE /\ adc = FALSE /\ late = 0
    /\ bits = <<>> /\ left = 0 /\ led = FALSE
    /\ rx = NoByte /\ ring = <<>> /\ setup = cfg /\ host = {}
    /\ asked = <<>> /\ line = <<>> /\ age = AgeCap

Statement ==
    \/ SetEncoding \/ SetMode \/ TimerOff \/ IrqOff \/ Detach \/ AdcStop \/ TimerReset
    \/ DirIdle \/ DirTx \/ BitClock \/ Load \/ CountZero \/ Arm \/ Spin \/ LedOff \/ RmtWrite
    \/ ResetRx \/ DirRx \/ FreeRun \/ Attach \/ AdcStart \/ SampleClock

Host ==
    \/ \E e \in Encodings, m \in Modes : Config(e, m)
    \/ \E blob \in Blobs, auto \in BOOLEAN : Transmit(blob, auto)
    \/ Listen \/ Stop

TimerIsr == BitIsr \/ SampleIsr \/ CompareIsr

Next == Statement \/ Host \/ Forward \/ Poll \/ EdgeIsr \/ TimerIsr \/ Tick

\* The main loop, the timer and its interrupt go on; commands and light need not come.
Spec == Init /\ [][Next]_vars /\ WF_vars(Statement) /\ WF_vars(TimerIsr) /\ WF_vars(Tick)

-----------------------------------------------------------------------------
(* Properties                                                              *)

TypeOK ==
    /\ board \in Boards /\ dir \in {"idle", "tx", "rx"}
    /\ cfg \in [enc : Encodings, mode : Modes, ready : BOOLEAN] /\ setup.mode \in Modes
    /\ cbuf.enc \in Encodings /\ cbuf.mode \in Modes /\ cbuf.blob \in Seq(Byte)
    /\ timer.use \in Uses /\ timer.count \in 0 .. (BitTicks - 1)
    /\ {timer.on, timer.irq, timer.flag, edges, adc, led} \subseteq BOOLEAN
    /\ late \in 0 .. Latency /\ age \in 0 .. AgeCap
    /\ Len(bits) <= FrameBits /\ left \in 0 .. 255
    /\ rx \in [Modes -> {"idle"} \cup Kinds] /\ Range(ring) \cup host \subseteq Kinds
    /\ asked \in Blobs \cup {<<>>}

\* The light of a CMD_TX is its bytes and nothing else: a start bit, the data from
\* the low bit up, a stop bit, each cell a bit long but for the interrupt's latency, a
\* stop bit at least that, and all of them before MSG_TX_DONE (send_blob, TC4_Handler,
\* the RMT symbols). The LED is not left on.
Cells(blob) ==
    [i \in 1 .. Len(blob) * FrameBits |->
        LET k == (i - 1) % FrameBits
        IN  IF k = 0 THEN 0 ELSE IF k > DataBits THEN 1 ELSE blob[(i - 1) \div FrameBits + 1][k]]
LightIsFrames ==
    /\ IsPrefix(line, Cells(asked))
    /\ At("led_off") => line = Cells(asked)
    /\ led => line # <<>> /\ Last(line) = 0

\* What the host is given was received from its first edge to its last under the
\* configuration this session was entered with, whatever interrupts still run while
\* a CMD_CONFIG or a change of direction takes effect statement by statement.
NoMixedByte == "mixed" \notin host

\* When the modem is back in its loop in RX, its answer sent, the front end of the
\* configured mode runs, and a byte under way will be ended by a compare. (Where the
\* ESP32-C3's analog_start fails, it does not run and nobody is told.)
FrontEndReady ==
    AtEase /\ dir = "rx" =>
        /\ setup = cfg
        /\ Interrupts => /\ timer.on /\ Serves
                         /\ cfg.mode = "analog" => timer.irq
                         /\ cfg.mode = "digital" => edges /\ (rx["digital"] # "idle" => timer.irq)

\* While the ring is reset nothing can append to it, so that the two writes of the
\* reset need no lock; RxRing takes this for granted. (An edge that falls between two
\* statements of the XIAO's enter_idle may leave MC0 enabled: its timer is off then.)
RingResetAlone ==
    At("reset_rx") \/ (At("dir_rx") /\ board # "samd21") => ~edges /\ ~(timer.on /\ timer.irq)

\* A transmission ends: the loop that waits for the bit clock is left.
TxEnds == (dir = "tx") ~> (dir # "tx")
====
