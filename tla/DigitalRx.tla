---- MODULE DigitalRx ----
(***************************************************************************)
(* The digital receiver of the three modems: bytes out of the edges of the *)
(* phototransistor's pin and the compare interrupt of a free-running       *)
(* counter (XIAO SAMD21, UNO), or out of a polling loop (ESP32-C3). A byte *)
(* may follow its predecessor so closely that its start edge and the       *)
(* predecessor's end-of-byte compare meet: their order is the model's main *)
(* concern.                                                                *)
(***************************************************************************)
EXTENDS OpticalLine

CONSTANT CountMod \* the counter wraps here (2^16)

\* A front says, by resync, whether it is built with RX_NRZ_RESYNC, which the XIAO alone
\* has, and which is 0 in the build that is shipped.
ASSUME ReceiverAssumption ==
    /\ CountMod \in Nat /\ 2 * (EndBit + 1) * BitTicks < CountMod
    /\ \A f \in Fronts : f.resync \in BOOLEAN /\ (f.resync => f.board = "samd21")

VARIABLES
    count,    \* COUNT, TCNT1 or micros()
    edge,     \* when the edge came that waits for its interrupt, or Never
    cc,       \* CC0 or OCR1A while the compare interrupt is enabled, else Never
    compare,  \* MC0 or OCF1A: COUNT has met cc
    clearing, \* the UNO's compare handler is about to clear ICF1
    late,     \* ticks the pending work has waited
    rx,       \* the byte being received, or Idle
    was       \* ESP32: g_was_light

vars == <<lineVars, count, edge, cc, compare, clearing, late, rx, was>>

Counts == 0 .. (CountMod - 1)
Wrap(n) == n % CountMod
Never == -1
Interrupts == front.board # "esp32c3"

\* g_byte_t0, g_byte_nrz_index (g_rx_index), the 1 bits of g_byte_data and the cells
\* of g_irda_pulse_mask; nothing reads them while g_rx_state is ST_IDLE.
Byte(t, i, d, m) == [t0 |-> t, index |-> i, data |-> d, mask |-> m]
Idle == Byte(Never, 0, {}, {})
Receiving == rx # Idle

-----------------------------------------------------------------------------
(* Decoding                                                                *)

\* The pulse mask: a cell without a pulse is a 1; no pulse in the stop cell.
FinishMask(m) == IF StopBit \notin m THEN Received(Bits \ m) ELSE Dropped

\* Whole bits from t0 to time t, rounded.
CellOf(t) == (Wrap(t - rx.t0) + HalfBit) \div BitTicks

\* A start edge; its pulse is in the mask already.
Start(t, first) == Byte(t, first, {}, {0})
EndTimeUnwrapped(t) == t + EndBit * BitTicks
EndTime(t) == Wrap(t + EndBit * BitTicks)

-----------------------------------------------------------------------------
(* pt_edge_isr, TIMER1_CAPT_vect: served before a pending compare. The UNO *)
(* has the time of the edge in ICR1; the SAMD21 reads COUNT.               *)

EdgeStart(t) ==
    /\ ~Receiving
    /\ rx' = Start(t, 1)
    /\ cc' = IF front.enc = "irda" THEN EndTime(t) ELSE Wrap(t + BitTicks + HalfBit)
    /\ compare' = FALSE
    /\ Dropped

EdgePulse(t) ==
    /\ Receiving /\ front.enc = "irda" /\ CellOf(t) < EndBit
    /\ rx' = [rx EXCEPT !.mask = @ \cup ({CellOf(t)} \ {0})]
    /\ UNCHANGED <<cc, compare>> /\ Dropped

KeepCompare == compare
CompareAfterPivot == IF front.board = "uno" THEN FALSE ELSE compare

\* The next byte's start edge beats the end-of-byte compare.
EdgePivot(t) ==
    /\ Receiving /\ front.enc = "irda" /\ CellOf(t) >= EndBit
    /\ FinishMask(rx.mask)
    /\ rx' = Start(t, rx.index)
    /\ cc' = EndTime(t)
    /\ compare' = CompareAfterPivot

Resyncs == front.resync /\ rx.index <= DataBits

\* NRZ: nothing, unless the bit phase is re-anchored to an edge between data bits.
EdgeNrz(t) ==
    /\ Receiving /\ front.enc = "nrz"
    /\ IF Resyncs
       THEN cc' = Wrap(t + HalfBit) /\ rx' = [rx EXCEPT !.t0 = Wrap(t - BitTicks * rx.index)]
       ELSE UNCHANGED <<cc, rx>>
    /\ UNCHANGED compare /\ Dropped

EdgeIsr ==
    /\ edge # Never /\ ~clearing
    /\ edge' = Never /\ late' = 0
    /\ LET t == IF front.board = "uno" THEN edge ELSE count IN
         EdgeStart(t) \/ EdgePulse(t) \/ EdgePivot(t) \/ EdgeNrz(t)
    /\ UNCHANGED <<front, airVars, count, clearing, was>>

-----------------------------------------------------------------------------
(* TC4_Handler, TIMER1_COMPA_vect                                          *)

CompareBegins ==
    /\ compare /\ edge = Never /\ ~clearing
    /\ compare' = FALSE /\ late' = 0
    /\ UNCHANGED <<front, airVars, count, edge, was>>

\* The end of a byte: wait for the next edge; the UNO forgets what came meanwhile.
EndByte == rx' = Idle /\ cc' = Never /\ clearing' = (front.board = "uno")

CompareIrda ==
    /\ front.enc = "irda" /\ CompareBegins
    /\ FinishMask(rx.mask) /\ EndByte

CompareNrzBit ==
    /\ front.enc = "nrz" /\ rx.index <= DataBits /\ CompareBegins
    /\ rx' = [rx EXCEPT !.data = IF Light THEN @ ELSE @ \cup {rx.index}, !.index = @ + 1]
    /\ cc' = Wrap(rx.t0 + BitTicks * (rx.index + 1) + HalfBit)
    /\ Dropped /\ UNCHANGED clearing

StopInverted == Light
StopIsMark == ~Light

CompareNrzStop ==
    /\ front.enc = "nrz" /\ rx.index = StopBit /\ CompareBegins
    /\ IF StopIsMark THEN Received(rx.data) ELSE Dropped
    /\ EndByte

\* TIFR1 = _BV(ICF1)
ClearEdge ==
    /\ clearing
    /\ clearing' = FALSE /\ edge' = Never /\ late' = 0
    /\ UNCHANGED <<front, airVars, owed, wrong, count, cc, compare, rx, was>>

-----------------------------------------------------------------------------
(* ESP32-C3: poll_digital_rx                                               *)

Rising == Light /\ ~was
Elapsed(target) == Wrap(count - target) < CountMod \div 2

PollIdle ==
    /\ ~Receiving
    /\ rx' = IF Rising THEN Start(count, 0) ELSE Idle
    /\ Dropped

SampleTime == Wrap(rx.t0 + BitTicks + HalfBit + rx.index * BitTicks)

PollNrz ==
    /\ Receiving /\ front.enc = "nrz"
    /\ \/ ~Elapsed(SampleTime) /\ UNCHANGED rx /\ Dropped
       \/ /\ Elapsed(SampleTime) /\ rx.index < DataBits
          /\ rx' = [rx EXCEPT !.data = IF Light THEN @ ELSE @ \cup {rx.index + 1}, !.index = @ + 1]
          /\ Dropped
       \/ /\ Elapsed(SampleTime) /\ rx.index = DataBits
          /\ IF Light THEN Received(rx.data) ELSE Dropped \* finish_rx_byte(.., !light)
          /\ rx' = Idle

PollIrda ==
    /\ Receiving /\ front.enc = "irda"
    /\ LET m == IF Rising /\ CellOf(count) < EndBit THEN rx.mask \cup {CellOf(count)} ELSE rx.mask
       IN  IF Elapsed(EndTime(rx.t0))
           THEN FinishMask(m) /\ rx' = Idle
           ELSE Dropped /\ rx' = [rx EXCEPT !.mask = m]

Poll ==
    /\ ~Interrupts /\ late > 0
    /\ PollIdle \/ PollNrz \/ PollIrda
    /\ was' = Light /\ late' = 0
    /\ UNCHANGED <<front, airVars, count, edge, cc, compare, clearing>>

-----------------------------------------------------------------------------
(* Time: an interrupt waits Latency ticks at most, the ESP32 polls at least*)
(* once a tick.                                                            *)

Pending == ~Interrupts \/ edge # Never \/ compare \/ clearing
Allowed == IF Interrupts THEN Latency ELSE 1

Tick ==
    /\ Pending => late < Allowed
    /\ late' = IF Pending THEN late + 1 ELSE 0
    /\ SenderGoesOn \/ SenderStarts \/ SenderStops
    /\ count' = Wrap(count + 1)
    /\ edge' = IF Interrupts /\ Rises(sender') THEN count' ELSE edge
    /\ compare' = (compare \/ count' = cc)
    /\ UNCHANGED <<front, wrong, cc, clearing, rx, was>>

\* enter_rx_digital, reset_rx
Init ==
    /\ LineInit
    /\ count = 0 /\ edge = Never /\ cc = Never /\ compare = FALSE /\ clearing = FALSE
    /\ late = 0 /\ rx = Idle /\ was = FALSE

Next ==
    \/ Tick \/ EdgeIsr \/ CompareIrda \/ CompareNrzBit \/ CompareNrzStop \/ ClearEdge \/ Poll

Spec == Init /\ [][Next]_vars

-----------------------------------------------------------------------------
(* Properties                                                              *)

TypeOK ==
    /\ LineTypeOK
    /\ count \in Counts /\ edge \in Counts \cup {Never} /\ cc \in Counts \cup {Never}
    /\ {compare, clearing, was} \subseteq BOOLEAN /\ late \in 0 .. (Latency + 1)
    /\ rx.t0 \in Counts \cup {Never} /\ rx.index \in 0 .. StopBit
    /\ rx.data \subseteq Bits /\ rx.mask \subseteq 0 .. StopBit

\* Every byte sent is received: when the line has been dark for two bits the
\* receiver is back in idle and owes the host nothing.
NothingMissed == quiet = QuietTicks => owed = <<>> /\ ~Receiving
====
