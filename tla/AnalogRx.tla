---- MODULE AnalogRx ----
(***************************************************************************)
(* The analog receiver: a slicer keeps a dark and a light envelope of the  *)
(* ADC's samples, and a state machine cuts the sliced samples into bits    *)
(* and bytes. A tick of the line is a sample, BitTicks the oversampling.   *)
(* The XIAO and the UNO run the same code on ADCs of 12 and 10 bits; the   *)
(* ESP32-C3 has a slicer of its own and no guards.                         *)
(***************************************************************************)
EXTENDS OpticalLine

\* A front also has the ADC's levels: dark and light, how far behind the first
\* sample after an edge is (lag, in halves), the shifts of the ambient light, and
\* for how many ticks stray light falls on the receiver before the burst.
CONSTANT MaxChars \* characters of a burst

VARIABLES
    sent,    \* characters begun
    stray,   \* ticks of stray light still to come
    ambient, \* the ambient light: added to both levels
    due,     \* the sample of this tick is not processed yet
    env,     \* [hi, lo]: the dark and the light envelope
    line,    \* a_line_light: the classifier's last verdict
    rx       \* the receiver's state machine

vars == <<lineVars, sent, stray, ambient, due, env, line, rx>>

Esp32 == front.board = "esp32c3"
Nrz == front.enc = "nrz"

\* A_ADC_MAX, A_MIN_CONTRAST, and A_ENV_Q as a factor (the ESP32 keeps whole counts).
AdcMax == [samd21 |-> 4095, uno |-> 1023, esp32c3 |-> 4095]
Squelch == [samd21 |-> 60, uno |-> 15, esp32c3 |-> 48]
Counts == 0 .. AdcMax[front.board]
MinContrast == Squelch[front.board]
Scale == IF Esp32 THEN 1 ELSE 64

ASSUME AnalogAssumption ==
    /\ MaxChars \in Nat
    /\ \A f \in Fronts :
        /\ 0 \in f.ambients /\ f.ambients \subseteq Int
        /\ \A a \in f.ambients : {f.dark + a, f.light + a} \subseteq 0 .. AdcMax[f.board]
        /\ {f.dark, f.light} \subseteq Int /\ f.lag \in 0 .. 2 /\ f.strays \subseteq Nat

SatBits == 15
ArmSamples == BitTicks                  \* A_ARM_BITS bits
LastSample == BitTicks - 1
SamplePoint == (BitTicks * 2) \div 3
PulseWindow == BitTicks \div 2

-----------------------------------------------------------------------------
(* The samples                                                             *)

Level(lit) == (IF lit THEN front.light ELSE front.dark) + ambient
Bright == Light \/ stray > 0
WasBright == (sender.phase > 0 /\ Lit(sender, sender.phase - 1)) \/ stray > 0
Sample == Level(Bright) + (front.lag * (Level(WasBright) - Level(Bright))) \div 2

-----------------------------------------------------------------------------
(* The slicer                                                              *)

Attack(e, s) == e + (s - e) \div 4
Decay(e, s) == e + (s - e) \div (IF rx.on THEN 2048 ELSE 128)

\* Each envelope jumps towards a new extreme and creeps back to the signal.
High(hi, s) == IF s > hi THEN Attack(hi, s) ELSE Decay(hi, s)
LowOnlyRises(lo, s) == IF s < lo THEN lo ELSE Decay(lo, s)
Low(lo, s) == IF s < lo THEN Attack(lo, s) ELSE Decay(lo, s)

Track(e, adc) == LET s == adc * Scale IN [hi |-> High(e.hi, s), lo |-> Low(e.lo, s)]

Crossed(e) == e.hi < e.lo
Collapsed(e) == LET mid == (e.hi + e.lo) \div 2 IN [hi |-> mid, lo |-> mid]

\* ESP32: idle, the dark level follows everything that is no pulse, and a pulse is
\* the light level at once; inside a byte the extremes.
EspIdle(e, s) ==
    IF s + MinContrast >= e.hi
    THEN [hi |-> (31 * e.hi + s) \div 32, lo |-> (127 * e.lo + s) \div 128]
    ELSE [hi |-> e.hi, lo |-> s]
EspInByte(e, s) ==
    [hi |-> IF s > e.hi THEN (3 * e.hi + s) \div 4 ELSE e.hi,
     lo |-> IF s < e.lo THEN s ELSE (2047 * e.lo + s) \div 2048]

Slicer(e, adc) ==
    IF Esp32 THEN IF rx.on THEN EspInByte(e, adc) ELSE EspIdle(e, adc)
    ELSE IF Crossed(Track(e, adc)) THEN Collapsed(Track(e, adc)) ELSE Track(e, adc)

\* The levels and thresholds of envelopes e, in counts.
Dark(e) == e.hi \div Scale
Span(e) == IF Dark(e) > e.lo \div Scale THEN Dark(e) - e.lo \div Scale ELSE 0
Mid(e) == (Dark(e) + e.lo \div Scale) \div 2
EspHysteresis(e) == IF Span(e) \div 8 < 8 THEN 8 ELSE Span(e) \div 8
Hysteresis(e) == IF Esp32 THEN EspHysteresis(e) ELSE Span(e) \div 4

\* The ESP32 asks for an absolute drop before a pulse has shown how deep they are.
Flat(e) == Esp32 /\ Span(e) < MinContrast

IsLight(e, adc) ==
    \/ Flat(e) /\ adc + MinContrast < Dark(e)
    \/ ~Flat(e) /\ adc < Mid(e) - Hysteresis(e)
    \/ ~Flat(e) /\ line /\ adc < Mid(e) + Hysteresis(e)

-----------------------------------------------------------------------------
(* The state machine. Nothing reads the fields of a byte while it is idle. *)

Idle(armed, run) ==
    [on |-> FALSE, armed |-> armed, run |-> run, samp |-> 0, bit |-> 0, data |-> {},
     pulse |-> FALSE, lvl |-> 0, lmin |-> 0, dmax |-> 0, lightRun |-> 0]

\* A start bit is anchored at the first sample well below the dark level.
Begin(adc, lit) ==
    [Idle(FALSE, 0) EXCEPT !.on = TRUE, !.pulse = IF Esp32 THEN lit ELSE TRUE,
                           !.lvl = adc, !.lmin = adc, !.dmax = adc]

RealPulse(e, adc) == adc < Dark(e) - MinContrast

IdleDark(e, adc) ==
    /\ ~rx.on /\ ~RealPulse(e, adc)
    /\ LET run == IF rx.run < ArmSamples THEN rx.run + 1 ELSE ArmSamples IN
         rx' = Idle(rx.armed \/ run >= ArmSamples, run)
    /\ Dropped

IdleUnsettled(e, adc) ==
    /\ ~rx.on /\ RealPulse(e, adc) /\ ~rx.armed
    /\ rx' = Idle(FALSE, 0)
    /\ Dropped

\* One sample of the bit: NRZ reads its level once, IrDA looks for a pulse early on.
Pulsed(r, e, adc, lit) ==
    IF Nrz
    THEN IF Esp32 /\ r.samp = SamplePoint THEN adc < Mid(e) ELSE r.pulse
    ELSE r.pulse \/ (r.samp < PulseWindow /\ lit)
Accumulated(r, e, adc, lit) ==
    [r EXCEPT !.lmin = IF adc < @ THEN adc ELSE @,
              !.dmax = IF adc > @ THEN adc ELSE @,
              !.lvl = IF Nrz /\ r.samp = SamplePoint THEN adc ELSE @,
              !.pulse = Pulsed(r, e, adc, lit),
              !.lightRun = IF lit THEN @ + 1 ELSE 0]

SaturatedEarly(r) == ~Esp32 /\ r.lightRun > BitTicks
Saturated(r) == ~Esp32 /\ r.lightRun > SatBits * BitTicks

\* The bit is a 1: NRZ on the XIAO and the UNO compares with the midpoint of now.
IsOne(r, e) == IF Nrz /\ ~Esp32 THEN r.lvl >= Mid(e) ELSE ~r.pulse

NextBit(r) == [r EXCEPT !.bit = @ + 1, !.samp = 0, !.pulse = FALSE]

AnyContrast(r) == TRUE
Contrasted(r) == Esp32 \/ r.dmax - r.lmin >= MinContrast

\* A clean stop bit is the idle before the next byte; a bad one demands a new idle.
FinalizeFrame(r, ok) ==
    /\ rx' = Idle(ok \/ Esp32, 0)
    /\ IF ok /\ Contrasted(r) THEN Received(r.data) ELSE Dropped

PastStop(r) == r.bit > StopBit
AtStop(r) == r.bit = StopBit

FinalizeBit(r, e) ==
    IF AtStop(r) THEN FinalizeFrame(r, IsOne(r, e))
    ELSE /\ Dropped
         /\ rx' = IF r.bit = 0 /\ IsOne(r, e) THEN Idle(Esp32, 0) \* false start
                  ELSE IF r.bit > 0 /\ IsOne(r, e) THEN NextBit([r EXCEPT !.data = @ \cup {r.bit}])
                  ELSE NextBit(r)

InByte(r, e, adc, lit) ==
    LET a == Accumulated(r, e, adc, lit) IN
    IF Saturated(a) THEN rx' = Idle(FALSE, 0) /\ Dropped
    ELSE IF a.samp + 1 < BitTicks THEN rx' = [a EXCEPT !.samp = @ + 1] /\ Dropped
    ELSE FinalizeBit(a, e)

BeginByte(e, adc, lit) ==
    /\ ~rx.on /\ RealPulse(e, adc) /\ rx.armed
    /\ InByte(Begin(adc, lit), e, adc, lit)

\* a_process_sample, analog_process_sample: envelopes, verdict, state machine.
ProcessSample ==
    /\ due
    /\ due' = FALSE
    /\ env' = Slicer(env, Sample)
    /\ line' = IsLight(env', Sample)
    /\ \/ IdleDark(env', Sample)
       \/ IdleUnsettled(env', Sample)
       \/ BeginByte(env', Sample, line')
       \/ rx.on /\ InByte(rx, env', Sample, line')
    /\ UNCHANGED <<front, airVars, sent, stray, ambient>>

-----------------------------------------------------------------------------
(* The burst: MaxChars characters; the ambient light shifts between two.   *)

Begins ==
    /\ stray = 0 /\ (sender.on \/ sent = 0) /\ sent < MaxChars
    /\ SenderStarts
    /\ sent' = sent + 1
    /\ ambient' \in front.ambients
    /\ UNCHANGED stray

Ends == (sent > 0 \/ quiet < QuietTicks) /\ stray = 0 /\ SenderStops /\ UNCHANGED <<sent, stray, ambient>>
GoesOn == SenderGoesOn /\ UNCHANGED <<sent, stray, ambient>>

StrayLight ==
    /\ stray > 0
    /\ stray' = stray - 1
    /\ quiet' = 0
    /\ UNCHANGED <<sender, owed, sent, ambient>>

NextTick ==
    /\ ~due /\ due' = TRUE
    /\ Begins \/ Ends \/ GoesOn \/ StrayLight
    /\ UNCHANGED <<front, wrong, env, line, rx>>

\* enter_rx_analog, the first 32 samples of the ESP32: seeded from a dark line.
SeedLow == IF Esp32 THEN front.dark
           ELSE IF front.dark > MinContrast THEN front.dark - MinContrast ELSE 0
Seed == [hi |-> front.dark * Scale, lo |-> SeedLow * Scale]

Init ==
    /\ LineInit
    /\ sent = 0 /\ stray \in front.strays /\ ambient = 0 /\ due = FALSE /\ line = FALSE
    /\ rx = Idle(TRUE, ArmSamples)
    /\ env = Slicer(Seed, front.dark)

Next == NextTick \/ ProcessSample

Spec == Init /\ [][Next]_vars

-----------------------------------------------------------------------------
(* Properties                                                              *)

Weak == front.dark - front.light < MinContrast

TypeOK ==
    /\ LineTypeOK
    /\ sent \in 0 .. MaxChars /\ stray \in Nat /\ ambient \in front.ambients /\ {due, line} \subseteq BOOLEAN
    /\ {env.hi, env.lo} \subseteq 0 .. AdcMax[front.board] * Scale
    /\ rx.samp \in 0 .. BitTicks - 1 /\ rx.bit \in 0 .. StopBit /\ rx.data \subseteq Bits
    /\ {rx.on, rx.armed, rx.pulse} \subseteq BOOLEAN /\ rx.run \in 0 .. ArmSamples
    /\ {rx.lvl, rx.lmin, rx.dmax} \subseteq Counts
    /\ rx.lightRun \in 0 .. EndBit * BitTicks

\* The dark envelope never falls below the light one, whatever the samples: the
\* branch that collapses crossed envelopes is never taken (a_track_env).
NeverCrossed == ~Esp32 => ~Crossed(Track(env, Sample))

\* Every byte of a burst is received, also after stray light, also when the ambient
\* light shifts between two, and the saturation guard cuts none off: two dark bits
\* after it nothing is owed and the receiver waits, armed, for the next one. But light
\* weaker than the squelch yields no byte: either it starts none, or, when the dark
\* envelope is still at a brighter moment's level, the frame's own contrast rejects it
\* (a_process_sample: real_pulse; a_finalize_frame: contrast).
NothingMissed ==
    IF Weak THEN Len(owed) = sent
    ELSE quiet = QuietTicks => owed = <<>> /\ ~rx.on /\ rx.armed
====
