---- MODULE OpticalLine ----
(***************************************************************************)
(* The light on the phototransistor: a sender's characters, a cell a bit   *)
(* and a 0 light, for the whole cell (NRZ) or a pulse at its start (IrDA); *)
(* and the account of what a receiver owes. The receivers extend it.       *)
(***************************************************************************)
EXTENDS Integers, Sequences

CONSTANTS
    Fronts,   \* receivers and senders that may be built: [board, enc, gaps, ..]
    DataBits, \* bits of a byte (8)
    BitTicks, \* ticks of a bit
    Pulse,    \* ticks an IrDA pulse lasts
    Drifts,   \* ticks the sender's clock slips in the middle of a character
    Latency   \* ticks a receiver may lag behind the light

ASSUME LineAssumption ==
    /\ \A f \in Fronts : f.board \in {"samd21", "uno", "esp32c3"} /\ f.enc \in {"irda", "nrz"}
    /\ DataBits \in Nat \ {0} /\ BitTicks \in Nat \ {0} /\ Latency \in Nat
    /\ Pulse \in 1 .. BitTicks \div 2

VARIABLES
    front,  \* the receiver and the sender of this behaviour
    sender, \* [on, data, drift, gap, phase]: the character on the air
    quiet,  \* ticks since the last character
    owed,   \* ghost: bytes begun and not yet received
    wrong   \* ghost: a byte was received that had not been sent

airVars == <<sender, quiet>>
lineVars == <<front, airVars, owed, wrong>>

StopBit == DataBits + 1
EndBit == DataBits + 2
HalfBit == BitTicks \div 2
Bits == 1 .. DataBits

-----------------------------------------------------------------------------
Zeros(s) == {0} \cup (Bits \ s.data)
CellStart(s, k) == k * BitTicks + (IF 2 * k > DataBits THEN s.drift ELSE 0)
Lit(s, p) ==
    s.on /\ \E k \in Zeros(s) :
        p \in CellStart(s, k) .. (IF front.enc = "irda" THEN CellStart(s, k) + Pulse
                                                        ELSE CellStart(s, k + 1)) - 1
Light == Lit(sender, sender.phase)
Rises(s) == Lit(s, s.phase) /\ (s.phase = 0 \/ ~Lit(s, s.phase - 1))
LastPhase(s) == EndBit * BitTicks + s.gap - 1

Silence == [on |-> FALSE, data |-> {}, drift |-> 0, gap |-> 0, phase |-> 0]
QuietTicks == 2 * BitTicks + Latency

Characters == [on : {TRUE}, data : SUBSET Bits, drift : Drifts, gap : front.gaps, phase : {0}]

\* The sender's next tick.
Going == sender.on /\ sender.phase < LastPhase(sender)
SenderGoesOn == Going /\ sender' = [sender EXCEPT !.phase = @ + 1] /\ UNCHANGED <<quiet, owed>>
SenderStarts ==
    /\ ~Going /\ (sender.on \/ quiet = QuietTicks)
    /\ sender' \in Characters
    /\ owed' = Append(owed, sender'.data)
    /\ quiet' = 0
SenderStops ==
    /\ ~Going
    /\ sender' = Silence
    /\ quiet' = IF quiet < QuietTicks THEN quiet + 1 ELSE quiet
    /\ UNCHANGED owed

-----------------------------------------------------------------------------
(* The account                                                             *)

\* A byte into the ring: the ghosts note whether it is the next one sent.
Received(b) ==
    IF owed # <<>> /\ Head(owed) = b
    THEN owed' = Tail(owed) /\ UNCHANGED wrong
    ELSE wrong' = TRUE /\ UNCHANGED owed

Dropped == UNCHANGED <<owed, wrong>>

LineInit ==
    /\ front \in Fronts
    /\ sender = Silence /\ quiet = QuietTicks /\ owed = <<>> /\ wrong = FALSE

LineTypeOK ==
    /\ front \in Fronts
    /\ sender.on \in BOOLEAN /\ sender.data \subseteq Bits /\ quiet \in 0 .. QuietTicks
    /\ owed \in Seq(SUBSET Bits) /\ wrong \in BOOLEAN

\* Nothing is received that was not sent: every byte is the next one the sender
\* began (byte_received).
NoFalseByte == ~wrong
====
