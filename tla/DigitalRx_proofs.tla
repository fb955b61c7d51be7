---- MODULE DigitalRx_proofs ----
(***************************************************************************)
(* What holds of the digital receivers for every width of the bits, every  *)
(* latency and drift within the margins and every sender: the types of     *)
(* their state, that they receive every byte, and none that was not sent.  *)
(***************************************************************************)
EXTENDS DigitalRx, SequenceTheorems, TLAPS

-----------------------------------------------------------------------------
(* The counter                                                             *)

\* A reading is a count; a small time reads as itself.
LEMMA WrapCounts ==
    ASSUME NEW n \in Int
    PROVE  Wrap(n) \in Counts
<1>1. CountMod \in Nat \ {0}
  BY LineAssumption, ReceiverAssumption DEF EndBit
<1> QED
  BY <1>1 DEF Wrap, Counts

LEMMA WrapUnique ==
    ASSUME NEW n \in Int, NEW q \in Int, NEW r \in Counts, n = q * CountMod + r
    PROVE  Wrap(n) = r
<1>1. CountMod \in Nat \ {0}
  BY LineAssumption, ReceiverAssumption DEF EndBit
<1> QED
  BY <1>1 DEF Wrap, Counts

LEMMA WrapSplit ==
    ASSUME NEW n \in Int
    PROVE  \E q \in Int : n = q * CountMod + Wrap(n)
<1>1. CountMod \in Nat \ {0}
  BY LineAssumption, ReceiverAssumption DEF EndBit
<1>2. n \div CountMod \in Int
  BY <1>1
<1>3. n = (n \div CountMod) * CountMod + (n % CountMod)
  BY <1>1
<1> QED
  BY <1>2, <1>3 DEF Wrap

\* What is added to a reading is added to the time read.
LEMMA WrapPlus ==
    ASSUME NEW x \in Int, NEW y \in Int
    PROVE  Wrap(Wrap(x) + y) = Wrap(x + y)
<1>0. CountMod \in Nat \ {0}
  BY LineAssumption, ReceiverAssumption DEF EndBit
<1>1. PICK q \in Int : x = q * CountMod + Wrap(x)
  BY WrapSplit
<1>2. PICK r \in Int : x + y = r * CountMod + Wrap(x + y)
  BY WrapSplit
<1>3. Wrap(x) \in Int /\ Wrap(x + y) \in Counts
  BY <1>0, WrapCounts DEF Counts
<1>4. Wrap(x) + y = (r - q) * CountMod + Wrap(x + y)
  BY <1>0, <1>1, <1>2, <1>3 DEF Counts
<1>5. r - q \in Int /\ Wrap(x) + y \in Int
  BY <1>3
<1> HIDE DEF Wrap
<1> QED
  BY <1>3, <1>4, <1>5, WrapUnique

LEMMA WrapMinus ==
    ASSUME NEW x \in Int, NEW y \in Int
    PROVE  Wrap(y - Wrap(x)) = Wrap(y - x)
<1>0. CountMod \in Nat \ {0}
  BY LineAssumption, ReceiverAssumption DEF EndBit
<1>1. PICK q \in Int : x = q * CountMod + Wrap(x)
  BY WrapSplit
<1>2. PICK r \in Int : y - x = r * CountMod + Wrap(y - x)
  BY WrapSplit
<1>3. Wrap(x) \in Int /\ Wrap(y - x) \in Counts
  BY <1>0, WrapCounts DEF Counts
<1>4. y - Wrap(x) = (r + q) * CountMod + Wrap(y - x)
  BY <1>0, <1>1, <1>2, <1>3 DEF Counts
<1>5. r + q \in Int /\ y - Wrap(x) \in Int
  BY <1>3
<1> QED
  BY <1>3, <1>4, <1>5, WrapUnique

\* n ticks before it reads c the counter read x.
Since(c, x, n) == x \in Counts /\ c = Wrap(x + n)

LEMMA CountsAreInts ==
    /\ CountMod \in Nat \ {0} /\ \A c \in Counts : c \in Int /\ Wrap(c) = c /\ c # Never
    /\ \A n \in 0 .. CountMod - 1 : Wrap(n) = n
<1>1. CountMod \in Nat \ {0}
  BY LineAssumption, ReceiverAssumption DEF EndBit
<1>2. ASSUME NEW c \in Counts PROVE c \in Int /\ Wrap(c) = c /\ c # Never
  <2>1. c \in Int /\ c = 0 * CountMod + c /\ 0 \in Int
    BY <1>1 DEF Counts
  <2>2. Wrap(c) = c
    BY <2>1, WrapUnique
  <2> QED
    BY <1>1, <2>1, <2>2 DEF Counts, Never
<1>3. ASSUME NEW n \in 0 .. CountMod - 1 PROVE Wrap(n) = n
  BY <1>1, <1>2 DEF Counts
<1> QED
  BY <1>1, <1>2, <1>3

LEMMA SinceNow ==
    ASSUME NEW c \in Counts
    PROVE  Since(c, c, 0)
<1>1. c \in Int /\ Wrap(c) = c
  BY CountsAreInts
<1>2. c + 0 = c
  BY <1>1
<1> QED
  BY <1>1, <1>2 DEF Since

\* A tick later.
LEMMA SinceTick ==
    ASSUME NEW c, NEW x, NEW n \in Int, Since(c, x, n)
    PROVE  Since(Wrap(c + 1), x, n + 1)
<1>1. x \in Int /\ x \in Counts
  BY CountsAreInts DEF Since
<1>2. x + n \in Int /\ (x + n) + 1 = x + (n + 1)
  BY <1>1
<1>3. Wrap(Wrap(x + n) + 1) = Wrap((x + n) + 1)
  BY <1>2, WrapPlus
<1>4. Wrap(c + 1) = Wrap(x + (n + 1))
  BY <1>2, <1>3 DEF Since
<1> QED
  BY <1>1, <1>4 DEF Since

\* The time between two readings.
LEMMA SinceBetween ==
    ASSUME NEW c, NEW x, NEW y, NEW n \in Int, NEW m \in Int, Since(c, x, n), Since(c, y, m),
           m <= n, n - m < CountMod
    PROVE  Wrap(y - x) = n - m
<1>0. CountMod \in Nat \ {0} /\ x \in Int /\ y \in Int /\ x \in Counts /\ y \in Counts
  BY CountsAreInts DEF Since
<1>1. Wrap(y + m) = Wrap(x + n) /\ y + m \in Int /\ x + n \in Int
  BY <1>0 DEF Since
<1>2. PICK q \in Int : y + m = q * CountMod + Wrap(y + m)
  BY <1>1, WrapSplit
<1>3. PICK r \in Int : x + n = r * CountMod + Wrap(x + n)
  BY <1>1, WrapSplit
<1>4. Wrap(y + m) \in Int
  BY <1>1, WrapCounts, CountsAreInts
<1>5. y - x = (q - r) * CountMod + (n - m)
  BY <1>0, <1>1, <1>2, <1>3, <1>4
<1>6. y - x \in Int /\ q - r \in Int /\ n - m \in Counts
  BY <1>0 DEF Counts
<1> QED
  BY <1>5, <1>6, WrapUnique

\* The counter meets x + k when it is k ticks past x.
LEMMA SinceMeets ==
    ASSUME NEW c, NEW x, NEW n \in Int, NEW k \in Int, Since(c, x, n),
           0 <= n, n < CountMod, 0 <= k, k < CountMod
    PROVE  c = Wrap(x + k) <=> n = k
<1>0. CountMod \in Nat \ {0} /\ x \in Int /\ x \in Counts /\ x + n \in Int /\ x + k \in Int
  BY CountsAreInts DEF Since
<1>1. ASSUME Wrap(x + n) = Wrap(x + k) PROVE n = k
  <2>1. PICK q \in Int : x + n = q * CountMod + Wrap(x + n)
    BY <1>0, WrapSplit
  <2>2. PICK r \in Int : x + k = r * CountMod + Wrap(x + k)
    BY <1>0, WrapSplit
  <2>3. Wrap(x + n) \in Int
    BY <1>0, WrapCounts, CountsAreInts
  <2>4. n = (q - r) * CountMod + k /\ k = 0 * CountMod + k
    BY <1>0, <1>1, <2>1, <2>2, <2>3
  <2>5. n \in Counts /\ k \in Counts /\ q - r \in Int
    BY <1>0 DEF Counts
  <2>6. Wrap(n) = k
    BY <2>4, <2>5, WrapUnique
  <2> QED
    BY <2>5, <2>6, CountsAreInts
<1> QED
  BY <1>1 DEF Since

\* x + k is read n - k ticks ago.
LEMMA SinceShift ==
    ASSUME NEW c, NEW x, NEW n \in Int, NEW k \in Int, Since(c, x, n)
    PROVE  Since(c, Wrap(x + k), n - k)
<1>1. x \in Int /\ x + k \in Int /\ (x + k) + (n - k) = x + n
  BY CountsAreInts DEF Since
<1>2. Wrap(Wrap(x + k) + (n - k)) = Wrap((x + k) + (n - k))
  BY <1>1, WrapPlus
<1> QED
  BY <1>1, <1>2, WrapCounts DEF Since

-----------------------------------------------------------------------------
(* Types                                                                   *)

Senders ==
    [on : BOOLEAN, data : SUBSET Bits, drift : Drifts \cup {0}, gap : front.gaps \cup {0}, phase : Nat]
Records ==
    [t0 : Counts \cup {Never}, index : 0 .. StopBit, data : SUBSET Bits, mask : SUBSET (0 .. StopBit)]

LineTyped ==
    /\ front \in Fronts /\ sender \in Senders /\ quiet \in 0 .. QuietTicks
    /\ owed \in Seq(SUBSET Bits) /\ wrong \in BOOLEAN
    /\ sender.on => quiet = 0 /\ sender.drift \in Drifts /\ sender.gap \in front.gaps
    /\ ~sender.on => sender = Silence

\* The interrupt driven boards use a byte's index from 1 on and its compare while
\* they receive; the polling board has no interrupt.
Typed ==
    /\ LineTyped
    /\ count \in Counts /\ edge \in Counts \cup {Never} /\ cc \in Counts \cup {Never}
    /\ compare \in BOOLEAN /\ clearing \in BOOLEAN /\ was \in BOOLEAN
    /\ late \in 0 .. (Latency + 1)
    /\ rx \in Records
    /\ Interrupts /\ Receiving => rx.index >= 1
    /\ Interrupts /\ ~Receiving => cc = Never /\ ~compare
    /\ ~Interrupts => edge = Never /\ cc = Never /\ ~compare /\ ~clearing

LEMMA Numbers ==
    /\ DataBits \in Nat \ {0} /\ BitTicks \in Nat \ {0} /\ Latency \in Nat /\ HalfBit \in Nat
    /\ StopBit \in Nat /\ EndBit \in Nat /\ QuietTicks \in Nat /\ CountMod \in Nat \ {0}
    /\ BitTicks >= 2 * HalfBit /\ BitTicks <= 2 * HalfBit + 1
    /\ StopBit = DataBits + 1 /\ EndBit = DataBits + 2 /\ QuietTicks = 2 * BitTicks + Latency
    /\ Pulse \in Nat \ {0} /\ Pulse <= HalfBit
    /\ 2 * (EndBit + 1) * BitTicks < CountMod
BY LineAssumption, ReceiverAssumption, CountsAreInts DEF HalfBit, StopBit, EndBit, QuietTicks

LEMMA AccountTyped ==
    ASSUME owed \in Seq(SUBSET Bits), wrong \in BOOLEAN, NEW b, Received(b) \/ Dropped
    PROVE  owed' \in Seq(SUBSET Bits) /\ wrong' \in BOOLEAN
<1>1. CASE Dropped
  BY <1>1 DEF Dropped
<1>2. CASE Received(b)
  <2>1. wrong' \in BOOLEAN
    BY <1>2 DEF Received
  <2>2. owed' = owed \/ (owed # <<>> /\ owed' = Tail(owed))
    BY <1>2 DEF Received
  <2> QED
    BY <2>1, <2>2
<1> QED
  BY <1>1, <1>2

\* The byte in the mask is received, or dropped.
LEMMA MaskTyped ==
    ASSUME owed \in Seq(SUBSET Bits), wrong \in BOOLEAN, NEW m, FinishMask(m)
    PROVE  owed' \in Seq(SUBSET Bits) /\ wrong' \in BOOLEAN
BY AccountTyped DEF FinishMask

\* What an interrupt or a poll leaves of the line.
LEMMA LineKept ==
    ASSUME LineTyped, UNCHANGED <<front, airVars>>, owed' \in Seq(SUBSET Bits), wrong' \in BOOLEAN
    PROVE  LineTyped'
BY DEF LineTyped, Senders, airVars, Silence

LEMMA StartTyped ==
    ASSUME NEW t \in Counts, NEW i \in 0 .. StopBit
    PROVE  /\ Start(t, i) \in Records /\ Start(t, i) # Idle
           /\ Start(t, i).t0 = t /\ Start(t, i).index = i /\ Start(t, i).data = {}
           /\ Start(t, i).mask = {0}
<1>1. {0} \in SUBSET (0 .. StopBit) /\ t # Never
  BY Numbers, CountsAreInts
<1> QED
  BY <1>1 DEF Start, Byte, Records, Idle

LEMMA IdleTyped == Idle \in Records
BY Numbers DEF Idle, Byte, Records

LEMMA CellTyped ==
    ASSUME NEW t \in Counts, rx \in Records
    PROVE  CellOf(t) \in Nat /\ (rx.t0 \in Counts => Wrap(t - rx.t0) \in Counts)
<1>1. rx.t0 \in Int
  BY CountsAreInts DEF Records, Never
<1>2. t - rx.t0 \in Int
  BY <1>1, CountsAreInts
<1>3. Wrap(t - rx.t0) \in Counts
  BY <1>2, WrapCounts
<1>4. Wrap(t - rx.t0) \in Nat
  BY <1>3, CountsAreInts DEF Counts
<1> QED
  BY <1>3, <1>4, Numbers DEF CellOf

LEMMA TimesTyped ==
    ASSUME NEW t \in Counts, NEW k \in Int
    PROVE  Wrap(t + k) \in Counts /\ Wrap(t - k) \in Counts
BY WrapCounts, CountsAreInts

LEMMA TypedInit ==
    ASSUME Init
    PROVE  Typed
<1>1. LineTyped
  <2>1. front \in Fronts /\ sender = Silence /\ quiet = QuietTicks /\ owed = <<>> /\ wrong = FALSE
    BY DEF Init, LineInit
  <2>2. Silence \in Senders /\ Silence.on = FALSE
    BY DEF Silence, Senders
  <2>3. ~sender.on /\ quiet \in 0 .. QuietTicks /\ sender \in Senders
    BY <2>1, <2>2, Numbers
  <2>4. wrong \in BOOLEAN
    BY <2>1
  <2>5. owed \in Seq(SUBSET Bits)
    BY <2>1
  <2> QED
    BY <2>1, <2>3, <2>4, <2>5 DEF LineTyped
<1>2. 0 \in Counts /\ 0 \in 0 .. (Latency + 1)
  BY Numbers DEF Counts
<1> QED
  BY <1>1, <1>2, IdleTyped DEF Init, Typed, Receiving

LEMMA TypedTick ==
    ASSUME Typed, Tick
    PROVE  Typed'
<1>1. LineTyped'
  <2>1. front' = front /\ wrong' = wrong
    BY DEF Tick
  <2>2. CASE SenderGoesOn
    <3>1. sender.on /\ sender' = [sender EXCEPT !.phase = @ + 1] /\ quiet' = quiet /\ owed' = owed
      BY <2>2 DEF SenderGoesOn, Going
    <3>2. sender.phase + 1 \in Nat
      BY DEF Typed, LineTyped, Senders
    <3> QED
      BY <2>1, <3>1, <3>2 DEF Typed, LineTyped, Senders
  <2>3. CASE SenderStarts
    <3>1. sender' \in Characters /\ quiet' = 0 /\ owed' = Append(owed, sender'.data)
      BY <2>3 DEF SenderStarts
    <3>2. /\ sender'.on = TRUE /\ sender'.drift \in Drifts /\ sender'.gap \in front.gaps
          /\ sender'.data \in SUBSET Bits /\ sender' \in Senders'
      <4>1. /\ sender' \in [on : {TRUE}, data : SUBSET Bits, drift : Drifts, gap : front.gaps, phase : {0}]
            /\ front' = front
        BY <2>1, <3>1 DEF Characters
      <4>3. /\ sender'.on = TRUE /\ sender'.drift \in Drifts /\ sender'.gap \in front.gaps
            /\ sender'.data \in SUBSET Bits /\ sender'.phase = 0
            /\ sender' = [on |-> sender'.on, data |-> sender'.data, drift |-> sender'.drift,
                          gap |-> sender'.gap, phase |-> sender'.phase]
        BY <4>1
      <4>4. sender'.on \in BOOLEAN
        BY <4>3
      <4>2. sender' \in [on : BOOLEAN, data : SUBSET Bits, drift : Drifts \cup {0},
                         gap : front.gaps \cup {0}, phase : Nat]
        BY <4>3, <4>4
      <4> QED
        BY <4>1, <4>2, <4>3 DEF Senders
    <3>3. owed' \in Seq(SUBSET Bits)
      BY <3>1, <3>2 DEF Typed, LineTyped
    <3> QED
      BY <2>1, <3>1, <3>2, <3>3, Numbers DEF Typed, LineTyped
  <2>4. CASE SenderStops
    <3>1. sender' = Silence /\ owed' = owed /\ quiet' \in 0 .. QuietTicks
      BY <2>4, Numbers DEF SenderStops, Typed, LineTyped
    <3>2. Silence \in Senders' /\ Silence.on = FALSE
      BY DEF Silence, Senders
    <3> QED
      BY <2>1, <3>1, <3>2 DEF Typed, LineTyped
  <2> QED
    BY <2>2, <2>3, <2>4 DEF Tick
<1>2. count' \in Counts /\ front' = front
  BY TimesTyped DEF Tick, Typed
<1>3. late' \in 0 .. (Latency + 1)
  <2>1. late \in 0 .. (Latency + 1) /\ (Pending => late < Allowed) /\ Latency \in Nat
    BY Numbers DEF Tick, Typed
  <2>2. Pending => late + 1 \in 0 .. (Latency + 1)
    BY <2>1 DEF Allowed
  <2> QED
    BY <2>1, <2>2 DEF Tick
<1>4. edge' \in Counts \cup {Never} /\ (~Interrupts => edge' = edge)
  BY <1>2 DEF Tick, Typed
<1>5. cc' = cc /\ clearing' = clearing /\ rx' = rx /\ was' = was
  BY DEF Tick
<1>6. compare' \in BOOLEAN /\ (cc = Never => compare' = compare)
  BY <1>2, CountsAreInts DEF Tick, Typed
<1>7. Interrupts' = Interrupts /\ Receiving' = Receiving
  BY <1>2, <1>5 DEF Interrupts, Receiving
<1> QED
  BY <1>1, <1>2, <1>3, <1>4, <1>5, <1>6, <1>7 DEF Typed, Records

LEMMA TypedEdge ==
    ASSUME Typed, EdgeIsr
    PROVE  Typed'
<1> DEFINE t == IF front.board = "uno" THEN edge ELSE count
<1>0. /\ edge # Never /\ ~clearing /\ edge' = Never /\ late' = 0
      /\ EdgeStart(t) \/ EdgePulse(t) \/ EdgePivot(t) \/ EdgeNrz(t)
      /\ UNCHANGED <<front, airVars, count, clearing, was>>
  BY DEF EdgeIsr
<1>1. t \in Counts
  BY <1>0 DEF Typed
<1>2. Interrupts /\ Interrupts'
  BY <1>0 DEF Typed, Interrupts
<1>3. 0 \in 0 .. (Latency + 1)
  BY Numbers
<1> HIDE DEF t
<1>4. /\ owed' \in Seq(SUBSET Bits) /\ wrong' \in BOOLEAN
      /\ rx' \in Records /\ rx' # Idle /\ rx'.index >= 1
      /\ cc' \in Counts \cup {Never} /\ compare' \in BOOLEAN
  <2>1. CASE EdgeStart(t)
    <3>1. Start(t, 1) \in Records /\ Start(t, 1) # Idle /\ Start(t, 1).index = 1
      BY <1>1, Numbers, StartTyped
    <3>2. EndTime(t) \in Counts /\ Wrap(t + BitTicks + HalfBit) \in Counts
      <4>1. BitTicks + HalfBit \in Int /\ EndBit * BitTicks \in Int
            /\ t + BitTicks + HalfBit = t + (BitTicks + HalfBit)
        BY <1>1, Numbers, CountsAreInts
      <4> QED
        BY <1>1, <4>1, TimesTyped DEF EndTime
    <3>3. Dropped /\ compare' = FALSE /\ rx' = Start(t, 1) /\ cc' \in Counts
      BY <2>1, <3>2 DEF EdgeStart
    <3>4. owed' \in Seq(SUBSET Bits) /\ wrong' \in BOOLEAN
      BY <3>3, AccountTyped DEF Typed, LineTyped
    <3>5. compare' \in BOOLEAN
      BY <3>3
    <3>6. rx' \in Records /\ rx' # Idle /\ rx'.index >= 1
      BY <3>1, <3>3
    <3> QED
      BY <3>3, <3>4, <3>5, <3>6
  <2>2. CASE EdgePulse(t)
    <3>1. Receiving /\ CellOf(t) < EndBit /\ rx' = [rx EXCEPT !.mask = @ \cup ({CellOf(t)} \ {0})]
      BY <2>2 DEF EdgePulse
    <3>2. CellOf(t) \in 0 .. StopBit
      BY <1>1, <3>1, CellTyped, Numbers DEF Typed
    <3>3. rx' \in Records /\ rx'.index = rx.index
      BY <3>1, <3>2 DEF Typed, Records
    <3>4. rx.index >= 1 /\ Idle.index = 0
      BY <1>2, <3>1 DEF Typed, Idle, Byte
    <3>5. rx' # Idle /\ rx'.index >= 1
      BY <3>3, <3>4
    <3> QED
      BY <2>2, <3>3, <3>5, AccountTyped DEF EdgePulse, Typed, LineTyped
  <2>3. CASE EdgePivot(t)
    <3>1. Receiving /\ FinishMask(rx.mask) /\ rx' = Start(t, rx.index) /\ cc' = EndTime(t)
          /\ compare' = CompareAfterPivot
      BY <2>3 DEF EdgePivot
    <3>2. rx.index \in 0 .. StopBit /\ rx.index >= 1
      BY <1>2, <3>1 DEF Typed, Records
    <3>3. Start(t, rx.index) \in Records /\ Start(t, rx.index) # Idle /\ Start(t, rx.index).index = rx.index
      BY <1>1, <3>2, StartTyped
    <3>4. EndTime(t) \in Counts
      <4>1. EndBit * BitTicks \in Int
        BY Numbers
      <4> QED
        BY <1>1, <4>1, TimesTyped DEF EndTime
    <3>5. compare' \in BOOLEAN
      BY <3>1 DEF CompareAfterPivot, Typed
    <3>6. owed' \in Seq(SUBSET Bits) /\ wrong' \in BOOLEAN
      BY <3>1, MaskTyped DEF Typed, LineTyped
    <3> QED
      BY <3>1, <3>2, <3>3, <3>4, <3>5, <3>6
  <2>4. CASE EdgeNrz(t)
    <3>1. Receiving /\ Dropped /\ compare' = compare
      BY <2>4 DEF EdgeNrz
    <3>2. rx.index \in 0 .. StopBit /\ rx.index >= 1 /\ Idle.index = 0
      BY <1>2, <3>1 DEF Typed, Records, Idle, Byte
    <3>3. CASE Resyncs
      <4>1. cc' = Wrap(t + HalfBit) /\ rx' = [rx EXCEPT !.t0 = Wrap(t - BitTicks * rx.index)]
        BY <2>4, <3>3 DEF EdgeNrz
      <4>2. HalfBit \in Int /\ BitTicks * rx.index \in Int
        BY <3>2, Numbers
      <4>3. Wrap(t + HalfBit) \in Counts /\ Wrap(t - BitTicks * rx.index) \in Counts
        BY <1>1, <4>2, TimesTyped
      <4>4. rx' \in Records /\ rx'.index = rx.index
        BY <4>1, <4>3 DEF Typed, Records
      <4>5. owed' \in Seq(SUBSET Bits) /\ wrong' \in BOOLEAN
        BY <3>1, AccountTyped DEF Typed, LineTyped
      <4>6. compare' \in BOOLEAN
        BY <3>1 DEF Typed
      <4>7. rx' \in Records /\ rx' # Idle /\ rx'.index >= 1
        BY <3>2, <4>4
      <4>8. cc' \in Counts \cup {Never}
        BY <4>1, <4>3
      <4> QED
        BY <4>5, <4>6, <4>7, <4>8
    <3>4. CASE ~Resyncs
      <4>1. cc' = cc /\ rx' = rx
        BY <2>4, <3>4 DEF EdgeNrz
      <4>2. owed' \in Seq(SUBSET Bits) /\ wrong' \in BOOLEAN
        BY <3>1, AccountTyped DEF Typed, LineTyped
      <4>3. rx # Idle /\ rx \in Records /\ cc \in Counts \cup {Never} /\ compare \in BOOLEAN
        BY <3>1 DEF Typed, Receiving
      <4>4. compare' \in BOOLEAN
        BY <3>1, <4>3
      <4>5. rx' \in Records /\ rx' # Idle /\ rx'.index >= 1
        BY <3>2, <4>1, <4>3
      <4>6. cc' \in Counts \cup {Never}
        BY <4>1, <4>3
      <4> QED
        BY <4>2, <4>4, <4>5, <4>6
    <3> QED
      BY <3>3, <3>4
  <2> QED
    BY <1>0, <2>1, <2>2, <2>3, <2>4
<1>5. LineTyped'
  BY <1>0, <1>4, LineKept DEF Typed
<1> QED
  BY <1>0, <1>2, <1>3, <1>4, <1>5 DEF Typed, Records, Receiving

\* The end of a byte, or its compare: what CompareBegins leaves, and the rest.
LEMMA TypedCompare ==
    ASSUME Typed, CompareBegins, owed' \in Seq(SUBSET Bits), wrong' \in BOOLEAN,
           clearing' \in BOOLEAN,
           \/ rx' = Idle /\ cc' = Never
           \/ rx' \in Records /\ rx' # Idle /\ rx'.index >= 1 /\ cc' \in Counts
    PROVE  Typed'
<1>1. /\ compare = TRUE /\ compare' = FALSE /\ late' = 0
      /\ UNCHANGED <<front, airVars, count, edge, was>>
  BY DEF CompareBegins, Typed
<1>2. Interrupts /\ Interrupts'
  BY <1>1 DEF Typed, Interrupts
<1>3. LineTyped'
  BY <1>1, LineKept DEF Typed
<1>4. 0 \in 0 .. (Latency + 1)
  BY Numbers
<1>5. late' \in 0 .. (Latency + 1) /\ compare' \in BOOLEAN
  BY <1>1, <1>4
<1>6. rx' \in Records /\ cc' \in Counts \cup {Never} /\ Records' = Records
  BY <1>1, IdleTyped DEF Records
<1>7. (Receiving' => rx'.index >= 1) /\ (~Receiving' => cc' = Never)
  BY DEF Receiving
<1> QED
  BY <1>1, <1>2, <1>3, <1>5, <1>6, <1>7 DEF Typed

LEMMA TypedNrzBit ==
    ASSUME Typed, CompareNrzBit
    PROVE  Typed'
<1>1. /\ CompareBegins /\ rx.index <= DataBits /\ Dropped /\ clearing' = clearing
      /\ rx' = [rx EXCEPT !.data = IF Light THEN @ ELSE @ \cup {rx.index}, !.index = @ + 1]
      /\ cc' = Wrap(rx.t0 + BitTicks * (rx.index + 1) + HalfBit)
  BY DEF CompareNrzBit
<1>2. Receiving /\ rx.index >= 1 /\ rx.index \in 0 .. StopBit
  <2>1. compare = TRUE
    BY <1>1 DEF CompareBegins, Typed
  <2>2. Interrupts
    BY <2>1 DEF Typed
  <2> QED
    BY <2>1, <2>2 DEF Typed, Records
<1>3. rx.index \in Bits /\ rx.index + 1 \in 0 .. StopBit
  BY <1>1, <1>2, Numbers DEF Bits
<1>4. rx' \in Records /\ rx'.index = rx.index + 1
  <2>1. (IF Light THEN rx.data ELSE rx.data \cup {rx.index}) \in SUBSET Bits
    BY <1>3 DEF Typed, Records
  <2> QED
    BY <1>1, <1>3, <2>1 DEF Typed, Records
<1>5. rx' # Idle /\ rx'.index >= 1
  BY <1>2, <1>4, Numbers DEF Idle, Byte
<1>6. cc' \in Counts
  <2>1. rx.t0 \in Int
    BY CountsAreInts DEF Typed, Records, Never
  <2>2. rx.t0 + BitTicks * (rx.index + 1) + HalfBit \in Int
    BY <1>2, <2>1, Numbers
  <2> QED
    BY <1>1, <2>2, WrapCounts
<1>7. owed' \in Seq(SUBSET Bits) /\ wrong' \in BOOLEAN
  BY <1>1, AccountTyped DEF Typed, LineTyped
<1>8. clearing' \in BOOLEAN
  BY <1>1 DEF Typed
<1> QED
  BY <1>1, <1>4, <1>5, <1>6, <1>7, <1>8, TypedCompare

LEMMA TypedEnd ==
    ASSUME Typed, CompareIrda \/ CompareNrzStop
    PROVE  Typed'
<1>1. CompareBegins /\ EndByte
  BY DEF CompareIrda, CompareNrzStop
<1>2. owed' \in Seq(SUBSET Bits) /\ wrong' \in BOOLEAN
  <2>1. CASE CompareIrda
    BY <2>1, MaskTyped DEF CompareIrda, Typed, LineTyped
  <2>2. CASE CompareNrzStop
    BY <2>2, AccountTyped DEF CompareNrzStop, Typed, LineTyped
  <2> QED
    BY <2>1, <2>2
<1>3. rx' = Idle /\ cc' = Never
  BY <1>1 DEF EndByte
<1>4. clearing' \in BOOLEAN
  BY <1>1 DEF EndByte
<1> QED
  BY <1>1, <1>2, <1>3, <1>4, TypedCompare

LEMMA TypedClear ==
    ASSUME Typed, ClearEdge
    PROVE  Typed'
<1>1. /\ clearing = TRUE /\ clearing' = FALSE /\ edge' = Never /\ late' = 0
      /\ UNCHANGED <<front, airVars, owed, wrong, count, cc, compare, rx, was>>
  BY DEF ClearEdge, Typed
<1>2. Interrupts /\ Interrupts'
  BY <1>1 DEF Typed, Interrupts
<1>3. owed' \in Seq(SUBSET Bits) /\ wrong' \in BOOLEAN
  BY <1>1 DEF Typed, LineTyped
<1>4. LineTyped'
  BY <1>1, <1>3, LineKept DEF Typed
<1>5. 0 \in 0 .. (Latency + 1)
  BY Numbers
<1>6. late' \in 0 .. (Latency + 1)
  BY <1>1, <1>5
<1>7. clearing' \in BOOLEAN
  BY <1>1
<1> QED
  BY <1>1, <1>2, <1>4, <1>6, <1>7 DEF Typed, Records, Receiving

LEMMA TypedPoll ==
    ASSUME Typed, Poll
    PROVE  Typed'
<1>1. /\ ~Interrupts /\ was' = Light /\ late' = 0 /\ (PollIdle \/ PollNrz \/ PollIrda)
      /\ UNCHANGED <<front, airVars, count, edge, cc, compare, clearing>>
  BY DEF Poll
<1>2. ~Interrupts' /\ count \in Counts
  BY <1>1 DEF Typed, Interrupts
<1>3. was' \in BOOLEAN
  <2>1. Light \in BOOLEAN
    BY DEF Light, Lit, Typed, LineTyped, Senders
  <2> QED
    BY <1>1, <2>1
<1>4. owed' \in Seq(SUBSET Bits) /\ wrong' \in BOOLEAN /\ rx' \in Records
  <2>1. CASE PollIdle
    <3>1. Dropped /\ (rx' = Idle \/ rx' = Start(count, 0))
      BY <2>1 DEF PollIdle
    <3>2. Start(count, 0) \in Records
      BY <1>2, StartTyped, Numbers
    <3> QED
      BY <3>1, <3>2, IdleTyped, AccountTyped DEF Typed, LineTyped
  <2>2. CASE PollNrz
    <3>1. CASE rx' = rx /\ Dropped
      BY <3>1, AccountTyped DEF Typed, LineTyped
    <3>2. CASE /\ rx.index < DataBits /\ Dropped
               /\ rx' = [rx EXCEPT !.data = IF Light THEN @ ELSE @ \cup {rx.index + 1}, !.index = @ + 1]
      <4>1. rx.index + 1 \in Bits /\ rx.index + 1 \in 0 .. StopBit
        BY <3>2, Numbers DEF Typed, Records, Bits
      <4>2. (IF Light THEN rx.data ELSE rx.data \cup {rx.index + 1}) \in SUBSET Bits
        BY <4>1 DEF Typed, Records
      <4>3. rx' \in Records
        BY <3>2, <4>1, <4>2 DEF Typed, Records
      <4> QED
        BY <3>2, <4>3, AccountTyped DEF Typed, LineTyped
    <3>3. CASE rx' = Idle /\ (Received(rx.data) \/ Dropped)
      BY <3>3, IdleTyped, AccountTyped DEF Typed, LineTyped
    <3> QED
      BY <2>2, <3>1, <3>2, <3>3 DEF PollNrz
  <2>3. CASE PollIrda
    <3>1. PICK m : /\ m = (IF Rising /\ CellOf(count) < EndBit THEN rx.mask \cup {CellOf(count)}
                                                              ELSE rx.mask)
                   /\ \/ FinishMask(m) /\ rx' = Idle
                      \/ Dropped /\ rx' = [rx EXCEPT !.mask = m]
      BY <2>3 DEF PollIrda
    <3>2. m \in SUBSET (0 .. StopBit)
      <4>1. CellOf(count) \in Nat
        BY <1>2, CellTyped DEF Typed
      <4>2. CellOf(count) < EndBit => CellOf(count) \in 0 .. StopBit
        BY <4>1, Numbers
      <4>3. rx.mask \in SUBSET (0 .. StopBit)
        BY DEF Typed, Records
      <4> QED
        BY <3>1, <4>2, <4>3
    <3>3. CASE FinishMask(m) /\ rx' = Idle
      BY <3>3, IdleTyped, MaskTyped DEF Typed, LineTyped
    <3>4. CASE Dropped /\ rx' = [rx EXCEPT !.mask = m]
      <4>1. rx' \in Records
        BY <3>2, <3>4 DEF Typed, Records
      <4> QED
        BY <3>4, <4>1, AccountTyped DEF Typed, LineTyped
    <3> QED
      BY <3>1, <3>3, <3>4
  <2> QED
    BY <1>1, <2>1, <2>2, <2>3
<1>5. LineTyped'
  BY <1>1, <1>4, LineKept DEF Typed
<1>6. 0 \in 0 .. (Latency + 1)
  BY Numbers
<1>7. late' \in 0 .. (Latency + 1)
  BY <1>1, <1>6
<1> QED
  BY <1>1, <1>2, <1>3, <1>4, <1>5, <1>7 DEF Typed, Records

LEMMA TypedStep ==
    ASSUME Typed, [Next]_vars
    PROVE  Typed'
<1>1. CASE Next
  BY <1>1, TypedTick, TypedEdge, TypedNrzBit, TypedEnd, TypedClear, TypedPoll DEF Next
<1>2. CASE UNCHANGED vars
  <2>1. UNCHANGED <<front, sender, quiet, owed, wrong, count, edge, cc, compare, clearing, late, rx, was>>
    BY <1>2 DEF vars, lineVars, airVars
  <2> QED
    BY <2>1 DEF Typed, LineTyped, Senders, Records, Interrupts, Receiving
<1> QED
  BY <1>1, <1>2

\* The receivers keep their types: the index and the mask within a byte, the
\* counter and the compares within its width.
THEOREM TypeCorrect == Spec => []TypeOK
<1>1. Init => Typed
  BY TypedInit
<1>2. Typed /\ [Next]_vars => Typed'
  BY TypedStep
<1>3. Typed => TypeOK
  <2>1. ASSUME Typed PROVE LineTypeOK
    BY <2>1 DEF Typed, LineTyped, Senders, LineTypeOK
  <2>2. ASSUME Typed PROVE {compare, clearing, was} \subseteq BOOLEAN
    BY <2>2 DEF Typed
  <2> QED
    BY <2>1, <2>2 DEF Typed, TypeOK, Records
<1> QED
  BY <1>1, <1>2, <1>3, PTL DEF Spec

-----------------------------------------------------------------------------
(* The margins, and what every state is within them                        *)

\* The sender's slip and twice the latency are within half a bit; with IrDA the
\* interrupts of two bytes stay clear of each other, or the next start edge is
\* served while the byte before it waits for its compare. The UNO may serve it then
\* at the compare itself: it has the edge's own time, and clears the compare.
GapOK(f, g) ==
    \/ f.enc = "nrz" /\ g >= 0
    \/ f.enc = "irda" /\ f.board = "uno" /\ (g \in (-HalfBit) .. 0 \/ g > 2 * Latency)
    \/ f.enc = "irda" /\ f.board = "samd21"
       /\ (g \in (Latency - HalfBit) .. (-Latency - 1) \/ g > 2 * Latency)
    \/ f.enc = "irda" /\ f.board = "esp32c3" /\ g >= 1

Margins ==
    /\ \A d \in Drifts \cup {0} : d \in Int /\ 2 * Latency + d < HalfBit /\ 2 * Latency - d < HalfBit
    /\ \A f \in Fronts : /\ f.board = "esp32c3" => f.enc = "irda"
                         /\ \A g \in f.gaps : g \in Int /\ GapOK(f, g)

EndTicks == EndBit * BitTicks
Offsets == IF front.board = "uno" THEN {0} ELSE 0 .. Latency

\* A new character's start edge waits for its interrupt.
StartWaits ==
    /\ sender.on /\ sender.phase = late /\ edge # Never /\ Since(count, edge, late)
    /\ rx = Idle /\ ~clearing /\ owed = <<sender.data>>

\* The edge of cell k waits.
EdgeWaits(k) ==
    /\ k \in Zeros(sender) /\ k >= 1
    /\ sender.phase = CellStart(sender, k) + late /\ Since(count, edge, late)

\* With IrDA: a byte that began a ticks ago.
PulseByte(a) ==
    /\ rx = Byte(rx.t0, 1, {}, rx.mask) /\ Since(count, rx.t0, a)
    /\ cc = Wrap(rx.t0 + EndTicks) /\ clearing = FALSE
CompareWaits(a) == IF compare THEN edge = Never /\ a = EndTicks + late ELSE a < EndTicks

\* The pulses up to phase p.
PulsesTo(s, p) == {k \in Zeros(s) : CellStart(s, k) <= p}

\* The byte is the one on the air, begun o ticks late, and has the pulses so far.
IrdaAt(o, a) ==
    /\ o \in Offsets /\ sender.on /\ owed = <<sender.data>> /\ sender.phase = a + o
    /\ PulseByte(a) /\ CompareWaits(a)
    /\ edge = Never => rx.mask = PulsesTo(sender, sender.phase)
    /\ edge # Never => \E k \in Zeros(sender) : EdgeWaits(k) /\ rx.mask = {j \in Zeros(sender) : j < k}
IrdaCurrent == \E o, a \in Nat : IrdaAt(o, a)

\* It has all its pulses when the next character's start edge waits ...
FullMask == StopBit \notin rx.mask
NextAt(o, g, a) ==
    /\ o \in Offsets /\ g \in front.gaps /\ g <= 0 /\ a = EndTicks + g + late - o
    /\ sender.on /\ sender.phase = late /\ edge # Never /\ Since(count, edge, late)
    /\ PulseByte(a) /\ (compare <=> a >= EndTicks)
    /\ FullMask /\ owed = <<Bits \ rx.mask, sender.data>>
IrdaNextWaits == \E o, a \in Nat, g \in Int : NextAt(o, g, a)

\* ... and when the line is quiet.
QuietAt(o, g, a) ==
    /\ o \in Offsets /\ g \in front.gaps /\ g <= 0 /\ a = EndTicks + g + quiet - 1 - o
    /\ ~sender.on /\ quiet >= 1 /\ edge = Never
    /\ PulseByte(a) /\ CompareWaits(a)
    /\ FullMask /\ owed = <<Bits \ rx.mask>>
IrdaQuiet == \E o, a \in Nat, g \in Int : QuietAt(o, g, a)

IrdaRests ==
    /\ rx = Idle /\ edge = Never /\ owed = <<>>
    /\ sender.on => sender.phase >= EndTicks
    /\ clearing => IF sender.on THEN sender.phase <= EndTicks + Latency + late
                                ELSE quiet <= 1 + HalfBit + Latency + late
    /\ clearing => front.board = "uno"

IrdaInv ==
    /\ front.enc = "irda" /\ Interrupts /\ late <= Latency
    /\ StartWaits \/ IrdaCurrent \/ IrdaNextWaits \/ IrdaQuiet \/ IrdaRests

\* With NRZ a byte's phase is o ticks late: from its start edge, or from the edge of
\* a later cell, which has the sender's slip.
NrzOffset(o, i) ==
    \/ o \in Offsets
    \/ front.board = "samd21" /\ 2 * i > DataBits /\ o - sender.drift \in Offsets

NrzAt(o, i, a) ==
    /\ sender.on /\ owed = <<sender.data>> /\ clearing = FALSE /\ NrzOffset(o, i)
    /\ i \in 1 .. StopBit /\ rx = Byte(rx.t0, i, {b \in sender.data : b < i}, {0})
    /\ a >= 0 /\ (i > 1 => a >= (i - 1) * BitTicks + HalfBit)
    /\ Since(count, rx.t0, a) /\ cc = Wrap(rx.t0 + (i * BitTicks + HalfBit))
    /\ IF compare THEN edge = Never /\ a = i * BitTicks + HalfBit + late
                  ELSE a < i * BitTicks + HalfBit
    /\ edge # Never => \E k \in Zeros(sender) : EdgeWaits(k)
NrzCurrent == \E o \in Int : NrzAt(o, rx.index, sender.phase - o)

NrzRests ==
    /\ rx = Idle /\ edge = Never /\ owed = <<>>
    /\ sender.on => sender.phase >= StopBit * BitTicks
    /\ clearing => /\ sender.on /\ front.board = "uno"
                   /\ sender.phase <= StopBit * BitTicks + HalfBit + Latency + late

NrzInv ==
    /\ front.enc = "nrz" /\ Interrupts /\ late <= Latency
    /\ StartWaits \/ NrzCurrent \/ NrzRests

\* The polling board: after the poll of phase p it has the pulses up to p.
PollByte(p) ==
    /\ sender.on /\ owed = <<sender.data>> /\ Since(count, rx.t0, sender.phase)
    /\ was = Lit(sender, p)
    /\ rx = Byte(rx.t0, 0, {}, {k \in Zeros(sender) : CellStart(sender, k) <= p})
PollDone == late = 0 /\ sender.phase < EndTicks /\ PollByte(sender.phase)
PollDue == late = 1 /\ 0 < sender.phase /\ sender.phase <= EndTicks /\ PollByte(sender.phase - 1)
PollStart ==
    /\ late = 1 /\ sender.on /\ sender.phase = 0
    /\ was = FALSE /\ rx = Idle /\ owed = <<sender.data>>
PollRests ==
    /\ late \in {0, 1} /\ (sender.on => sender.phase >= EndTicks + late)
    /\ was = FALSE /\ rx = Idle /\ owed = <<>>

PollInv ==
    /\ front.enc = "irda" /\ ~Interrupts
    /\ PollDone \/ PollDue \/ PollStart \/ PollRests

Clean == ~wrong /\ (sender.on => sender.phase <= LastPhase(sender))

IInv == Typed /\ Clean /\ (IrdaInv \/ NrzInv \/ PollInv)

-----------------------------------------------------------------------------
(* Cells                                                                   *)

\* A cell later is a bit later.
LEMMA BitsLater ==
    ASSUME NEW i \in Int, NEW j \in Int, i < j
    PROVE  i * BitTicks \in Int /\ j * BitTicks \in Int /\ i * BitTicks + BitTicks <= j * BitTicks
<1>1. BitTicks \in Nat
  BY Numbers
<1>2. PICK n \in Nat : j = i + 1 + n
  <2>1. j - i - 1 \in Nat /\ j = i + 1 + (j - i - 1)
    OBVIOUS
  <2> QED
    BY <2>1
<1>3. n * BitTicks >= 0 /\ n * BitTicks \in Int
  BY <1>1
<1>4. j * BitTicks = i * BitTicks + BitTicks + n * BitTicks
  BY <1>1, <1>2
<1> QED
  BY <1>1, <1>3, <1>4

LEMMA BitsNat ==
    ASSUME NEW k \in Nat
    PROVE  k * BitTicks \in Nat /\ (k + 1) * BitTicks = k * BitTicks + BitTicks
BY Numbers

LEMMA EndNumbers ==
    /\ EndTicks \in Nat /\ StopBit * BitTicks \in Nat /\ DataBits * BitTicks \in Nat
    /\ EndTicks = StopBit * BitTicks + BitTicks
    /\ StopBit * BitTicks = DataBits * BitTicks + BitTicks
    /\ 2 * EndTicks + 2 * BitTicks < CountMod
<1>1. StopBit \in Nat /\ DataBits \in Nat /\ EndBit = StopBit + 1 /\ StopBit = DataBits + 1
  BY Numbers
<1>2. (EndBit + 1) * BitTicks = EndBit * BitTicks + BitTicks
  BY <1>1, Numbers
<1>3. 2 * (EndBit + 1) * BitTicks = 2 * ((EndBit + 1) * BitTicks)
  BY <1>1, Numbers
<1>4. 2 * (EndBit + 1) * BitTicks < CountMod
  BY Numbers
<1>5. EndBit * BitTicks \in Nat /\ BitTicks \in Nat
  BY <1>1, Numbers
<1>6. 2 * EndTicks + 2 * BitTicks < CountMod
  BY <1>2, <1>3, <1>4, <1>5 DEF EndTicks
<1> QED
  BY <1>1, <1>5, <1>6, BitsNat DEF EndTicks

\* A cell begins k bits after the start edge, or the slip beside it.
LEMMA CellPlace ==
    ASSUME Margins, NEW s \in Senders, NEW k \in Nat
    PROVE  \E d \in {0, s.drift} :
              /\ d \in Int /\ 2 * Latency + d < HalfBit /\ 2 * Latency - d < HalfBit
              /\ k * BitTicks \in Nat /\ CellStart(s, k) = k * BitTicks + d
              /\ (k = 0 => d = 0) /\ (2 * k > DataBits => d = s.drift)
<1>1. s.drift \in Drifts \cup {0}
  BY DEF Senders
<1>2. k * BitTicks \in Nat
  BY BitsNat
<1>3. \A d \in {0, s.drift} : d \in Int /\ 2 * Latency + d < HalfBit /\ 2 * Latency - d < HalfBit
  BY <1>1 DEF Margins
<1>4. CASE 2 * k > DataBits
  <2>1. CellStart(s, k) = k * BitTicks + s.drift /\ k # 0
    BY <1>4, Numbers DEF CellStart
  <2> QED
    BY <1>2, <1>3, <2>1
<1>5. CASE ~(2 * k > DataBits)
  <2>1. CellStart(s, k) = k * BitTicks + 0
    BY <1>5 DEF CellStart
  <2> QED
    BY <1>2, <1>3, <1>5, <2>1
<1> QED
  BY <1>4, <1>5

LEMMA CellNumbers ==
    ASSUME Margins, NEW s \in Senders, NEW k \in Nat
    PROVE  /\ CellStart(s, k) \in Int /\ k * BitTicks \in Nat
           /\ CellStart(s, k) + 2 * Latency < k * BitTicks + HalfBit
           /\ CellStart(s, k) > k * BitTicks + 2 * Latency - HalfBit
           /\ CellStart(s, 0) = 0
<1>1. PICK d \in {0, s.drift} :
              /\ d \in Int /\ 2 * Latency + d < HalfBit /\ 2 * Latency - d < HalfBit
              /\ k * BitTicks \in Nat /\ CellStart(s, k) = k * BitTicks + d
  BY CellPlace
<1>2. CellStart(s, 0) = 0
  BY Numbers DEF CellStart
<1> QED
  BY <1>1, <1>2, Numbers

\* Two cells' starts are more than half a bit and the latencies apart.
LEMMA CellOrder ==
    ASSUME Margins, NEW s \in Senders, NEW j \in Nat, NEW k \in Nat, j < k
    PROVE  CellStart(s, j) + HalfBit + 2 * Latency < CellStart(s, k)
<1>1. PICK d \in {0, s.drift} :
              /\ d \in Int /\ 2 * Latency + d < HalfBit /\ 2 * Latency - d < HalfBit
              /\ j * BitTicks \in Nat /\ CellStart(s, j) = j * BitTicks + d
              /\ (2 * j > DataBits => d = s.drift)
  BY CellPlace
<1>2. PICK e \in {0, s.drift} :
              /\ e \in Int /\ 2 * Latency + e < HalfBit /\ 2 * Latency - e < HalfBit
              /\ k * BitTicks \in Nat /\ CellStart(s, k) = k * BitTicks + e
              /\ (2 * k > DataBits => e = s.drift)
  BY CellPlace
<1>3. j * BitTicks + BitTicks <= k * BitTicks
  BY BitsLater
<1>4. e = d \/ d = 0 \/ e = 0
  BY <1>1, <1>2
<1>5. 2 * Latency + d - e < HalfBit
  BY <1>1, <1>2, <1>4, Numbers
<1> QED
  BY <1>1, <1>2, <1>3, <1>5, Numbers

LEMMA ZeroCells ==
    ASSUME NEW s \in Senders
    PROVE  Zeros(s) \subseteq 0 .. DataBits /\ 0 \in Zeros(s) /\ Zeros(s) \subseteq Nat
           /\ StopBit \notin Zeros(s) /\ Bits \ Zeros(s) = s.data
<1>1. s.data \subseteq Bits /\ Bits \subseteq 1 .. DataBits /\ DataBits \in Nat
  BY Numbers DEF Senders, Bits
<1>2. StopBit = DataBits + 1 /\ 0 \notin Bits
  BY <1>1, Numbers
<1>3. Zeros(s) = {0} \cup (Bits \ s.data)
  BY DEF Zeros
<1>4. Zeros(s) \subseteq 0 .. DataBits /\ 0 \in Zeros(s)
  <2>1. ASSUME NEW k \in Zeros(s) PROVE k \in 0 .. DataBits
    <3>1. k = 0 \/ k \in 1 .. DataBits
      BY <1>1, <1>3
    <3> QED
      BY <1>1, <3>1
  <2> QED
    BY <1>3, <2>1
<1>5. Zeros(s) \subseteq Nat /\ StopBit \notin Zeros(s)
  BY <1>1, <1>2, <1>4
<1>6. Bits \ Zeros(s) = s.data
  BY <1>1, <1>2, <1>3
<1> QED
  BY <1>4, <1>5, <1>6

\* Every cell begins before the stop bit's.
LEMMA CellsEnd ==
    ASSUME Margins, NEW s \in Senders, NEW k \in Zeros(s)
    PROVE  /\ CellStart(s, k) + 2 * Latency < DataBits * BitTicks + HalfBit
           /\ CellStart(s, k) >= 0 /\ (k >= 1 => CellStart(s, k) > HalfBit + 2 * Latency)
           /\ CellStart(s, k) \in Int /\ k \in Nat
<1>1. k \in 0 .. DataBits /\ k \in Nat
  BY ZeroCells
<1>2. k * BitTicks <= DataBits * BitTicks /\ DataBits * BitTicks \in Nat
  <2>1. CASE k = DataBits
    BY <2>1, BitsNat, Numbers
  <2>2. CASE k < DataBits
    BY <1>1, <2>2, BitsLater, Numbers
  <2> QED
    BY <1>1, <2>1, <2>2, Numbers
<1>3. CellStart(s, 0) = 0
  BY <1>1, CellNumbers
<1>4. k >= 1 => CellStart(s, k) > HalfBit + 2 * Latency
  BY <1>1, <1>3, CellOrder, Numbers
<1>5. CellStart(s, k) \in Int /\ k * BitTicks \in Nat /\ CellStart(s, k) + 2 * Latency < k * BitTicks + HalfBit
  BY <1>1, CellNumbers
<1> QED
  BY <1>1, <1>2, <1>3, <1>4, <1>5, Numbers

\* The light of a character, cell by cell.
LEMMA LitCell ==
    ASSUME Margins, NEW s \in Senders, NEW p \in Int, NEW k \in Zeros(s)
    PROVE  LET last == (IF front.enc = "irda" THEN CellStart(s, k) + Pulse
                                              ELSE CellStart(s, k + 1)) - 1
           IN  /\ last \in Int /\ CellStart(s, k) \in Int /\ k \in 0 .. DataBits
               /\ (p \in CellStart(s, k) .. last <=> CellStart(s, k) <= p /\ p <= last)
               /\ (\A j \in Zeros(s) : k < j => last < CellStart(s, j))
               /\ (front.enc = "irda" => \A j \in Zeros(s) : k < j => last < CellStart(s, j) - 1)
               /\ CellStart(s, k) <= last /\ last < StopBit * BitTicks + HalfBit
<1>1. k \in 0 .. DataBits /\ k \in Nat /\ k + 1 \in Nat /\ k + 1 \in 0 .. StopBit
  BY ZeroCells, Numbers
<1>2. /\ CellStart(s, k) \in Int /\ CellStart(s, k + 1) \in Int
      /\ CellStart(s, k) + HalfBit + 2 * Latency < CellStart(s, k + 1)
  BY <1>1, CellNumbers, CellOrder
<1>3. CellStart(s, k) + 2 * Latency < DataBits * BitTicks + HalfBit
  BY CellsEnd
<1>4. CellStart(s, k + 1) < StopBit * BitTicks + HalfBit
  <2>1. CellStart(s, k + 1) + 2 * Latency < (k + 1) * BitTicks + HalfBit /\ (k + 1) * BitTicks \in Nat
    BY <1>1, CellNumbers
  <2>2. (k + 1) * BitTicks <= StopBit * BitTicks
    <3>1. CASE k + 1 = StopBit
      BY <3>1, EndNumbers
    <3>2. CASE k + 1 < StopBit
      BY <1>1, <3>2, BitsLater, Numbers
    <3> QED
      BY <1>1, <3>1, <3>2, Numbers
  <2> QED
    BY <1>2, <2>1, <2>2, Numbers, EndNumbers
<1>5. ASSUME NEW j \in Zeros(s), k < j
      PROVE  /\ CellStart(s, k) + HalfBit + 2 * Latency < CellStart(s, j)
             /\ CellStart(s, k + 1) <= CellStart(s, j) /\ CellStart(s, j) \in Int
  <2>1. j \in Nat
    BY ZeroCells
  <2>2. CASE k + 1 = j
    BY <1>2, <2>1, <2>2
  <2>3. CASE k + 1 < j
    BY <1>1, <1>2, <1>5, <2>1, <2>3, CellNumbers, CellOrder, Numbers
  <2> QED
    BY <1>1, <1>5, <2>1, <2>2, <2>3
<1> DEFINE end == IF front.enc = "irda" THEN CellStart(s, k) + Pulse ELSE CellStart(s, k + 1)
           last == end - 1
<1>6. /\ last \in Int /\ CellStart(s, k) <= last /\ last < StopBit * BitTicks + HalfBit
      /\ front.enc = "irda" => last + HalfBit < CellStart(s, k) + 2 * HalfBit
      /\ front.enc # "irda" => last < CellStart(s, k + 1)
      /\ last < CellStart(s, k + 1)
  <2>1. CASE front.enc = "irda"
    <3>0. end = CellStart(s, k) + Pulse
      BY <2>1
    <3> HIDE DEF end
    <3>1. last = CellStart(s, k) + Pulse - 1
      BY <3>0, <1>2, Numbers
    <3> HIDE DEF last
    <3> QED
      BY <2>1, <3>1, <1>2, <1>3, Numbers, EndNumbers
  <2>2. CASE front.enc # "irda"
    <3>1. last = CellStart(s, k + 1) - 1
      BY <2>2
    <3> HIDE DEF last
    <3> QED
      BY <2>2, <3>1, <1>2, <1>4, Numbers, EndNumbers
  <2> QED
    BY <2>1, <2>2
<1> HIDE DEF last
<1>7. \A j \in Zeros(s) : k < j => last < CellStart(s, j)
  BY <1>2, <1>5, <1>6
<1>8. front.enc = "irda" => \A j \in Zeros(s) : k < j => last < CellStart(s, j) - 1
  BY <1>2, <1>5, <1>6, Numbers
<1>9. p \in CellStart(s, k) .. last <=> CellStart(s, k) <= p /\ p <= last
  BY <1>2, <1>6
<1> QED
  BY <1>1, <1>2, <1>6, <1>7, <1>8, <1>9 DEF last, end

\* An edge is the start of a cell.
LEMMA RisesAtCell ==
    ASSUME Margins, NEW s \in Senders, Rises(s)
    PROVE  s.on /\ \E k \in Zeros(s) : s.phase = CellStart(s, k)
<1> DEFINE last(k) == (IF front.enc = "irda" THEN CellStart(s, k) + Pulse
                                             ELSE CellStart(s, k + 1)) - 1
<1>0. s.phase \in Nat /\ s.phase \in Int /\ s.phase - 1 \in Int
  BY DEF Senders
<1>1. s.on /\ \E k \in Zeros(s) : s.phase \in CellStart(s, k) .. last(k)
  BY DEF Rises, Lit
<1>2. PICK k \in Zeros(s) : s.phase \in CellStart(s, k) .. last(k)
  BY <1>1
<1>3. s.phase = 0 \/ s.phase - 1 \notin CellStart(s, k) .. last(k)
  BY <1>1 DEF Rises, Lit
<1>4. /\ last(k) \in Int /\ CellStart(s, k) \in Int
      /\ (s.phase \in CellStart(s, k) .. last(k) <=> CellStart(s, k) <= s.phase /\ s.phase <= last(k))
  BY <1>0, LitCell
<1>5. s.phase - 1 \in CellStart(s, k) .. last(k)
      <=> CellStart(s, k) <= s.phase - 1 /\ s.phase - 1 <= last(k)
  BY <1>0, LitCell
<1>6. CellStart(s, k) >= 0
  BY CellsEnd
<1> HIDE DEF last
<1>7. CellStart(s, k) = s.phase
  BY <1>0, <1>2, <1>3, <1>4, <1>5, <1>6
<1> QED
  BY <1>1, <1>7

\* With IrDA every pulse has its edge; with NRZ a start bit has.
LEMMA PulseRises ==
    ASSUME Margins, NEW s \in Senders, s.on, NEW k \in Zeros(s), s.phase = CellStart(s, k),
           front.enc = "irda" \/ k = 0
    PROVE  Rises(s) /\ Lit(s, s.phase)
<1> DEFINE last(j) == (IF front.enc = "irda" THEN CellStart(s, j) + Pulse
                                             ELSE CellStart(s, j + 1)) - 1
<1>0. s.phase \in Nat /\ s.phase \in Int /\ s.phase - 1 \in Int
  BY DEF Senders
<1>1. s.phase \in CellStart(s, k) .. last(k)
  <2>1. /\ last(k) \in Int /\ CellStart(s, k) \in Int /\ CellStart(s, k) <= last(k)
        /\ (s.phase \in CellStart(s, k) .. last(k) <=> CellStart(s, k) <= s.phase /\ s.phase <= last(k))
    BY <1>0, LitCell
  <2> HIDE DEF last
  <2> QED
    BY <2>1
<1>2. Lit(s, s.phase)
  BY <1>1 DEF Lit
<1>3. CASE k = 0
  <2>1. s.phase = 0
    BY <1>3, CellNumbers
  <2> QED
    BY <1>2, <2>1 DEF Rises
<1>4. CASE front.enc = "irda"
  <2>1. ASSUME NEW j \in Zeros(s) PROVE s.phase - 1 \notin CellStart(s, j) .. last(j)
    <3>1. /\ last(j) \in Int /\ CellStart(s, j) \in Int
          /\ (s.phase - 1 \in CellStart(s, j) .. last(j)
              <=> CellStart(s, j) <= s.phase - 1 /\ s.phase - 1 <= last(j))
      BY <1>0, LitCell
    <3>2. j < k => last(j) < CellStart(s, k) - 1
      BY <1>0, <1>4, LitCell
    <3>3. k < j => CellStart(s, k) < CellStart(s, j)
      BY ZeroCells, CellOrder, CellNumbers, Numbers
    <3>4. j < k \/ j = k \/ k < j
      BY ZeroCells
    <3> HIDE DEF last
    <3> QED
      BY <1>0, <3>1, <3>2, <3>3, <3>4
  <2>2. ~Lit(s, s.phase - 1)
    BY <2>1 DEF Lit
  <2> QED
    BY <1>2, <2>2 DEF Rises
<1> QED
  BY <1>3, <1>4

\* No light from the stop bit's middle on.
LEMMA DarkStop ==
    ASSUME Margins, NEW s \in Senders, NEW p \in Int, p >= StopBit * BitTicks + HalfBit
    PROVE  ~Lit(s, p)
<1> DEFINE last(k) == (IF front.enc = "irda" THEN CellStart(s, k) + Pulse
                                             ELSE CellStart(s, k + 1)) - 1
<1>1. ASSUME NEW k \in Zeros(s) PROVE p \notin CellStart(s, k) .. last(k)
  <2>1. /\ last(k) \in Int /\ last(k) < StopBit * BitTicks + HalfBit
        /\ (p \in CellStart(s, k) .. last(k) <=> CellStart(s, k) <= p /\ p <= last(k))
    BY LitCell
  <2> HIDE DEF last
  <2> QED
    BY <2>1, Numbers, EndNumbers
<1> QED
  BY <1>1 DEF Lit

\* With NRZ the light within a cell is its bit.
LEMMA CellLight ==
    ASSUME Margins, NEW s \in Senders, s.on, front.enc = "nrz", NEW i \in 0 .. DataBits,
           NEW p \in Int, CellStart(s, i) <= p, p < CellStart(s, i + 1)
    PROVE  Lit(s, p) <=> i \in Zeros(s)
<1>0. i \in Nat /\ i + 1 \in Nat
  BY Numbers
<1>1. CellStart(s, i) \in Int /\ CellStart(s, i + 1) \in Int
  BY <1>0, CellNumbers
<1>2. ASSUME i \in Zeros(s) PROVE Lit(s, p)
  <2>1. p \in CellStart(s, i) .. (CellStart(s, i + 1) - 1)
    BY <1>1
  <2> QED
    BY <1>2, <2>1 DEF Lit
<1>3. ASSUME NEW k \in Zeros(s), p \in CellStart(s, k) .. (CellStart(s, k + 1) - 1)
      PROVE  i = k
  <2>0. k \in Nat /\ k + 1 \in Nat
    BY ZeroCells
  <2>1. CellStart(s, k) \in Int /\ CellStart(s, k + 1) \in Int
    BY <2>0, CellNumbers
  <2>2. CellStart(s, k) <= p /\ p < CellStart(s, k + 1)
    BY <1>3, <2>1
  <2>3. ~(i < k)
    <3>1. ASSUME i < k PROVE CellStart(s, i + 1) <= CellStart(s, k)
      <4>1. i + 1 = k \/ i + 1 < k
        BY <1>0, <2>0, <3>1
      <4> QED
        BY <1>0, <1>1, <2>0, <2>1, <4>1, CellOrder, Numbers
    <3> QED
      BY <1>1, <2>1, <2>2, <3>1
  <2>4. ~(k < i)
    <3>1. ASSUME k < i PROVE CellStart(s, k + 1) <= CellStart(s, i)
      <4>1. k + 1 = i \/ k + 1 < i
        BY <1>0, <2>0, <3>1
      <4> QED
        BY <1>0, <1>1, <2>0, <2>1, <4>1, CellOrder, Numbers
    <3> QED
      BY <1>1, <2>1, <2>2, <3>1
  <2> QED
    BY <1>0, <2>0, <2>3, <2>4
<1> QED
  BY <1>2, <1>3 DEF Lit

LEMMA PulsesSame ==
    ASSUME Margins, NEW s \in Senders, NEW p \in Int, \A k \in Zeros(s) : CellStart(s, k) # p
    PROVE  PulsesTo(s, p) = PulsesTo(s, p - 1)
<1>1. ASSUME NEW k \in Zeros(s) PROVE CellStart(s, k) <= p <=> CellStart(s, k) <= p - 1
  BY CellsEnd
<1> QED
  BY <1>1 DEF PulsesTo

LEMMA PulsesMore ==
    ASSUME Margins, NEW s \in Senders, NEW k \in Zeros(s), NEW n \in Nat, n <= 2 * Latency
    PROVE  /\ PulsesTo(s, CellStart(s, k) + n) = {j \in Zeros(s) : j < k} \cup {k}
           /\ PulsesTo(s, CellStart(s, k) - 1) = {j \in Zeros(s) : j < k}
<1>0. CellStart(s, k) \in Int /\ k \in Nat
  BY CellsEnd
<1>1. ASSUME NEW j \in Zeros(s)
      PROVE  /\ CellStart(s, j) <= CellStart(s, k) + n <=> j < k \/ j = k
             /\ CellStart(s, j) <= CellStart(s, k) - 1 <=> j < k
  <2>0. CellStart(s, j) \in Int /\ j \in Nat
    BY CellsEnd
  <2>1. CASE j < k
    BY <1>0, <2>0, <2>1, CellOrder, Numbers
  <2>2. CASE j = k
    BY <1>0, <2>0, <2>2, Numbers
  <2>3. CASE k < j
    BY <1>0, <2>0, <2>3, CellOrder, Numbers
  <2> QED
    BY <1>0, <2>0, <2>1, <2>2, <2>3
<1> QED
  BY <1>1 DEF PulsesTo

LEMMA PulsesAll ==
    ASSUME Margins, NEW s \in Senders, NEW p \in Int, p >= StopBit * BitTicks
    PROVE  PulsesTo(s, p) = Zeros(s)
<1>1. ASSUME NEW k \in Zeros(s) PROVE CellStart(s, k) <= p
  <2>1. CellStart(s, k) \in Int /\ CellStart(s, k) + 2 * Latency < DataBits * BitTicks + HalfBit
    BY CellsEnd
  <2> QED
    BY <2>1, Numbers, EndNumbers
<1> QED
  BY <1>1 DEF PulsesTo

LEMMA PulsesFirst ==
    ASSUME Margins, NEW s \in Senders, NEW p \in Int, 0 <= p, p <= HalfBit
    PROVE  PulsesTo(s, p) = {0}
<1>1. ASSUME NEW k \in Zeros(s) PROVE CellStart(s, k) <= p <=> k = 0
  <2>1. CellStart(s, k) \in Int /\ k \in Nat /\ (k >= 1 => CellStart(s, k) > HalfBit + 2 * Latency)
    BY CellsEnd
  <2>2. k = 0 => CellStart(s, k) = 0
    BY CellNumbers
  <2> QED
    BY <2>1, <2>2, Numbers
<1>2. 0 \in Zeros(s)
  BY ZeroCells
<1> QED
  BY <1>1, <1>2 DEF PulsesTo

\* A time within the latency of a pulse is in its cell.
LEMMA CellAt ==
    ASSUME NEW n \in Int, NEW k \in Int, k * BitTicks <= n, n < k * BitTicks + BitTicks
    PROVE  n \div BitTicks = k
<1>1. BitTicks \in Nat \ {0}
  BY Numbers
<1> QED
  BY <1>1

LEMMA PulseCell ==
    ASSUME Margins, NEW s \in Senders, NEW k \in Zeros(s), NEW n \in Int,
           CellStart(s, k) - Latency <= n, n <= CellStart(s, k) + Latency
    PROVE  (n + HalfBit) \div BitTicks = k /\ k < EndBit /\ k \in Nat
<1>1. k \in 0 .. DataBits /\ k \in Nat
  BY ZeroCells
<1>2. /\ CellStart(s, k) \in Int /\ k * BitTicks \in Nat
      /\ CellStart(s, k) + 2 * Latency < k * BitTicks + HalfBit
      /\ CellStart(s, k) > k * BitTicks + 2 * Latency - HalfBit
  BY <1>1, CellNumbers
<1>3. n + HalfBit \in Int /\ k * BitTicks <= n + HalfBit /\ n + HalfBit < k * BitTicks + BitTicks
  BY <1>2, Numbers
<1> QED
  BY <1>1, <1>3, CellAt, Numbers

\* A reading in the past and one in the future.
LEMMA SinceAge ==
    ASSUME NEW c, NEW x, NEW n \in Int, Since(c, x, n)
    PROVE  /\ n \in 0 .. CountMod - 1 => Wrap(c - x) = n
           /\ n \in (-CountMod) .. (-1) => Wrap(c - x) = n + CountMod
<1>0. CountMod \in Nat \ {0} /\ x \in Int /\ x + n \in Int /\ -x \in Int
  BY CountsAreInts DEF Since
<1>1. Wrap(Wrap(x + n) + (-x)) = Wrap((x + n) + (-x))
  BY <1>0, WrapPlus
<1>2. Wrap(x + n) \in Int
  BY <1>0, WrapCounts, CountsAreInts
<1>3. c - x = Wrap(x + n) + (-x) /\ (x + n) + (-x) = n
  BY <1>0, <1>2 DEF Since
<1>4. Wrap(c - x) = Wrap(n)
  BY <1>1, <1>3
<1>5. n \in (-CountMod) .. (-1) => Wrap(n) = n + CountMod
  <2>1. ASSUME n \in (-CountMod) .. (-1) PROVE Wrap(n) = n + CountMod
    <3>1. n = (-1) * CountMod + (n + CountMod) /\ n + CountMod \in Counts /\ -1 \in Int
      BY <1>0, <2>1 DEF Counts
    <3> QED
      BY <3>1, WrapUnique
  <2> QED
    BY <2>1
<1> QED
  BY <1>4, <1>5, CountsAreInts

-----------------------------------------------------------------------------
(* The sender's ticks                                                      *)

LEMMA SenderInts ==
    ASSUME Margins, Typed, sender.on
    PROVE  /\ sender.gap \in Int /\ sender.gap \in front.gaps /\ GapOK(front, sender.gap)
           /\ sender.phase \in Nat /\ LastPhase(sender) = EndTicks + sender.gap - 1
           /\ LastPhase(sender) \in Int /\ quiet = 0 /\ sender \in Senders
<1>1. sender.gap \in front.gaps /\ front \in Fronts /\ sender.phase \in Nat /\ quiet = 0 /\ sender \in Senders
  BY DEF Typed, LineTyped, Senders
<1>2. sender.gap \in Int /\ GapOK(front, sender.gap)
  BY <1>1 DEF Margins
<1> QED
  BY <1>1, <1>2, EndNumbers DEF LastPhase, EndTicks

LEMMA TwiceLatency ==
    ASSUME Margins
    PROVE  2 * Latency < HalfBit
BY Numbers DEF Margins

\* A gap never takes half a bit off a character.
LEMMA GapLength ==
    ASSUME Margins, front \in Fronts, NEW g \in front.gaps
    PROVE  g \in Int /\ g >= -HalfBit /\ GapOK(front, g)
<1>1. g \in Int /\ GapOK(front, g)
  BY DEF Margins
<1> QED
  BY <1>1, Numbers DEF GapOK

GoesOn ==
    /\ sender.on /\ sender'.on /\ sender'.phase = sender.phase + 1 /\ sender'.phase <= LastPhase(sender)
    /\ sender'.data = sender.data /\ sender'.drift = sender.drift /\ sender'.gap = sender.gap
    /\ Zeros(sender') = Zeros(sender) /\ \A k : CellStart(sender', k) = CellStart(sender, k)
    /\ \A p : Lit(sender', p) = Lit(sender, p)
    /\ owed' = owed /\ quiet' = 0
Begins ==
    /\ sender'.on /\ sender'.phase = 0 /\ sender' \in Senders
    /\ sender.on => sender.phase = LastPhase(sender)
    /\ ~sender.on => quiet = QuietTicks
    /\ owed' = Append(owed, sender'.data) /\ quiet' = 0
Falls ==
    /\ ~sender'.on /\ sender' = Silence /\ owed' = owed
    /\ sender.on => sender.phase = LastPhase(sender) /\ quiet' = 1
    /\ ~sender.on => quiet' = IF quiet < QuietTicks THEN quiet + 1 ELSE quiet

LEMMA TickCases ==
    ASSUME Margins, Typed, Clean, Tick
    PROVE  GoesOn \/ Begins \/ Falls
<1>1. CASE SenderGoesOn
  <2>1. /\ sender.on /\ sender.phase < LastPhase(sender) /\ owed' = owed /\ quiet' = quiet
        /\ sender' = [sender EXCEPT !.phase = @ + 1]
    BY <1>1 DEF SenderGoesOn, Going
  <2>2. sender \in Senders /\ sender.phase \in Nat /\ LastPhase(sender) \in Int /\ quiet = 0
    BY <2>1, SenderInts
  <2>3. /\ sender'.on = sender.on /\ sender'.phase = sender.phase + 1 /\ sender'.data = sender.data
        /\ sender'.drift = sender.drift /\ sender'.gap = sender.gap
    BY <2>1, <2>2 DEF Senders
  <2>4. Zeros(sender') = Zeros(sender) /\ \A k : CellStart(sender', k) = CellStart(sender, k)
    BY <2>3 DEF Zeros, CellStart
  <2>5. \A p : Lit(sender', p) = Lit(sender, p)
    BY <2>3, <2>4 DEF Lit
  <2>6. sender'.phase <= LastPhase(sender)
    BY <2>1, <2>2, <2>3
  <2> QED
    BY <2>1, <2>2, <2>3, <2>4, <2>5, <2>6 DEF GoesOn
<1>2. CASE SenderStarts
  <2>1. /\ ~Going /\ (sender.on \/ quiet = QuietTicks) /\ sender' \in Characters
        /\ owed' = Append(owed, sender'.data) /\ quiet' = 0
    BY <1>2 DEF SenderStarts
  <2>2. sender'.on = TRUE /\ sender'.phase = 0
    BY <2>1 DEF Characters
  <2>3. sender' \in Senders
    <3>1. front' = front /\ sender' \in Senders'
      BY TypedTick DEF Tick, Typed, LineTyped
    <3> QED
      BY <3>1 DEF Senders
  <2>4. sender.on => sender.phase = LastPhase(sender)
    BY <2>1, SenderInts DEF Going, Clean
  <2> QED
    BY <2>1, <2>2, <2>3, <2>4 DEF Begins
<1>3. CASE SenderStops
  <2>1. /\ ~Going /\ sender' = Silence /\ owed' = owed
        /\ quiet' = IF quiet < QuietTicks THEN quiet + 1 ELSE quiet
    BY <1>3 DEF SenderStops
  <2>2. ~sender'.on
    BY <2>1 DEF Silence
  <2>3. ASSUME sender.on PROVE sender.phase = LastPhase(sender) /\ quiet' = 1
    <3>1. sender.phase = LastPhase(sender) /\ quiet = 0
      BY <2>1, <2>3, SenderInts DEF Going, Clean
    <3> QED
      BY <2>1, <3>1, Numbers
  <2> QED
    BY <2>1, <2>2, <2>3 DEF Falls
<1> QED
  BY <1>1, <1>2, <1>3 DEF Tick

LEMMA CleanTick ==
    ASSUME Margins, Typed, Clean, Tick
    PROVE  Clean'
<1>1. wrong' = wrong /\ front' = front
  BY DEF Tick
<1>2. CASE GoesOn
  <2>1. LastPhase(sender') = LastPhase(sender)
    BY <1>2 DEF GoesOn, LastPhase
  <2> QED
    BY <1>1, <1>2, <2>1 DEF Clean, GoesOn, LastPhase
<1>3. CASE Begins
  <2>1. Typed' /\ sender'.on
    BY <1>3, TypedTick DEF Begins
  <2>2. sender'.gap \in front.gaps /\ front \in Fronts
    BY <1>1, <2>1 DEF Typed, LineTyped
  <2>3. sender'.gap \in Int /\ sender'.gap >= -HalfBit
    BY <2>2, GapLength
  <2>4. LastPhase(sender') = EndTicks + sender'.gap - 1
    BY DEF LastPhase, EndTicks
  <2>5. 2 * HalfBit <= EndTicks /\ EndTicks >= 2 /\ EndTicks \in Nat
    BY EndNumbers, Numbers
  <2>6. 0 <= LastPhase(sender')
    BY <2>3, <2>4, <2>5, Numbers
  <2> QED
    BY <1>1, <1>3, <2>6 DEF Clean, Begins, LastPhase
<1>4. CASE Falls
  BY <1>1, <1>4 DEF Clean, Falls
<1> QED
  BY <1>2, <1>3, <1>4, TickCases

-----------------------------------------------------------------------------
(* The polling board                                                       *)

LEMMA PollTick ==
    ASSUME Margins, Typed, Clean, PollInv, Tick
    PROVE  PollInv'
<1>1. /\ late = 0 /\ late' = 1 /\ rx' = rx /\ was' = was /\ front' = front /\ count' = Wrap(count + 1)
  <2>1. ~Interrupts /\ Pending /\ late < 1
    BY DEF PollInv, Tick, Pending, Allowed
  <2>2. late = 0
    BY <2>1 DEF PollInv, PollDone, PollDue, PollStart, PollRests
  <2> QED
    BY <2>1, <2>2 DEF Tick
<1>2. front'.enc = "irda" /\ ~Interrupts'
  BY <1>1 DEF PollInv, Interrupts
<1>3. PollDone \/ PollRests
  BY <1>1 DEF PollInv, PollDue, PollStart
<1>4. CASE PollDone
  <2>1. sender.on /\ sender.phase < EndTicks /\ sender.phase \in Nat /\ PollByte(sender.phase)
    BY <1>4, SenderInts DEF PollDone, PollByte
  <2>2. sender.gap >= 1 /\ LastPhase(sender) = EndTicks + sender.gap - 1 /\ sender.gap \in Int
    BY <2>1, SenderInts DEF PollInv, GapOK, Interrupts
  <2>3. GoesOn
    BY <2>1, <2>2, TickCases, EndNumbers DEF Begins, Falls
  <2>4. sender'.phase - 1 = sender.phase /\ 0 < sender'.phase /\ sender'.phase <= EndTicks
    BY <2>1, <2>3, EndNumbers DEF GoesOn
  <2>5. Since(count', rx.t0, sender.phase + 1)
    BY <1>1, <2>1, SinceTick DEF PollByte
  <2>6. {k \in Zeros(sender') : CellStart(sender', k) <= sender.phase} =
        {k \in Zeros(sender) : CellStart(sender, k) <= sender.phase}
    BY <2>3 DEF GoesOn
  <2> QED
    BY <1>1, <1>2, <2>1, <2>3, <2>4, <2>5, <2>6 DEF PollInv, PollDue, PollByte, GoesOn, Since, Lit
<1>5. CASE PollRests
  <2>1. was = FALSE /\ rx = Idle /\ owed = <<>> /\ (sender.on => sender.phase >= EndTicks)
    BY <1>1, <1>5, EndNumbers DEF PollRests
  <2>2. CASE GoesOn
    BY <1>1, <1>2, <2>1, <2>2, EndNumbers, SenderInts DEF PollInv, PollRests, GoesOn
  <2>3. CASE Begins
    <3>1. owed' = <<sender'.data>>
      BY <2>1, <2>3 DEF Begins
    <3> QED
      BY <1>1, <1>2, <2>1, <2>3, <3>1 DEF PollInv, PollStart, Begins
  <2>4. CASE Falls
    BY <1>1, <1>2, <2>1, <2>4 DEF PollInv, PollRests, Falls
  <2> QED
    BY <2>2, <2>3, <2>4, TickCases
<1> QED
  BY <1>3, <1>4, <1>5

\* A poll finds the end of the byte when it is due.
LEMMA EndElapsed ==
    ASSUME NEW x, NEW n \in 0 .. EndTicks, Since(count, x, n)
    PROVE  Elapsed(EndTime(x)) <=> n = EndTicks
<1>0. EndTicks \in Nat /\ CountMod \in Nat \ {0} /\ 2 * EndTicks + 2 * BitTicks < CountMod /\ BitTicks \in Nat \ {0}
  BY EndNumbers, Numbers
<1>1. Since(count, EndTime(x), n - EndTicks)
  BY <1>0, SinceShift DEF EndTime, EndTicks
<1>2. n - EndTicks \in Int
  BY <1>0
<1>3. CASE n = EndTicks
  <2>1. n - EndTicks \in 0 .. CountMod - 1 /\ n - EndTicks = 0
    BY <1>0, <1>3
  <2>2. Wrap(count - EndTime(x)) = 0
    BY <1>1, <1>2, <2>1, SinceAge
  <2>3. 0 < CountMod \div 2
    BY <1>0
  <2> QED
    BY <1>3, <2>2, <2>3 DEF Elapsed
<1>4. CASE n # EndTicks
  <2>1. n - EndTicks \in (-CountMod) .. (-1)
    BY <1>0, <1>4
  <2>2. Wrap(count - EndTime(x)) = n - EndTicks + CountMod
    BY <1>1, <1>2, <2>1, SinceAge
  <2>3. ~(n - EndTicks + CountMod < CountMod \div 2)
    BY <1>0
  <2> QED
    BY <1>4, <2>2, <2>3 DEF Elapsed
<1> QED
  BY <1>3, <1>4

\* A whole character's pulses are its byte.
LEMMA FinishWhole ==
    ASSUME NEW s \in Senders, owed = <<s.data>>, FinishMask(Zeros(s))
    PROVE  owed' = <<>> /\ wrong' = wrong
<1>1. Received(s.data)
  BY ZeroCells DEF FinishMask
<1>2. owed # <<>> /\ Head(owed) = s.data /\ Tail(owed) = <<>>
  OBVIOUS
<1> QED
  BY <1>1, <1>2 DEF Received

LEMMA PollPoll ==
    ASSUME Margins, Typed, Clean, PollInv, Poll
    PROVE  PollInv' /\ wrong' = wrong
<1>1. /\ late > 0 /\ late' = 0 /\ was' = Light /\ sender' = sender /\ quiet' = quiet
      /\ front' = front /\ count' = count
      /\ PollIdle \/ PollNrz \/ PollIrda
  BY DEF Poll, airVars
<1>2. front'.enc = "irda" /\ ~Interrupts' /\ front.enc = "irda" /\ sender \in Senders
  BY <1>1 DEF PollInv, Interrupts, Typed, LineTyped
<1>3. late = 1 /\ (PollDue \/ PollStart \/ PollRests)
  BY <1>1 DEF PollInv, PollDone, PollDue, PollStart, PollRests
<1>4. CASE PollRests
  <2>1. was = FALSE /\ rx = Idle /\ owed = <<>> /\ (sender.on => sender.phase >= EndTicks + 1)
    BY <1>3, <1>4 DEF PollRests
  <2>2. ~Light
    <3>1. CASE sender.on
      <4>1. sender.phase \in Int /\ sender.phase >= StopBit * BitTicks + HalfBit
        BY <2>1, <3>1, SenderInts, EndNumbers, Numbers
      <4> QED
        BY <1>2, <4>1, DarkStop DEF Light
    <3>2. CASE ~sender.on
      BY <3>2 DEF Light, Lit
    <3> QED
      BY <3>1, <3>2
  <2>3. rx' = Idle /\ Dropped
    BY <1>1, <2>1, <2>2 DEF PollIdle, PollNrz, PollIrda, Receiving, Rising
  <2>4. was' = FALSE
    BY <1>1, <2>2 DEF Light, Lit, Typed, LineTyped, Senders
  <2>5. sender'.on => sender'.phase >= EndTicks + late'
    BY <1>1, <2>1, SenderInts, EndNumbers
  <2> QED
    BY <1>1, <1>2, <2>1, <2>3, <2>4, <2>5 DEF PollInv, PollRests, Dropped
<1>5. CASE PollStart
  <2>1. sender.on /\ sender.phase = 0 /\ was = FALSE /\ rx = Idle /\ owed = <<sender.data>>
    BY <1>5 DEF PollStart
  <2>2. 0 \in Zeros(sender) /\ sender.phase = CellStart(sender, 0)
    BY <1>2, <2>1, ZeroCells, CellNumbers
  <2>3. Lit(sender, sender.phase)
    BY <1>2, <2>1, <2>2, PulseRises
  <2>4. rx' = Start(count, 0) /\ Dropped
    BY <1>1, <2>1, <2>3 DEF PollIdle, PollNrz, PollIrda, Receiving, Rising, Light
  <2>5. rx' = Byte(count, 0, {}, {0}) /\ rx'.t0 = count
    BY <2>4 DEF Start, Byte
  <2>6. Since(count, count, 0)
    BY SinceNow DEF Typed
  <2>7. PulsesTo(sender, 0) = {0}
    BY <1>2, PulsesFirst, Numbers
  <2>8. {k \in Zeros(sender') : CellStart(sender', k) <= sender'.phase} = {0}
    BY <1>1, <2>1, <2>7 DEF PulsesTo
  <2>9. was' = Lit(sender, sender.phase)'
    BY <1>1 DEF Light, Lit
  <2>10. sender'.on /\ owed' = <<sender'.data>> /\ Since(count', rx'.t0, sender'.phase)
    BY <1>1, <2>1, <2>4, <2>5, <2>6 DEF Dropped
  <2>11. 0 < EndTicks
    BY EndNumbers, Numbers
  <2>12. PollDone'
    BY <1>1, <2>1, <2>5, <2>8, <2>9, <2>10, <2>11 DEF PollDone, PollByte
  <2> QED
    BY <1>2, <2>4, <2>12 DEF PollInv, Dropped
<1>6. CASE PollDue
  <2> DEFINE p == sender.phase
             cell == CellOf(count)
             m == IF Rising /\ cell < EndBit THEN rx.mask \cup {cell} ELSE rx.mask
  <2>1. /\ sender.on /\ 0 < p /\ p <= EndTicks /\ p \in Nat /\ EndTicks \in Nat
        /\ owed = <<sender.data>> /\ Since(count, rx.t0, p) /\ was = Lit(sender, p - 1)
        /\ rx = Byte(rx.t0, 0, {}, PulsesTo(sender, p - 1))
    BY <1>6, SenderInts, EndNumbers DEF PollDue, PollByte, PulsesTo
  <2>2. Receiving /\ rx.mask = PulsesTo(sender, p - 1) /\ rx.t0 \in Counts
    BY <2>1, CountsAreInts DEF Receiving, Idle, Byte, Since
  <2>3. cell = (p + HalfBit) \div BitTicks
    <3>1. Wrap(count - rx.t0) = p
      <4>1. p \in 0 .. CountMod - 1
        BY <2>1, EndNumbers, Numbers
      <4> QED
        BY <2>1, <4>1, SinceAge
    <3> QED
      BY <3>1 DEF CellOf
  <2>4. Rising <=> Rises(sender)
    BY <2>1 DEF Rising, Rises, Light
  <2>5. PollIrda
    BY <1>1, <1>2, <2>2 DEF PollIdle, PollNrz
  <2>6. IF Elapsed(EndTime(rx.t0)) THEN FinishMask(m) /\ rx' = Idle
                                   ELSE Dropped /\ rx' = [rx EXCEPT !.mask = m]
    BY <2>5 DEF PollIrda
  <2>7. m = PulsesTo(sender, p)
    <3>1. CASE Rises(sender)
      <4>1. PICK k \in Zeros(sender) : p = CellStart(sender, k)
        BY <1>2, <3>1, RisesAtCell
      <4>2. cell = k /\ k < EndBit
        BY <1>2, <2>1, <2>3, <4>1, PulseCell, Numbers
      <4>3. PulsesTo(sender, p + 0) = {j \in Zeros(sender) : j < k} \cup {k}
            /\ PulsesTo(sender, p - 1) = {j \in Zeros(sender) : j < k}
        BY <1>2, <4>1, PulsesMore, Numbers
      <4>4. m = rx.mask \cup {k}
        BY <2>4, <3>1, <4>2
      <4> HIDE DEF m
      <4> QED
        BY <2>1, <2>2, <4>3, <4>4
    <3>2. CASE ~Rises(sender)
      <4>1. \A k \in Zeros(sender) : CellStart(sender, k) # p
        BY <1>2, <2>1, <3>2, PulseRises
      <4>2. PulsesTo(sender, p) = PulsesTo(sender, p - 1)
        BY <1>2, <2>1, <4>1, PulsesSame
      <4>3. m = rx.mask
        BY <2>4, <3>2
      <4> HIDE DEF m
      <4> QED
        BY <2>2, <4>2, <4>3
    <3> QED
      BY <3>1, <3>2
  <2>8. Elapsed(EndTime(rx.t0)) <=> p = EndTicks
    BY <2>1, EndElapsed
  <2> HIDE DEF m, cell
  <2>9. CASE p = EndTicks
    <3>1. FinishMask(m) /\ rx' = Idle
      BY <2>6, <2>8, <2>9
    <3>2. p \in Int /\ p >= StopBit * BitTicks + HalfBit
      BY <2>1, <2>9, EndNumbers, Numbers
    <3>3. m = Zeros(sender)
      <4>1. p >= StopBit * BitTicks
        BY <3>2, Numbers, EndNumbers
      <4> QED
        BY <1>2, <2>7, <3>2, <4>1, PulsesAll
    <3>4. owed' = <<>> /\ wrong' = wrong
      BY <1>2, <2>1, <3>1, <3>3, FinishWhole
    <3>5. was' = FALSE
      <4>1. ~Lit(sender, p)
        BY <1>2, <3>2, DarkStop
      <4>2. Light \in BOOLEAN
        BY <2>1 DEF Light, Lit
      <4> QED
        BY <1>1, <4>1, <4>2 DEF Light
    <3>6. sender'.on => sender'.phase >= EndTicks + late'
      BY <1>1, <2>1, <2>9
    <3>7. PollRests'
      BY <1>1, <3>1, <3>4, <3>5, <3>6 DEF PollRests
    <3> QED
      BY <1>2, <3>4, <3>7 DEF PollInv
  <2>10. CASE p # EndTicks
    <3>1. Dropped /\ rx' = [rx EXCEPT !.mask = m]
      BY <2>6, <2>8, <2>10
    <3>2. rx' = Byte(rx.t0, 0, {}, PulsesTo(sender, p)) /\ rx'.t0 = rx.t0
      BY <2>1, <2>7, <3>1 DEF Byte
    <3>3. was' = Lit(sender, sender.phase)'
      BY <1>1 DEF Light, Lit
    <3>4. {k \in Zeros(sender') : CellStart(sender', k) <= sender'.phase} = PulsesTo(sender, p)
      BY <1>1 DEF PulsesTo
    <3>5. sender'.on /\ owed' = <<sender'.data>> /\ Since(count', rx'.t0, sender'.phase)
      BY <1>1, <2>1, <3>1, <3>2 DEF Dropped
    <3>6. sender'.phase < EndTicks
      BY <1>1, <2>1, <2>10
    <3>7. PollDone'
      BY <1>1, <3>2, <3>3, <3>4, <3>5, <3>6 DEF PollDone, PollByte
    <3> QED
      BY <1>2, <3>1, <3>7 DEF PollInv, Dropped
  <2> QED
    BY <2>9, <2>10
<1> QED
  BY <1>3, <1>4, <1>5, <1>6

-----------------------------------------------------------------------------
(* The interrupts: what the encodings share                                *)

\* A tick as the boards with interrupts see it.
LEMMA InterruptTick ==
    ASSUME Margins, Typed, Interrupts, Tick
    PROVE  /\ front' = front /\ wrong' = wrong /\ rx' = rx /\ cc' = cc /\ clearing' = clearing
           /\ count' = Wrap(count + 1) /\ count' \in Counts /\ Interrupts'
           /\ (edge # Never \/ compare \/ clearing) => late < Latency /\ late' = late + 1
           /\ edge = Never /\ ~compare /\ ~clearing => late' = 0
           /\ edge' = (IF Rises(sender') THEN count' ELSE edge)
           /\ (compare' <=> (compare \/ count' = cc))
           /\ (late <= Latency => late' <= Latency) /\ late \in Nat
<1>1. /\ front' = front /\ wrong' = wrong /\ rx' = rx /\ cc' = cc /\ clearing' = clearing
      /\ count' = Wrap(count + 1) /\ count' \in Counts
  BY TimesTyped DEF Tick, Typed
<1>2. Pending <=> (edge # Never \/ compare \/ clearing)
  BY DEF Pending
<1>3. Interrupts'
  BY <1>1 DEF Interrupts
<1>4. late \in Nat /\ Latency \in Nat
  BY Numbers DEF Typed
<1>5. (Pending => late < Latency) /\ late' = IF Pending THEN late + 1 ELSE 0
  BY DEF Tick, Allowed
<1>6. edge' = (IF Rises(sender') THEN count' ELSE edge) /\ (compare' <=> (compare \/ count' = cc))
  BY DEF Tick
<1> QED
  BY <1>1, <1>2, <1>3, <1>4, <1>5, <1>6

\* An idle receiver has no compare to meet.
LEMMA IdleTick ==
    ASSUME Margins, Typed, Interrupts, Tick, rx = Idle
    PROVE  compare = FALSE /\ compare' = FALSE /\ cc = Never
<1>1. cc = Never /\ ~compare
  BY DEF Typed, Receiving
<1>2. count' # Never
  BY InterruptTick, CountsAreInts
<1>3. compare \in BOOLEAN /\ compare' \in BOOLEAN
  BY TypedTick DEF Typed
<1>4. ~compare'
  BY <1>1, <1>2, InterruptTick
<1> QED
  BY <1>1, <1>3, <1>4

LEMMA BeginWaits ==
    ASSUME Margins, Typed, Clean, Interrupts, Tick, Begins,
           rx = Idle, owed = <<>>, edge = Never, ~clearing
    PROVE  StartWaits' /\ late' = 0
<1>1. sender' \in Senders /\ sender'.on /\ sender'.phase = 0 /\ owed' = <<sender'.data>>
  BY DEF Begins
<1>2. Rises(sender')
  <2>1. 0 \in Zeros(sender') /\ CellStart(sender', 0) = 0
    BY <1>1, ZeroCells, CellNumbers
  <2> QED
    BY <1>1, <2>1, PulseRises
<1>3. edge' = count' /\ count' \in Counts /\ rx' = Idle /\ clearing' = clearing /\ late' = 0
  BY <1>2, InterruptTick, IdleTick
<1>4. Since(count', count', 0) /\ count' # Never
  BY <1>3, SinceNow, CountsAreInts
<1> QED
  BY <1>1, <1>3, <1>4 DEF StartWaits

\* A character is longer than the latency.
LEMMA LongEnough ==
    ASSUME Margins, Typed, Clean, sender.on, sender.phase <= Latency, Tick
    PROVE  GoesOn
<1>1. sender.gap >= -HalfBit /\ sender.gap \in Int /\ LastPhase(sender) = EndTicks + sender.gap - 1
  BY SenderInts, GapLength DEF Typed, LineTyped
<1>2. 2 * Latency < HalfBit
  BY TwiceLatency
<1>3. sender.phase # LastPhase(sender)
  BY <1>1, <1>2, Numbers, EndNumbers, SenderInts
<1> QED
  BY <1>3, TickCases DEF Begins, Falls

LEMMA StartTick ==
    ASSUME Margins, Typed, Clean, Interrupts, Tick, StartWaits, late <= Latency
    PROVE  StartWaits'
<1>1. /\ sender.on /\ sender.phase = late /\ edge # Never /\ Since(count, edge, late)
      /\ rx = Idle /\ ~clearing /\ owed = <<sender.data>>
  BY DEF StartWaits
<1>2. late < Latency /\ late' = late + 1 /\ late \in Nat /\ count' = Wrap(count + 1)
      /\ rx' = rx /\ clearing' = clearing
  BY <1>1, InterruptTick
<1>3. GoesOn
  BY <1>1, LongEnough
<1>4. sender \in Senders /\ sender' \in Senders
  <2>1. Senders' = Senders
    BY InterruptTick DEF Senders
  <2> QED
    BY <2>1, TypedTick DEF Typed, LineTyped
<1>5. ~Rises(sender')
  <2>1. ASSUME Rises(sender') PROVE FALSE
    <3>1. PICK k \in Zeros(sender') : sender'.phase = CellStart(sender', k)
      BY <1>4, <2>1, RisesAtCell
    <3>2. CellStart(sender', k) \in Int /\ k \in Nat
          /\ (k >= 1 => CellStart(sender', k) > HalfBit + 2 * Latency)
      BY <1>4, CellsEnd
    <3>3. k = 0 => CellStart(sender', k) = 0
      BY <1>4, CellNumbers
    <3>4. sender'.phase = late + 1
      BY <1>1, <1>3 DEF GoesOn
    <3> QED
      BY <1>2, <3>1, <3>2, <3>3, <3>4, Numbers
  <2> QED
    BY <2>1
<1>6. edge' = edge
  BY <1>5, InterruptTick
<1>7. Since(count', edge', late')
  BY <1>1, <1>2, <1>6, SinceTick
<1> QED
  BY <1>1, <1>2, <1>3, <1>6, <1>7 DEF StartWaits, GoesOn

-----------------------------------------------------------------------------
(* NRZ                                                                     *)

LEMMA OffsetParts ==
    ASSUME Margins, sender \in Senders, NEW o \in Int, NEW i \in Int, NrzOffset(o, i)
    PROVE  \E l \in 0 .. Latency, e \in {0, sender.drift} :
              /\ o = l + e /\ e \in Int /\ l \in Int
              /\ 2 * Latency + e < HalfBit /\ 2 * Latency - e < HalfBit
              /\ (e # 0 => 2 * i > DataBits)
<1>1. \A e \in {0, sender.drift} : e \in Int /\ 2 * Latency + e < HalfBit /\ 2 * Latency - e < HalfBit
  BY DEF Margins, Senders
<1>2. Offsets \subseteq 0 .. Latency
  BY Numbers DEF Offsets
<1>3. CASE o \in Offsets
  <2>1. o \in 0 .. Latency /\ o = o + 0
    BY <1>2, <1>3
  <2> QED
    BY <1>1, <2>1
<1>4. CASE 2 * i > DataBits /\ o - sender.drift \in Offsets
  <2>1. sender.drift \in Int
    BY <1>1
  <2>2. o - sender.drift \in 0 .. Latency /\ o = (o - sender.drift) + sender.drift
    BY <1>2, <1>4, <2>1
  <2> QED
    BY <1>1, <1>4, <2>2
<1> QED
  BY <1>3, <1>4 DEF NrzOffset

\* A bit is sampled within its cell, and its compare is served there.
LEMMA SampleInCell ==
    ASSUME Margins, sender \in Senders, NEW o \in Int, NEW i \in 1 .. StopBit, NrzOffset(o, i)
    PROVE  /\ CellStart(sender, i) <= i * BitTicks + HalfBit + o
           /\ i * BitTicks + HalfBit + o + Latency < CellStart(sender, i + 1)
           /\ i * BitTicks \in Nat /\ CellStart(sender, i + 1) \in Int
           /\ o + Latency < HalfBit /\ -o < HalfBit
<1>0. i \in Nat /\ i + 1 \in Nat /\ (i + 1) * BitTicks = i * BitTicks + BitTicks
  BY BitsNat, Numbers
<1>1. PICK l \in 0 .. Latency, e \in {0, sender.drift} :
              /\ o = l + e /\ e \in Int /\ l \in Int
              /\ 2 * Latency + e < HalfBit /\ 2 * Latency - e < HalfBit
              /\ (e # 0 => 2 * i > DataBits)
  BY <1>0, OffsetParts
<1>2. PICK d \in {0, sender.drift} :
              /\ d \in Int /\ 2 * Latency + d < HalfBit /\ 2 * Latency - d < HalfBit
              /\ i * BitTicks \in Nat /\ CellStart(sender, i) = i * BitTicks + d
              /\ (2 * i > DataBits => d = sender.drift)
  BY <1>0, CellPlace
<1>3. PICK f \in {0, sender.drift} :
              /\ f \in Int /\ 2 * Latency + f < HalfBit /\ 2 * Latency - f < HalfBit
              /\ CellStart(sender, i + 1) = (i + 1) * BitTicks + f
              /\ (2 * (i + 1) > DataBits => f = sender.drift)
  BY <1>0, CellPlace
<1>4. e # 0 => d = e /\ f = e
  <2>1. 2 * i > DataBits => 2 * (i + 1) > DataBits
    BY <1>0, Numbers
  <2> QED
    BY <1>1, <1>2, <1>3, <2>1
<1>5. l >= 0 /\ l <= Latency /\ Latency \in Nat
  BY <1>1, Numbers
<1>6. CellStart(sender, i) <= i * BitTicks + HalfBit + o
  BY <1>1, <1>2, <1>4, <1>5, Numbers
<1>7. i * BitTicks + HalfBit + o + Latency < CellStart(sender, i + 1)
  BY <1>0, <1>1, <1>2, <1>3, <1>4, <1>5, Numbers
<1> QED
  BY <1>0, <1>1, <1>2, <1>3, <1>5, <1>6, <1>7, Numbers

\* The edge served before the compare of bit i is the one of cell i, and the compare
\* does not come while it waits.
LEMMA EdgeIndex ==
    ASSUME Margins, sender \in Senders, NEW o \in Int, NEW i \in 1 .. StopBit, NrzOffset(o, i),
           NEW k \in Zeros(sender), k >= 1, NEW l \in 0 .. Latency,
           CellStart(sender, k) + l - o <= i * BitTicks + HalfBit,
           i > 1 => CellStart(sender, k) + l - o >= (i - 1) * BitTicks + HalfBit
    PROVE  k = i /\ CellStart(sender, k) + Latency - o < i * BitTicks + HalfBit
<1>0. i \in Nat /\ i - 1 \in Nat /\ i * BitTicks = (i - 1) * BitTicks + BitTicks /\ k \in Nat
  <2>1. i \in Nat /\ i - 1 \in Nat /\ i = (i - 1) + 1
    BY Numbers
  <2> QED
    BY <2>1, BitsNat, ZeroCells
<1>1. PICK m \in 0 .. Latency, e \in {0, sender.drift} :
              /\ o = m + e /\ e \in Int /\ m \in Int
              /\ 2 * Latency + e < HalfBit /\ 2 * Latency - e < HalfBit
              /\ (e # 0 => 2 * i > DataBits)
  BY <1>0, OffsetParts
<1>2. PICK d \in {0, sender.drift} :
              /\ d \in Int /\ 2 * Latency + d < HalfBit /\ 2 * Latency - d < HalfBit
              /\ k * BitTicks \in Nat /\ CellStart(sender, k) = k * BitTicks + d
              /\ (2 * k > DataBits => d = sender.drift)
  BY <1>0, CellPlace
<1>3. l >= 0 /\ l <= Latency /\ m >= 0 /\ m <= Latency /\ Latency \in Nat /\ l \in Int
      /\ HalfBit \in Nat /\ BitTicks >= 2 * HalfBit /\ BitTicks \in Nat
  BY <1>1, Numbers
<1>4. d = e \/ d = 0 \/ e = 0
  BY <1>1, <1>2
<1>5. d - e + l - m < HalfBit /\ d - e + l - m > -HalfBit
  BY <1>1, <1>2, <1>3, <1>4
<1>6. CellStart(sender, k) + l - o = k * BitTicks + (d - e + l - m)
  BY <1>1, <1>2, <1>3
<1>7. ~(i < k)
  <2>1. ASSUME i < k PROVE FALSE
    <3>1. i * BitTicks + BitTicks <= k * BitTicks
      BY <1>0, <2>1, BitsLater
    <3> QED
      BY <1>0, <1>1, <1>2, <1>3, <1>5, <1>6, <3>1
  <2> QED
    BY <2>1
<1>8. ~(k < i)
  <2>1. ASSUME k < i PROVE FALSE
    <3>1. k * BitTicks + BitTicks <= i * BitTicks /\ i > 1
      BY <1>0, <2>1, BitsLater
    <3>2. CellStart(sender, k) + l - o >= (i - 1) * BitTicks + HalfBit
      BY <3>1
    <3>3. (i - 1) * BitTicks \in Nat
      BY <1>0, BitsNat
    <3> QED
      BY <1>0, <1>1, <1>2, <1>3, <1>5, <1>6, <3>1, <3>2, <3>3
  <2> QED
    BY <2>1
<1>9. k = i
  BY <1>0, <1>7, <1>8
<1>10. e # 0 => d = e
  BY <1>1, <1>2, <1>9
<1>11. CellStart(sender, k) + Latency - o < i * BitTicks + HalfBit
  BY <1>1, <1>2, <1>3, <1>9, <1>10
<1> QED
  BY <1>9, <1>11

\* With NRZ the character is dark from the stop bit's start.
LEMMA DarkNrz ==
    ASSUME Margins, NEW s \in Senders, front.enc = "nrz", NEW p \in Int, p >= CellStart(s, StopBit)
    PROVE  ~Lit(s, p)
<1>1. ASSUME NEW k \in Zeros(s) PROVE p \notin CellStart(s, k) .. (CellStart(s, k + 1) - 1)
  <2>0. k \in 0 .. DataBits /\ k \in Nat /\ k + 1 \in Nat /\ StopBit \in Nat
    BY ZeroCells, Numbers
  <2>1. CellStart(s, k) \in Int /\ CellStart(s, k + 1) \in Int /\ CellStart(s, StopBit) \in Int
    BY <2>0, CellNumbers
  <2>2. CellStart(s, k + 1) <= CellStart(s, StopBit)
    <3>1. CASE k + 1 = StopBit
      BY <2>1, <3>1
    <3>2. CASE k + 1 < StopBit
      BY <2>0, <2>1, <3>2, CellOrder, Numbers
    <3> QED
      BY <2>0, <3>1, <3>2, Numbers
  <2> QED
    BY <2>1, <2>2
<1> QED
  BY <1>1 DEF Lit

LEMMA NrzGoesOn ==
    ASSUME Margins, Typed, Clean, Interrupts, front.enc = "nrz", Tick, late <= Latency,
           NEW o \in Int, NrzAt(o, rx.index, sender.phase - o)
    PROVE  /\ GoesOn /\ rx.index \in 1 .. StopBit /\ sender.phase \in Nat
           /\ sender.phase - o <= rx.index * BitTicks + HalfBit + Latency
           /\ rx.index * BitTicks \in Nat /\ rx.index * BitTicks + HalfBit < CountMod
           /\ sender.phase - o + 1 < CountMod /\ rx.t0 \in Counts
<1> DEFINE i == rx.index
           p == sender.phase
<1>1. /\ sender.on /\ NrzOffset(o, i) /\ i \in 1 .. StopBit /\ rx.t0 \in Counts
      /\ IF compare THEN p - o = i * BitTicks + HalfBit + late ELSE p - o < i * BitTicks + HalfBit
  BY DEF NrzAt, Since
<1>2. sender \in Senders /\ p \in Nat /\ LastPhase(sender) = EndTicks + sender.gap - 1
      /\ sender.gap \in Int /\ sender.gap >= 0
  BY <1>1, SenderInts DEF GapOK
<1>3. compare => late < Latency
  BY InterruptTick
<1>4. i * BitTicks \in Nat /\ o + Latency < HalfBit
  BY <1>1, <1>2, SampleInCell
<1>5. i * BitTicks <= StopBit * BitTicks
  <2>1. CASE i = StopBit
    BY <2>1, EndNumbers
  <2>2. CASE i < StopBit
    BY <1>1, <2>2, BitsLater, Numbers
  <2> QED
    BY <1>1, <2>1, <2>2, Numbers
<1>6. 2 * Latency < HalfBit /\ Latency \in Nat /\ late \in Nat
  BY Numbers DEF Margins, Typed
<1> HIDE DEF i, p
<1>7. p - o <= i * BitTicks + HalfBit + Latency /\ p + 1 < EndTicks
  <2>1. CASE compare
    <3>1. p - o < i * BitTicks + HalfBit + Latency
      BY <1>1, <1>2, <1>3, <1>4, <1>6, <2>1, Numbers
    <3> QED
      BY <1>2, <1>4, <1>5, <1>6, <3>1, Numbers, EndNumbers
  <2>2. CASE ~compare
    <3>1. p - o < i * BitTicks + HalfBit
      BY <1>1, <2>2
    <3> QED
      BY <1>2, <1>4, <1>5, <1>6, <3>1, Numbers, EndNumbers
  <2> QED
    BY <2>1, <2>2
<1>8. p + 1 < EndTicks
  BY <1>7
<1>9. p # LastPhase(sender)
  BY <1>2, <1>8, EndNumbers
<1>10. GoesOn
  BY <1>1, <1>9, TickCases DEF Begins, Falls, p
<1>11. i * BitTicks + HalfBit < CountMod /\ p - o + 1 < CountMod
  BY <1>2, <1>4, <1>5, <1>6, <1>7, Numbers, EndNumbers
<1> QED
  BY <1>1, <1>2, <1>4, <1>7, <1>10, <1>11 DEF i, p

LEMMA NrzCurrentTick ==
    ASSUME Margins, Typed, Clean, Interrupts, front.enc = "nrz", Tick, late <= Latency, NrzCurrent
    PROVE  NrzCurrent'
<1>i. PICK i : i = rx.index
  OBVIOUS
<1>p. PICK p : p = sender.phase
  OBVIOUS
<1>1. PICK o \in Int : NrzAt(o, i, p - o)
  BY <1>i, <1>p DEF NrzCurrent
<1>a. PICK a : a = p - o
  OBVIOUS
<1>2. /\ GoesOn /\ i \in 1 .. StopBit /\ p \in Nat /\ i * BitTicks \in Nat
      /\ a <= i * BitTicks + HalfBit + Latency
      /\ i * BitTicks + HalfBit < CountMod /\ a + 1 < CountMod /\ rx.t0 \in Counts
  BY <1>1, <1>i, <1>p, <1>a, NrzGoesOn
<1>3. /\ sender.on /\ owed = <<sender.data>> /\ clearing = FALSE /\ NrzOffset(o, i)
      /\ rx = Byte(rx.t0, i, {b \in sender.data : b < i}, {0})
      /\ a >= 0 /\ (i > 1 => a >= (i - 1) * BitTicks + HalfBit)
      /\ Since(count, rx.t0, a) /\ cc = Wrap(rx.t0 + (i * BitTicks + HalfBit))
      /\ IF compare THEN edge = Never /\ a = i * BitTicks + HalfBit + late
                    ELSE a < i * BitTicks + HalfBit
      /\ edge # Never => \E k \in Zeros(sender) : EdgeWaits(k)
  BY <1>1, <1>a DEF NrzAt
<1>4. sender \in Senders /\ sender' \in Senders
  <2>1. Senders' = Senders
    BY InterruptTick DEF Senders
  <2> QED
    BY <2>1, TypedTick DEF Typed, LineTyped
<1>5. /\ front' = front /\ rx' = rx /\ cc' = cc /\ clearing' = clearing
      /\ count' = Wrap(count + 1) /\ count' \in Counts /\ late \in Nat
      /\ (edge # Never \/ compare) => late < Latency /\ late' = late + 1
      /\ edge = Never /\ ~compare => late' = 0
      /\ edge' = (IF Rises(sender') THEN count' ELSE edge)
      /\ (compare' <=> (compare \/ count' = cc))
  BY <1>3, InterruptTick
<1>6. /\ sender'.on /\ sender'.phase = p + 1 /\ sender'.data = sender.data /\ sender'.drift = sender.drift
      /\ Zeros(sender') = Zeros(sender) /\ \A k : CellStart(sender', k) = CellStart(sender, k)
      /\ owed' = owed
  BY <1>2, <1>p DEF GoesOn
<1>7. a \in Int /\ sender'.phase - o = a + 1 /\ HalfBit \in Nat /\ Latency \in Nat /\ BitTicks \in Nat
  BY <1>2, <1>6, <1>a, Numbers
<1>8. (i - 1) * BitTicks \in Int
  BY <1>2, Numbers
<1>9. Since(count', rx.t0, a + 1)
  BY <1>3, <1>5, <1>7, SinceTick
<1>10. count' = cc <=> a + 1 = i * BitTicks + HalfBit
  <2>1. i * BitTicks + HalfBit \in Int /\ a + 1 \in Int /\ 0 <= a + 1 /\ 0 <= i * BitTicks + HalfBit
    BY <1>2, <1>3, <1>7
  <2> QED
    BY <1>2, <1>3, <1>9, <2>1, SinceMeets
<1>11. NrzOffset(o, i)' /\ owed' = <<sender'.data>> /\ clearing' = FALSE
       /\ rx' = Byte(rx'.t0, i, {b \in sender'.data : b < i}, {0})
       /\ Since(count', rx'.t0, a + 1) /\ cc' = Wrap(rx'.t0 + (i * BitTicks + HalfBit))
  BY <1>3, <1>5, <1>6, <1>9 DEF NrzOffset, Offsets
<1>12. a + 1 >= 0 /\ (i > 1 => a + 1 >= (i - 1) * BitTicks + HalfBit)
  BY <1>3, <1>7, <1>8
\* What the tick leaves of the edge and of the compare.
<1> DEFINE Interrupted ==
      /\ IF compare' THEN edge' = Never /\ a + 1 = i * BitTicks + HalfBit + late'
                     ELSE a + 1 < i * BitTicks + HalfBit
      /\ edge' # Never => \E k \in Zeros(sender') : EdgeWaits(k)'
<1>13. ASSUME Rises(sender') PROVE Interrupted
  <2>1. PICK k \in Zeros(sender) : p + 1 = CellStart(sender, k)
    BY <1>4, <1>6, <1>13, RisesAtCell
  <2>2. k \in Nat /\ CellStart(sender, k) \in Int /\ k >= 1
    <3>1. k \in Nat /\ CellStart(sender, k) \in Int /\ CellStart(sender, 0) = 0
      BY <1>4, CellsEnd, CellNumbers
    <3>2. k # 0
      BY <1>2, <2>1, <3>1
    <3> QED
      BY <3>1, <3>2
  <2>3. edge = Never
    <3>1. ASSUME edge # Never PROVE FALSE
      <4>1. PICK j \in Zeros(sender) : p = CellStart(sender, j) + late
        BY <1>3, <1>p, <3>1 DEF EdgeWaits
      <4>2. j \in Nat /\ CellStart(sender, j) \in Int
        BY <1>4, CellsEnd
      <4>3. CellStart(sender, k) = CellStart(sender, j) + late + 1 /\ late < Latency
        BY <1>5, <2>1, <3>1, <4>1, <4>2
      <4>4. j < k => CellStart(sender, j) + HalfBit + 2 * Latency < CellStart(sender, k)
        BY <1>4, <2>2, <4>2, CellOrder
      <4>5. k < j => CellStart(sender, k) + HalfBit + 2 * Latency < CellStart(sender, j)
        BY <1>4, <2>2, <4>2, CellOrder
      <4>6. j # k
        BY <1>5, <4>2, <4>3
      <4> QED
        BY <1>5, <1>7, <2>2, <4>2, <4>3, <4>4, <4>5, <4>6
    <3> QED
      BY <3>1
  <2>4. ~compare
    <3>1. ASSUME compare PROVE FALSE
      <4>1. late < Latency /\ a = i * BitTicks + HalfBit + late
        BY <1>3, <1>5, <3>1
      <4>2. /\ CellStart(sender, i) <= i * BitTicks + HalfBit + o
            /\ i * BitTicks + HalfBit + o + Latency < CellStart(sender, i + 1)
            /\ CellStart(sender, i + 1) \in Int
        BY <1>2, <1>3, <1>4, SampleInCell
      <4>3. CellStart(sender, k) = i * BitTicks + HalfBit + late + 1 + o
        BY <1>2, <1>5, <1>7, <2>1, <4>1, <1>a, <1>p
      <4>4. i \in Nat /\ i + 1 \in Nat /\ CellStart(sender, i) \in Int
        BY <1>2, <1>4, CellNumbers, Numbers
      <4>5. CellStart(sender, i) < CellStart(sender, k) /\ CellStart(sender, k) < CellStart(sender, i + 1)
        BY <1>2, <1>5, <1>7, <4>1, <4>2, <4>3, <4>4
      <4>6. ~(k < i) /\ k # i
        BY <1>4, <1>7, <2>2, <4>4, <4>5, CellOrder
      <4>7. ~(i + 1 < k) /\ k # i + 1
        BY <1>4, <1>7, <2>2, <4>2, <4>4, <4>5, CellOrder
      <4> QED
        BY <2>2, <4>4, <4>6, <4>7
    <3> QED
      BY <3>1
  <2>5. edge' = count' /\ late' = 0 /\ a < i * BitTicks + HalfBit
    BY <1>3, <1>5, <1>13, <2>3, <2>4
  <2>6. a + 1 < i * BitTicks + HalfBit
    <3>1. CellStart(sender, k) + 0 - o = a + 1
      BY <1>2, <1>7, <2>1, <2>2, <1>a, <1>p
    <3>2. CellStart(sender, k) + 0 - o <= i * BitTicks + HalfBit
      BY <1>2, <1>7, <2>5, <3>1
    <3>3. i > 1 => CellStart(sender, k) + 0 - o >= (i - 1) * BitTicks + HalfBit
      BY <1>12, <3>1
    <3>4. 0 \in 0 .. Latency
      BY <1>7
    <3>5. CellStart(sender, k) + Latency - o < i * BitTicks + HalfBit
      BY <1>2, <1>3, <1>4, <2>2, <3>2, <3>3, <3>4, EdgeIndex
    <3> QED
      BY <1>2, <1>7, <2>2, <3>1, <3>5
  <2>7. ~compare'
    BY <1>2, <1>5, <1>7, <1>10, <2>4, <2>6
  <2>8. EdgeWaits(k)'
    <3>1. Since(count', edge', 0)
      BY <1>5, <2>5, SinceNow
    <3>2. sender'.phase = CellStart(sender', k) + 0 /\ k \in Zeros(sender')
      BY <1>6, <2>1, <2>2
    <3> QED
      BY <2>2, <2>5, <3>1, <3>2 DEF EdgeWaits
  <2>9. k \in Zeros(sender')
    BY <1>6
  <2> QED
    BY <2>6, <2>7, <2>8, <2>9
<1>14. ASSUME ~Rises(sender'), edge # Never PROVE Interrupted
  <2>1. PICK k \in Zeros(sender) : k >= 1 /\ p = CellStart(sender, k) + late /\ Since(count, edge, late)
    BY <1>3, <1>p, <1>14 DEF EdgeWaits
  <2>2. k \in Nat /\ CellStart(sender, k) \in Int
    BY <1>4, CellsEnd
  <2>3. edge' = edge /\ late' = late + 1 /\ late < Latency /\ ~compare /\ a < i * BitTicks + HalfBit
    BY <1>3, <1>5, <1>14
  <2>4. a + 1 < i * BitTicks + HalfBit
    <3>1. CellStart(sender, k) + late - o = a
      BY <1>2, <1>5, <1>7, <2>1, <2>2, <1>a, <1>p
    <3>2. CellStart(sender, k) + late - o <= i * BitTicks + HalfBit
      BY <1>2, <1>7, <2>3, <3>1
    <3>3. i > 1 => CellStart(sender, k) + late - o >= (i - 1) * BitTicks + HalfBit
      BY <1>3, <3>1
    <3>4. late \in 0 .. Latency
      BY <1>5, <1>7
    <3>5. CellStart(sender, k) + Latency - o < i * BitTicks + HalfBit
      BY <1>2, <1>3, <1>4, <2>1, <3>2, <3>3, <3>4, EdgeIndex
    <3> QED
      BY <1>2, <1>5, <1>7, <2>2, <2>3, <3>1, <3>5
  <2>5. ~compare'
    BY <1>2, <1>5, <1>7, <1>10, <2>3, <2>4
  <2>6. EdgeWaits(k)'
    <3>1. Since(count', edge', late')
      BY <1>5, <2>1, <2>3, SinceTick
    <3>2. sender'.phase = CellStart(sender', k) + late' /\ k \in Zeros(sender')
      BY <1>5, <1>6, <2>1, <2>2, <2>3
    <3> QED
      BY <2>1, <3>1, <3>2 DEF EdgeWaits
  <2>7. k \in Zeros(sender')
    BY <1>6
  <2> QED
    BY <2>4, <2>5, <2>6, <2>7
<1>15. ASSUME ~Rises(sender'), edge = Never PROVE Interrupted
  <2>1. edge' = Never
    BY <1>5, <1>15
  <2>2. CASE compare
    <3>1. compare' /\ late' = late + 1 /\ a = i * BitTicks + HalfBit + late
      BY <1>3, <1>5, <2>2
    <3> QED
      BY <1>2, <1>5, <1>7, <2>1, <3>1
  <2>3. CASE ~compare
    <3>1. late' = 0 /\ a < i * BitTicks + HalfBit /\ (compare' <=> a + 1 = i * BitTicks + HalfBit)
      BY <1>3, <1>5, <1>10, <1>15, <2>3
    <3> QED
      BY <1>2, <1>7, <2>1, <3>1
  <2> QED
    BY <2>2, <2>3
<1>16. Interrupted
  BY <1>13, <1>14, <1>15
<1>17. NrzAt(o, i, a + 1)'
  BY <1>2, <1>6, <1>11, <1>12, <1>16 DEF NrzAt
<1>18. i = rx'.index /\ a + 1 = sender'.phase - o
  BY <1>5, <1>7, <1>i
<1> QED
  BY <1>17, <1>18 DEF NrzCurrent

\* The start edge is served: a byte begins, late by the time it waited where the
\* board reads the counter.
LEMMA EdgeServed ==
    ASSUME Margins, Typed, Interrupts, EdgeIsr, late <= Latency, Since(count, edge, late)
    PROVE  \E o \in Offsets :
              LET t == IF front.board = "uno" THEN edge ELSE count IN
              /\ o <= late /\ Since(count, t, late - o) /\ t \in Counts /\ late - o \in Nat
              /\ (front.board # "uno" => t = count /\ o = late)
              /\ EdgeStart(t) \/ EdgePulse(t) \/ EdgePivot(t) \/ EdgeNrz(t)
<1>1. late \in 0 .. Latency /\ late \in Int
  BY Numbers DEF Typed
<1>2. CASE front.board = "uno"
  <2>1. 0 \in Offsets /\ late - 0 = late /\ late - 0 \in Nat
    BY <1>1, <1>2 DEF Offsets
  <2>2. edge \in Counts
    BY DEF Since
  <2> QED
    BY <1>1, <1>2, <2>1, <2>2 DEF EdgeIsr
<1>3. CASE front.board # "uno"
  <2>1. late \in Offsets /\ late - late = 0
    BY <1>1, <1>3 DEF Offsets
  <2>2. Since(count, count, 0) /\ count \in Counts
    BY SinceNow DEF Typed
  <2> QED
    BY <1>1, <1>3, <2>1, <2>2 DEF EdgeIsr
<1> QED
  BY <1>2, <1>3

LEMMA NrzStart ==
    ASSUME Margins, Typed, Interrupts, front.enc = "nrz", StartWaits, late <= Latency, EdgeIsr
    PROVE  NrzCurrent' /\ wrong' = wrong
<1>1. /\ sender.on /\ sender.phase = late /\ rx = Idle /\ clearing = FALSE
      /\ owed = <<sender.data>> /\ Since(count, edge, late)
  BY DEF StartWaits, Typed
<1>l. PICK l : l = late
  OBVIOUS
<1>2. PICK o \in Offsets, t \in Counts :
         /\ o <= l /\ Since(count, t, l - o) /\ l - o \in Nat
         /\ EdgeStart(t) \/ EdgePulse(t) \/ EdgePivot(t) \/ EdgeNrz(t)
  BY <1>1, <1>l, EdgeServed
<1>3. EdgeStart(t)
  BY <1>1, <1>2 DEF EdgePulse, EdgePivot, EdgeNrz, Receiving
<1>4. /\ rx' = Start(t, 1) /\ cc' = Wrap(t + BitTicks + HalfBit) /\ compare' = FALSE
      /\ owed' = owed /\ wrong' = wrong
  BY <1>3 DEF EdgeStart, Dropped
<1>5. /\ edge' = Never /\ sender' = sender /\ front' = front /\ count' = count /\ clearing' = clearing
  BY DEF EdgeIsr, airVars
<1>6. rx' = Byte(t, 1, {}, {0}) /\ rx'.t0 = t /\ rx'.index = 1
  BY <1>4 DEF Start, Byte
<1>7. {b \in sender'.data : b < 1} = {}
  BY <1>5, Numbers DEF Typed, LineTyped, Senders, Bits
<1>8. NrzOffset(o, 1)' /\ o \in Int /\ l \in Int /\ l <= Latency
  BY <1>2, <1>5, <1>l, Numbers DEF NrzOffset, Offsets, Typed
<1>9. cc' = Wrap(rx'.t0 + (1 * BitTicks + HalfBit))
  <2>1. t \in Int
    BY <1>2, CountsAreInts
  <2>2. t + BitTicks + HalfBit = t + (1 * BitTicks + HalfBit)
    BY <2>1, Numbers
  <2> QED
    BY <1>4, <1>6, <2>2
<1>10. l - o >= 0 /\ l - o < 1 * BitTicks + HalfBit
  <2>1. 2 * Latency < HalfBit
    BY TwiceLatency
  <2>2. o >= 0
    BY <1>2, Numbers DEF Offsets
  <2> QED
    BY <1>2, <1>8, <2>1, <2>2, Numbers
<1>11. 1 \in 1 .. StopBit
  BY Numbers
<1>12. sender'.on /\ owed' = <<sender'.data>> /\ clearing' = FALSE
       /\ rx' = Byte(rx'.t0, 1, {b \in sender'.data : b < 1}, {0}) /\ Since(count', rx'.t0, l - o)
  BY <1>1, <1>2, <1>4, <1>5, <1>6, <1>7
<1>13. NrzAt(o, 1, l - o)'
  BY <1>4, <1>5, <1>8, <1>9, <1>10, <1>11, <1>12 DEF NrzAt
<1>14. l - o = sender'.phase - o
  BY <1>1, <1>5, <1>l
<1> QED
  BY <1>4, <1>6, <1>8, <1>13, <1>14 DEF NrzCurrent

LEMMA ByteWithTime ==
    ASSUME NEW b, NEW x, NEW y, NEW i, NEW d, NEW m, b = Byte(x, i, d, m)
    PROVE  /\ [b EXCEPT !.t0 = y] = Byte(y, i, d, m)
           /\ Byte(y, i, d, m).t0 = y /\ Byte(y, i, d, m).index = i
           /\ Byte(y, i, d, m).data = d /\ Byte(y, i, d, m).mask = m
BY DEF Byte

\* An edge between bits: nothing, or a re-anchoring XIAO moves its phase to it.
LEMMA NrzEdge ==
    ASSUME Margins, Typed, Interrupts, front.enc = "nrz", NrzCurrent, late <= Latency, EdgeIsr
    PROVE  NrzCurrent' /\ wrong' = wrong
<1>i. PICK i : i = rx.index
  OBVIOUS
<1>p. PICK p : p = sender.phase
  OBVIOUS
<1>1. PICK o \in Int : NrzAt(o, i, p - o)
  BY <1>i, <1>p DEF NrzCurrent
<1>a. PICK a : a = p - o
  OBVIOUS
<1>2. /\ sender.on /\ owed = <<sender.data>> /\ clearing = FALSE /\ NrzOffset(o, i)
      /\ i \in 1 .. StopBit /\ rx = Byte(rx.t0, i, {b \in sender.data : b < i}, {0})
      /\ a >= 0 /\ (i > 1 => a >= (i - 1) * BitTicks + HalfBit)
      /\ Since(count, rx.t0, a) /\ cc = Wrap(rx.t0 + (i * BitTicks + HalfBit))
      /\ IF compare THEN edge = Never /\ a = i * BitTicks + HalfBit + late
                    ELSE a < i * BitTicks + HalfBit
      /\ edge # Never => \E k \in Zeros(sender) : EdgeWaits(k)
  BY <1>1, <1>a DEF NrzAt
<1>3. /\ edge # Never /\ edge' = Never /\ sender' = sender /\ front' = front /\ count' = count
      /\ clearing' = clearing /\ late' = 0
  BY DEF EdgeIsr, airVars
<1>4. ~compare /\ a < i * BitTicks + HalfBit
  BY <1>2, <1>3
<1>5. PICK k \in Zeros(sender) : k >= 1 /\ p = CellStart(sender, k) + late /\ Since(count, edge, late)
  BY <1>2, <1>3, <1>p DEF EdgeWaits
<1>6. sender \in Senders /\ late \in Nat /\ p \in Int /\ a \in Int /\ Latency \in Nat /\ HalfBit \in Nat
      /\ BitTicks \in Nat /\ i * BitTicks \in Nat /\ i \in Nat /\ BitTicks >= 2 * HalfBit
      /\ 2 * Latency < HalfBit
  <2>1. sender \in Senders /\ late \in Nat /\ p \in Int /\ a \in Int
    BY <1>p, <1>a, Numbers DEF Typed, LineTyped, Senders
  <2>2. i \in Nat
    BY <1>2, Numbers
  <2>3. 2 * Latency < HalfBit
    BY TwiceLatency
  <2> QED
    BY <2>1, <2>2, <2>3, Numbers, BitsNat
<1>7. PICK t : /\ front.board # "uno" => t = count
               /\ EdgeStart(t) \/ EdgePulse(t) \/ EdgePivot(t) \/ EdgeNrz(t)
  BY <1>5, EdgeServed
<1>8. EdgeNrz(t)
  <2>1. Receiving
    BY <1>2, CountsAreInts DEF Receiving, Idle, Byte, Since
  <2> QED
    BY <1>7, <2>1 DEF EdgeStart, EdgePulse, EdgePivot
<1>9. compare' = compare /\ owed' = owed /\ wrong' = wrong
  BY <1>8 DEF EdgeNrz, Dropped
<1>10. ~compare'
  BY <1>4, <1>9
<1>11. CASE ~Resyncs
  <2>1. cc' = cc /\ rx' = rx
    BY <1>8, <1>11 DEF EdgeNrz
  <2>2. NrzOffset(o, i)'
    BY <1>2, <1>3 DEF NrzOffset, Offsets
  <2>3. NrzAt(o, i, a)'
    BY <1>2, <1>3, <1>4, <1>9, <1>10, <2>1, <2>2 DEF NrzAt
  <2> QED
    BY <1>3, <1>9, <1>i, <1>p, <1>a, <2>1, <2>3 DEF NrzCurrent
<1>12. CASE Resyncs
  <2>1. /\ front.board = "samd21" /\ i <= DataBits /\ t = count
        /\ cc' = Wrap(count + HalfBit) /\ rx' = [rx EXCEPT !.t0 = Wrap(count - BitTicks * i)]
    <3>1. front.board = "samd21"
      BY <1>12, ReceiverAssumption DEF Resyncs, Typed, LineTyped
    <3> QED
      BY <1>7, <1>8, <1>12, <1>i, <3>1 DEF EdgeNrz, Resyncs
  <2>2. k = i
    <3>1. CellStart(sender, k) \in Int
      BY <1>6, CellsEnd
    <3>2. CellStart(sender, k) + late - o = a
      BY <1>5, <1>6, <1>a, <3>1
    <3>3. CellStart(sender, k) + late - o <= i * BitTicks + HalfBit
      BY <1>4, <1>6, <3>2
    <3>4. i > 1 => CellStart(sender, k) + late - o >= (i - 1) * BitTicks + HalfBit
      BY <1>2, <3>2
    <3>5. late \in 0 .. Latency
      BY <1>6
    <3> QED
      BY <1>2, <1>5, <1>6, <3>3, <3>4, <3>5, EdgeIndex
  <2> DEFINE n == p - i * BitTicks
  <2>3. n \in Int /\ n = (IF 2 * i > DataBits THEN sender.drift ELSE 0) + late
    <3>1. CellStart(sender, i) = i * BitTicks + (IF 2 * i > DataBits THEN sender.drift ELSE 0)
      BY DEF CellStart
    <3>2. (IF 2 * i > DataBits THEN sender.drift ELSE 0) \in Int
      BY <1>6 DEF Margins, Senders
    <3> QED
      BY <1>5, <1>6, <2>2, <3>1, <3>2
  <2>4. NrzOffset(n, i)'
    <3>1. late \in Offsets /\ late \in Int
      BY <1>6, <2>1 DEF Offsets
    <3>2. sender.drift \in Int
      BY <1>6 DEF Margins, Senders
    <3>3. CASE 2 * i > DataBits
      <4>1. n - sender.drift = late
        BY <2>3, <3>1, <3>2, <3>3
      <4> QED
        BY <1>3, <2>1, <3>1, <3>3, <4>1 DEF NrzOffset, Offsets
    <3>4. CASE ~(2 * i > DataBits)
      <4>1. n = late
        BY <2>3, <3>1, <3>4
      <4> QED
        BY <1>3, <3>1, <4>1 DEF NrzOffset, Offsets
    <3> QED
      BY <3>3, <3>4
  <2> DEFINE y == Wrap(count - BitTicks * i)
  <2>5. count \in Int /\ BitTicks * i = i * BitTicks /\ count - i * BitTicks \in Int
        /\ Since(count, count, 0)
    BY <1>6, CountsAreInts, SinceNow DEF Typed
  <2>6. Since(count, y, i * BitTicks)
    <3>1. Wrap(Wrap(count - i * BitTicks) + i * BitTicks) = Wrap((count - i * BitTicks) + i * BitTicks)
      BY <1>6, <2>5, WrapPlus
    <3>2. (count - i * BitTicks) + i * BitTicks = count /\ Wrap(count) = count
      BY <1>6, <2>5, CountsAreInts DEF Typed
    <3>3. Wrap(count - i * BitTicks) \in Counts
      BY <2>5, WrapCounts
    <3> QED
      BY <2>5, <3>1, <3>2, <3>3 DEF Since
  <2>7. cc' = Wrap(y + (i * BitTicks + HalfBit))
    <3>1. Wrap(Wrap(count - i * BitTicks) + (i * BitTicks + HalfBit))
          = Wrap((count - i * BitTicks) + (i * BitTicks + HalfBit))
      BY <1>6, <2>5, WrapPlus
    <3>2. (count - i * BitTicks) + (i * BitTicks + HalfBit) = count + HalfBit
      BY <1>6, <2>5
    <3> QED
      BY <2>1, <2>5, <3>1, <3>2
  <2> HIDE DEF y
  <2>8. rx' = Byte(y, i, {b \in sender.data : b < i}, {0}) /\ rx'.t0 = y /\ rx'.index = i
    <3>1. rx' = [rx EXCEPT !.t0 = y]
      BY <2>1 DEF y
    <3> QED
      BY <1>2, <3>1, ByteWithTime
  <2>9. i * BitTicks >= 0 /\ (i > 1 => i * BitTicks >= (i - 1) * BitTicks + HalfBit)
        /\ i * BitTicks < i * BitTicks + HalfBit
    <3>1. i * BitTicks = (i - 1) * BitTicks + BitTicks /\ (i - 1) * BitTicks \in Nat
      <4>1. i - 1 \in Nat /\ i = (i - 1) + 1
        BY <1>2, Numbers
      <4> QED
        BY <4>1, BitsNat
    <3> QED
      BY <1>6, <3>1
  <2>m. PICK m : m = n
    OBVIOUS
  <2>10. NrzOffset(m, i)'
    <3>1. n' = n
      BY <1>3
    <3> QED
      BY <2>4, <2>m, <3>1 DEF NrzOffset
  <2>11. p - m = i * BitTicks /\ m \in Int
    BY <1>6, <2>3, <2>m
  <2> HIDE DEF n
  <2>12. NrzAt(m, i, i * BitTicks)'
    BY <1>2, <1>3, <1>9, <1>10, <2>6, <2>7, <2>8, <2>9, <2>10 DEF NrzAt
  <2>13. i = rx'.index /\ i * BitTicks = sender'.phase - m
    BY <1>3, <1>p, <2>8, <2>11
  <2> QED
    BY <1>9, <2>11, <2>12, <2>13 DEF NrzCurrent
<1> QED
  BY <1>11, <1>12

\* What the compare finds of the byte, and when.
LEMMA NrzCompare ==
    ASSUME Margins, Typed, Clean, Interrupts, late <= Latency, NrzInv, CompareBegins
    PROVE  \E o \in Int, i \in 1 .. StopBit, p \in Nat :
              /\ i = rx.index /\ p = sender.phase
              /\ sender.on /\ owed = <<sender.data>> /\ clearing = FALSE /\ NrzOffset(o, i)
              /\ rx = Byte(rx.t0, i, {b \in sender.data : b < i}, {0}) /\ rx.t0 \in Counts
              /\ Since(count, rx.t0, p - o) /\ p - o = i * BitTicks + HalfBit + late
              /\ edge = Never /\ i * BitTicks \in Nat /\ late \in Nat
              /\ CellStart(sender, i) <= p /\ p < CellStart(sender, i + 1) /\ sender \in Senders
<1>1. compare = TRUE /\ edge = Never
  BY DEF CompareBegins, Typed
<1>2. rx # Idle
  BY <1>1 DEF Typed, Receiving
<1>3. NrzCurrent
  BY <1>1, <1>2 DEF NrzInv, StartWaits, NrzRests
<1>4. PICK o \in Int : NrzAt(o, rx.index, sender.phase - o)
  BY <1>3 DEF NrzCurrent
<1>5. PICK i \in 1 .. StopBit : i = rx.index
  BY <1>4 DEF NrzAt
<1>6. PICK p \in Nat : p = sender.phase
  BY DEF Typed, LineTyped, Senders
<1>7. /\ sender.on /\ owed = <<sender.data>> /\ clearing = FALSE /\ NrzOffset(o, i)
      /\ rx = Byte(rx.t0, i, {b \in sender.data : b < i}, {0}) /\ rx.t0 \in Counts
      /\ Since(count, rx.t0, p - o) /\ p - o = i * BitTicks + HalfBit + late
  BY <1>1, <1>4, <1>5, <1>6 DEF NrzAt, Since
<1>8. sender \in Senders /\ late \in Nat
  BY Numbers DEF Typed, LineTyped
<1>9. /\ CellStart(sender, i) <= i * BitTicks + HalfBit + o
      /\ i * BitTicks + HalfBit + o + Latency < CellStart(sender, i + 1)
      /\ i * BitTicks \in Nat /\ CellStart(sender, i + 1) \in Int
  BY <1>7, <1>8, SampleInCell
<1>10. CellStart(sender, i) \in Int
  <2>1. i \in Nat
    BY Numbers
  <2> QED
    BY <1>8, <2>1, CellNumbers
<1>11. CellStart(sender, i) <= p /\ p < CellStart(sender, i + 1)
  BY <1>7, <1>8, <1>9, <1>10, Numbers
<1> QED
  BY <1>1, <1>5, <1>6, <1>7, <1>8, <1>9, <1>11

LEMMA ByteWithIndex ==
    ASSUME NEW b, NEW t, NEW i, NEW d, NEW m, NEW k, b = Byte(t, i, d, m)
    PROVE  [b EXCEPT !.index = k] = Byte(t, k, d, m)
BY SMTT(60) DEF Byte

LEMMA NrzBit ==
    ASSUME Margins, Typed, Clean, Interrupts, late <= Latency, NrzInv, CompareNrzBit
    PROVE  NrzCurrent' /\ wrong' = wrong
<1>0. CompareBegins /\ front.enc = "nrz"
  BY DEF CompareNrzBit
<1>1. PICK o \in Int, i \in 1 .. StopBit, p \in Nat :
              /\ i = rx.index /\ p = sender.phase
              /\ sender.on /\ owed = <<sender.data>> /\ clearing = FALSE /\ NrzOffset(o, i)
              /\ rx = Byte(rx.t0, i, {b \in sender.data : b < i}, {0}) /\ rx.t0 \in Counts
              /\ Since(count, rx.t0, p - o) /\ p - o = i * BitTicks + HalfBit + late
              /\ edge = Never /\ i * BitTicks \in Nat /\ late \in Nat
              /\ CellStart(sender, i) <= p /\ p < CellStart(sender, i + 1) /\ sender \in Senders
  BY <1>0, NrzCompare
<1>2. /\ i <= DataBits /\ clearing' = clearing /\ owed' = owed /\ wrong' = wrong
      /\ rx' = [rx EXCEPT !.data = IF Light THEN @ ELSE @ \cup {i}, !.index = @ + 1]
      /\ cc' = Wrap(rx.t0 + BitTicks * (i + 1) + HalfBit)
  BY <1>1 DEF CompareNrzBit, Dropped
<1>3. compare' = FALSE /\ sender' = sender /\ front' = front /\ count' = count /\ edge' = edge
  BY <1>0 DEF CompareBegins, airVars
<1>4. i \in Bits /\ i \in 0 .. DataBits /\ i \in Nat /\ i + 1 \in 1 .. StopBit /\ i \in Int
  BY <1>2, Numbers DEF Bits
<1>5. Light <=> i \notin sender.data
  <2>1. Lit(sender, p) <=> i \in Zeros(sender)
    BY <1>0, <1>1, <1>4, CellLight
  <2>2. i \in Zeros(sender) <=> i \notin sender.data
    BY <1>4, Numbers DEF Zeros
  <2> QED
    BY <1>1, <2>1, <2>2 DEF Light
<1>6. (IF Light THEN {b \in sender.data : b < i} ELSE {b \in sender.data : b < i} \cup {i})
      = {b \in sender.data : b < i + 1}
  <2>1. sender.data \subseteq Bits /\ \A b \in Bits : b \in Int
    BY <1>1 DEF Senders, Bits
  <2>2. ASSUME NEW b \in sender.data PROVE b < i + 1 <=> (b < i \/ b = i)
    <3>1. b \in Int
      BY <2>1
    <3> QED
      BY <1>4, <3>1
  <2>3. CASE Light
    BY <1>5, <2>2, <2>3
  <2>4. CASE ~Light
    BY <1>4, <1>5, <2>2, <2>4
  <2> QED
    BY <2>3, <2>4
<1>7. rx' = Byte(rx.t0, i + 1, {b \in sender.data : b < i + 1}, {0})
      /\ rx'.t0 = rx.t0 /\ rx'.index = i + 1
  <2> DEFINE e == IF Light THEN {b \in sender.data : b < i} ELSE {b \in sender.data : b < i} \cup {i}
  <2>1. rx' = Byte(rx.t0, i + 1, e, {0})
    <3>1. rx.data = {b \in sender.data : b < i} /\ rx.index = i
      BY <1>1 DEF Byte
    <3>2. rx' = [rx EXCEPT !.data = e, !.index = i + 1]
      BY <1>2, <3>1
    <3> DEFINE d == {b \in sender.data : b < i}
               j == i + 1
               t == rx.t0
    <3>3. rx = Byte(t, i, d, {0}) /\ rx' = [rx EXCEPT !.data = e, !.index = j]
      BY <1>1, <3>2
    <3> HIDE DEF e, d, j, t
    <3> DEFINE c == [rx EXCEPT !.data = e]
    <3>4. c = Byte(t, i, e, {0}) /\ rx' = [c EXCEPT !.index = j]
      BY <3>3 DEF Byte
    <3> HIDE DEF c
    <3>5. rx' = Byte(t, j, e, {0})
      BY <3>4, ByteWithIndex
    <3> QED
      BY <3>5 DEF j, t
  <2> QED
    BY <1>6, <2>1 DEF Byte
<1>8. cc' = Wrap(rx'.t0 + ((i + 1) * BitTicks + HalfBit))
  <2>1. rx.t0 \in Int /\ (i + 1) * BitTicks \in Int /\ BitTicks * (i + 1) = (i + 1) * BitTicks
    BY <1>1, <1>4, CountsAreInts, Numbers
  <2>2. rx.t0 + BitTicks * (i + 1) + HalfBit = rx.t0 + ((i + 1) * BitTicks + HalfBit)
    BY <2>1, Numbers
  <2> QED
    BY <1>2, <1>7, <2>2
<1>9. NrzOffset(o, i + 1)'
  <2>1. 2 * i > DataBits => 2 * (i + 1) > DataBits
    BY <1>4, Numbers
  <2> QED
    BY <1>1, <1>3, <2>1 DEF NrzOffset, Offsets
<1>10. /\ p - o >= 0 /\ p - o >= (i + 1 - 1) * BitTicks + HalfBit
       /\ p - o < (i + 1) * BitTicks + HalfBit
  <2>1. (i + 1 - 1) * BitTicks = i * BitTicks
    BY <1>4
  <2>2. (i + 1) * BitTicks = i * BitTicks + BitTicks
    BY <1>4, BitsNat
  <2> QED
    BY <1>1, <2>1, <2>2, TwiceLatency, Numbers
<1>11. sender'.on /\ owed' = <<sender'.data>> /\ clearing' = FALSE /\ Since(count', rx'.t0, p - o)
       /\ rx' = Byte(rx'.t0, i + 1, {b \in sender'.data : b < i + 1}, {0}) /\ edge' = Never
  BY <1>1, <1>2, <1>3, <1>7
<1>12. NrzAt(o, i + 1, p - o)'
  BY <1>3, <1>4, <1>8, <1>9, <1>10, <1>11 DEF NrzAt
<1>13. i + 1 = rx'.index /\ p - o = sender'.phase - o
  BY <1>1, <1>3, <1>7
<1> QED
  BY <1>2, <1>12, <1>13 DEF NrzCurrent

LEMMA NrzStop ==
    ASSUME Margins, Typed, Clean, Interrupts, late <= Latency, NrzInv, CompareNrzStop
    PROVE  NrzRests' /\ wrong' = wrong
<1>0. CompareBegins /\ front.enc = "nrz" /\ EndByte /\ rx.index = StopBit
  BY DEF CompareNrzStop
<1>1. PICK o \in Int, i \in 1 .. StopBit, p \in Nat :
              /\ i = rx.index /\ p = sender.phase
              /\ sender.on /\ owed = <<sender.data>> /\ clearing = FALSE /\ NrzOffset(o, i)
              /\ rx = Byte(rx.t0, i, {b \in sender.data : b < i}, {0}) /\ rx.t0 \in Counts
              /\ Since(count, rx.t0, p - o) /\ p - o = i * BitTicks + HalfBit + late
              /\ edge = Never /\ i * BitTicks \in Nat /\ late \in Nat
              /\ CellStart(sender, i) <= p /\ p < CellStart(sender, i + 1) /\ sender \in Senders
  BY <1>0, NrzCompare
<1>2. ~Light
  BY <1>0, <1>1, DarkNrz DEF Light
<1>3. rx.data = sender.data
  <2>1. rx.data = {b \in sender.data : b < i}
    BY <1>1 DEF Byte
  <2>2. \A b \in sender.data : b < i
    BY <1>0, <1>1, Numbers DEF Senders, Bits
  <2> QED
    BY <2>1, <2>2
<1>4. Received(sender.data)
  BY <1>2, <1>3 DEF CompareNrzStop, StopIsMark
<1>5. owed' = <<>> /\ wrong' = wrong
  <2>1. owed # <<>> /\ Head(owed) = sender.data /\ Tail(owed) = <<>>
    BY <1>1
  <2> QED
    BY <1>4, <2>1 DEF Received
<1>6. /\ sender' = sender /\ front' = front /\ edge' = Never /\ rx' = Idle /\ late' = 0
      /\ clearing' = (front.board = "uno")
  BY <1>0, <1>1 DEF CompareBegins, EndByte, airVars
<1>7. sender'.phase = StopBit * BitTicks + HalfBit + late + o
  BY <1>0, <1>1, <1>6, Numbers, EndNumbers
<1>8. -o < HalfBit
  BY <1>1, SampleInCell
<1>9. sender'.phase >= StopBit * BitTicks
  BY <1>1, <1>7, <1>8, Numbers, EndNumbers
<1>10. front.board = "uno" => o = 0
  BY <1>1 DEF NrzOffset, Offsets
<1>11. clearing' => /\ sender'.on /\ front'.board = "uno"
                    /\ sender'.phase <= StopBit * BitTicks + HalfBit + Latency + late'
  <2>1. ASSUME clearing'
        PROVE  /\ sender'.on /\ front'.board = "uno"
               /\ sender'.phase <= StopBit * BitTicks + HalfBit + Latency + late'
    <3>1. front.board = "uno"
      BY <1>6, <2>1
    <3>2. late <= Latency /\ o = 0
      BY <1>10, <3>1
    <3>3. sender'.phase <= StopBit * BitTicks + HalfBit + Latency
      BY <1>1, <1>7, <3>2, Numbers, EndNumbers
    <3>4. late' = 0 /\ front' = front /\ sender'.on
      BY <1>1, <1>6
    <3> QED
      BY <3>1, <3>3, <3>4, Numbers, EndNumbers
  <2> QED
    BY <2>1
<1> QED
  BY <1>5, <1>6, <1>9, <1>11 DEF NrzRests

LEMMA NrzRestTick ==
    ASSUME Margins, Typed, Clean, Interrupts, front.enc = "nrz", Tick, late <= Latency, NrzRests
    PROVE  StartWaits' \/ NrzRests'
<1>1. /\ rx = Idle /\ edge = Never /\ owed = <<>>
      /\ sender.on => sender.phase >= StopBit * BitTicks
      /\ clearing => /\ sender.on /\ front.board = "uno"
                     /\ sender.phase <= StopBit * BitTicks + HalfBit + Latency + late
  BY DEF NrzRests
<1>2. /\ front' = front /\ rx' = rx /\ clearing' = clearing
      /\ edge' = (IF Rises(sender') THEN count' ELSE edge) /\ late \in Nat
      /\ clearing => late < Latency /\ late' = late + 1
  BY <1>1, InterruptTick
<1>3. clearing => GoesOn
  <2>1. ASSUME clearing PROVE GoesOn
    <3>1. /\ sender.on /\ sender.phase <= StopBit * BitTicks + HalfBit + Latency + late /\ late < Latency
      BY <1>1, <1>2, <2>1
    <3>2. /\ LastPhase(sender) = EndTicks + sender.gap - 1 /\ sender.gap \in Int /\ sender.gap >= 0
          /\ sender.phase \in Nat
      BY <3>1, SenderInts DEF GapOK
    <3>3. sender.phase # LastPhase(sender)
      BY <1>2, <3>1, <3>2, TwiceLatency, Numbers, EndNumbers
    <3> QED
      BY <3>1, <3>3, TickCases DEF Begins, Falls
  <2> QED
    BY <2>1
<1>4. CASE GoesOn
  <2>1. /\ sender'.on /\ sender'.phase = sender.phase + 1 /\ sender.on /\ owed' = owed
        /\ Zeros(sender') = Zeros(sender) /\ \A k : CellStart(sender', k) = CellStart(sender, k)
    BY <1>4 DEF GoesOn
  <2>2. sender \in Senders /\ sender' \in Senders /\ sender.phase \in Nat
    <3>1. Senders' = Senders
      BY <1>2 DEF Senders
    <3>2. sender' \in Senders'
      BY TypedTick DEF Typed, LineTyped
    <3>3. sender \in Senders /\ sender.phase \in Nat
      BY DEF Typed, LineTyped, Senders
    <3> QED
      BY <3>1, <3>2, <3>3
  <2>3. ~Rises(sender')
    <3>1. ASSUME Rises(sender') PROVE FALSE
      <4>1. PICK k \in Zeros(sender') : sender'.phase = CellStart(sender', k)
        BY <2>2, <3>1, RisesAtCell
      <4>2. CellStart(sender', k) \in Int
            /\ CellStart(sender', k) + 2 * Latency < DataBits * BitTicks + HalfBit
        BY <2>2, CellsEnd
      <4> QED
        BY <1>1, <2>1, <2>2, <4>1, <4>2, Numbers, EndNumbers
    <3> QED
      BY <3>1
  <2>4. edge' = Never
    BY <1>1, <1>2, <2>3
  <2>5. sender'.phase >= StopBit * BitTicks
    BY <1>1, <2>1, <2>2, EndNumbers
  <2>6. clearing' => /\ sender'.on /\ front'.board = "uno"
                     /\ sender'.phase <= StopBit * BitTicks + HalfBit + Latency + late'
    BY <1>1, <1>2, <2>1, <2>2, Numbers, EndNumbers
  <2> QED
    BY <1>1, <1>2, <2>1, <2>4, <2>5, <2>6 DEF NrzRests
<1>5. CASE Begins
  <2>1. ~clearing
    <3>1. GoesOn => sender'.phase # 0
      BY SenderInts DEF GoesOn
    <3> QED
      BY <1>3, <1>5, <3>1 DEF Begins
  <2> QED
    BY <1>1, <1>5, <2>1, BeginWaits
<1>6. CASE Falls
  <2>1. ~clearing
    BY <1>3, <1>6 DEF Falls, GoesOn
  <2>2. ~sender'.on /\ owed' = owed
    BY <1>6 DEF Falls
  <2>3. ~Rises(sender')
    BY <2>2 DEF Rises, Lit
  <2> QED
    BY <1>1, <1>2, <2>1, <2>2, <2>3 DEF NrzRests
<1> QED
  BY <1>4, <1>5, <1>6, TickCases

LEMMA NrzStep ==
    ASSUME Margins, Typed, Clean, NrzInv, Next
    PROVE  NrzInv' /\ wrong' = wrong
<1>1. front.enc = "nrz" /\ Interrupts /\ late <= Latency /\ 0 <= Latency
  BY Numbers DEF NrzInv
<1>2. front' = front /\ front'.enc = "nrz" /\ Interrupts'
  <2>1. front' = front
    BY DEF Next, Tick, EdgeIsr, CompareIrda, CompareNrzBit, CompareNrzStop, CompareBegins, ClearEdge, Poll
  <2> QED
    BY <1>1, <2>1 DEF Interrupts
<1>3. CASE Tick
  <2>1. late' <= Latency /\ wrong' = wrong
    BY <1>1, <1>3, InterruptTick
  <2>2. StartWaits' \/ NrzCurrent' \/ NrzRests'
    <3>1. CASE StartWaits
      BY <1>1, <1>3, <3>1, StartTick
    <3>2. CASE NrzCurrent
      BY <1>1, <1>3, <3>2, NrzCurrentTick
    <3>3. CASE NrzRests
      BY <1>1, <1>3, <3>3, NrzRestTick
    <3> QED
      BY <3>1, <3>2, <3>3 DEF NrzInv
  <2> QED
    BY <1>2, <2>1, <2>2 DEF NrzInv
<1>4. CASE EdgeIsr
  <2>1. late' = 0 /\ edge # Never
    BY <1>4 DEF EdgeIsr
  <2>2. NrzCurrent' /\ wrong' = wrong
    <3>1. CASE StartWaits
      BY <1>1, <1>4, <3>1, NrzStart
    <3>2. CASE NrzCurrent
      BY <1>1, <1>4, <3>2, NrzEdge
    <3> QED
      BY <2>1, <3>1, <3>2 DEF NrzInv, NrzRests
  <2> QED
    BY <1>1, <1>2, <2>1, <2>2 DEF NrzInv
<1>5. CASE CompareNrzBit
  <2>1. late' = 0
    BY <1>5 DEF CompareNrzBit, CompareBegins
  <2> QED
    BY <1>1, <1>2, <1>5, <2>1, NrzBit DEF NrzInv
<1>6. CASE CompareNrzStop
  <2>1. late' = 0
    BY <1>6 DEF CompareNrzStop, CompareBegins
  <2> QED
    BY <1>1, <1>2, <1>6, <2>1, NrzStop DEF NrzInv
<1>7. CASE ClearEdge
  <2>1. /\ clearing /\ clearing' = FALSE /\ edge' = Never /\ late' = 0
        /\ UNCHANGED <<sender, owed, wrong, rx>>
    BY <1>7 DEF ClearEdge, airVars
  <2>2. NrzRests
    BY <2>1 DEF NrzInv, StartWaits, NrzCurrent, NrzAt
  <2>3. NrzRests'
    BY <2>1, <2>2 DEF NrzRests
  <2> QED
    BY <1>1, <1>2, <2>1, <2>3 DEF NrzInv
<1> QED
  BY <1>1, <1>3, <1>4, <1>5, <1>6, <1>7 DEF Next, CompareIrda, Poll

-----------------------------------------------------------------------------
(* IrDA with interrupts                                                    *)

LEMMA OffsetNumbers ==
    ASSUME NEW o \in Offsets
    PROVE  o \in Nat /\ o <= Latency /\ (front.board = "uno" => o = 0)
BY Numbers DEF Offsets

\* A tick later, and whether the counter meets the end of the byte.
LEMMA PulseTick ==
    ASSUME Margins, Typed, Interrupts, Tick, NEW a \in Nat, a < EndTicks + BitTicks, PulseByte(a)
    PROVE  PulseByte(a + 1)' /\ (count' = cc <=> a + 1 = EndTicks) /\ clearing = FALSE
<1>1. /\ rx' = rx /\ cc' = cc /\ clearing' = clearing /\ count' = Wrap(count + 1)
  BY InterruptTick
<1>2. /\ rx = Byte(rx.t0, 1, {}, rx.mask) /\ Since(count, rx.t0, a)
      /\ cc = Wrap(rx.t0 + EndTicks) /\ clearing = FALSE
  BY DEF PulseByte
<1>3. Since(count', rx.t0, a + 1)
  BY <1>1, <1>2, SinceTick
<1>4. count' = cc <=> a + 1 = EndTicks
  <2>1. /\ a + 1 \in Int /\ EndTicks \in Int /\ 0 <= a + 1 /\ a + 1 < CountMod
        /\ 0 <= EndTicks /\ EndTicks < CountMod
    BY Numbers, EndNumbers
  <2> QED
    BY <1>2, <1>3, <2>1, SinceMeets
<1> QED
  BY <1>1, <1>2, <1>3, <1>4 DEF PulseByte

\* A character's last phase: the compare of a long gap comes first.
LEMMA IrdaLast ==
    ASSUME Margins, Typed, Clean, Interrupts, front.enc = "irda", Tick,
           NEW o \in Nat, NEW a \in Nat, IrdaAt(o, a), ~GoesOn
    PROVE  /\ sender.gap \in front.gaps /\ sender.gap \in Int /\ sender.gap <= 0
           /\ a + 1 = EndTicks + sender.gap - o /\ a < EndTicks /\ edge = Never /\ compare = FALSE
           /\ rx.mask = Zeros(sender) /\ sender \in Senders
<1>1. /\ o \in Offsets /\ sender.on /\ sender.phase = a + o /\ CompareWaits(a)
      /\ edge = Never => rx.mask = PulsesTo(sender, sender.phase)
      /\ edge # Never => \E k \in Zeros(sender) : EdgeWaits(k)
  BY DEF IrdaAt
<1>2. o <= Latency /\ late \in Nat /\ Latency \in Nat /\ 2 * Latency < HalfBit
  BY <1>1, OffsetNumbers, TwiceLatency, Numbers DEF Typed
<1>3. /\ sender.gap \in Int /\ sender.gap \in front.gaps /\ sender \in Senders
      /\ sender.phase = EndTicks + sender.gap - 1
  BY <1>1, SenderInts, TickCases DEF Begins, Falls
<1>4. sender.gap >= -HalfBit /\ GapOK(front, sender.gap)
  BY <1>3, GapLength DEF Typed, LineTyped
<1>5. edge # Never \/ compare => late < Latency
  BY InterruptTick
<1>6. compare => a = EndTicks + late
  BY <1>1 DEF CompareWaits
<1>7. ~compare => a < EndTicks
  BY <1>1 DEF CompareWaits
<1>8. sender.gap <= 0 \/ sender.gap > 2 * Latency
  <2>1. front.board \in {"uno", "samd21"}
    BY LineAssumption DEF Typed, LineTyped, Interrupts
  <2> QED
    BY <1>3, <1>4, <2>1, Numbers DEF GapOK
<1>9. sender.gap <= 0
  BY <1>1, <1>2, <1>3, <1>5, <1>6, <1>7, <1>8, EndNumbers
<1>10. ~compare /\ a < EndTicks
  BY <1>1, <1>2, <1>3, <1>6, <1>7, <1>9, EndNumbers
<1>11. edge = Never
  <2>1. ASSUME edge # Never PROVE FALSE
    <3>1. PICK k \in Zeros(sender) : sender.phase = CellStart(sender, k) + late
      BY <1>1, <2>1 DEF EdgeWaits
    <3>2. CellStart(sender, k) \in Int
          /\ CellStart(sender, k) + 2 * Latency < DataBits * BitTicks + HalfBit
      BY <1>3, CellsEnd
    <3> QED
      BY <1>2, <1>3, <1>4, <1>5, <2>1, <3>1, <3>2, Numbers, EndNumbers
  <2> QED
    BY <2>1
<1>12. rx.mask = Zeros(sender)
  <2>1. sender.phase >= StopBit * BitTicks /\ sender.phase \in Int
    BY <1>2, <1>3, <1>4, Numbers, EndNumbers
  <2> QED
    BY <1>1, <1>3, <1>11, <2>1, PulsesAll
<1>13. compare = FALSE
  BY <1>10 DEF Typed
<1>14. a + 1 = EndTicks + sender.gap - o
  BY <1>1, <1>3, EndNumbers
<1> QED
  BY <1>3, <1>9, <1>10, <1>11, <1>12, <1>13, <1>14

\* The sender as the tick leaves it.
LEMMA SenderTyped ==
    ASSUME Typed, Interrupts, Margins, Tick
    PROVE  sender \in Senders /\ sender' \in Senders /\ sender.phase \in Nat
<1>1. Senders' = Senders
  BY InterruptTick DEF Senders
<1>2. sender' \in Senders'
  BY TypedTick DEF Typed, LineTyped
<1>3. sender \in Senders /\ sender.phase \in Nat
  BY DEF Typed, LineTyped, Senders
<1> QED
  BY <1>1, <1>2, <1>3

\* A tick within the character: no edge, or the next pulse's.
LEMMA IrdaGoesOn ==
    ASSUME Margins, Typed, Clean, Interrupts, front.enc = "irda", Tick, late <= Latency,
           NEW o \in Nat, NEW a \in Nat, IrdaAt(o, a), GoesOn
    PROVE  IrdaAt(o, a + 1)'
<1>1. /\ o \in Offsets /\ sender.on /\ owed = <<sender.data>> /\ sender.phase = a + o
      /\ PulseByte(a) /\ CompareWaits(a)
      /\ edge = Never => rx.mask = PulsesTo(sender, sender.phase)
      /\ edge # Never => \E k \in Zeros(sender) : EdgeWaits(k) /\ rx.mask = {j \in Zeros(sender) : j < k}
  BY DEF IrdaAt
<1>2. /\ sender \in Senders /\ sender' \in Senders /\ sender.phase \in Nat
  BY SenderTyped
<1>3. /\ front' = front /\ rx' = rx /\ count' = Wrap(count + 1) /\ count' \in Counts /\ late \in Nat
      /\ (edge # Never \/ compare) => late < Latency /\ late' = late + 1
      /\ edge = Never /\ ~compare /\ ~clearing => late' = 0
      /\ edge' = (IF Rises(sender') THEN count' ELSE edge)
      /\ (compare' <=> (compare \/ count' = cc))
  BY InterruptTick
<1>4. /\ sender'.on /\ sender'.phase = sender.phase + 1 /\ sender'.data = sender.data
      /\ Zeros(sender') = Zeros(sender) /\ \A k : CellStart(sender', k) = CellStart(sender, k)
      /\ owed' = owed
  BY DEF GoesOn
<1>5. o <= Latency /\ Latency \in Nat /\ 2 * Latency < HalfBit /\ HalfBit \in Nat
  BY <1>1, OffsetNumbers, TwiceLatency, Numbers
<1>6. a <= EndTicks + Latency
  <2>1. a = EndTicks + late \/ a < EndTicks
    BY <1>1 DEF CompareWaits
  <2>2. late <= Latency
    OBVIOUS
  <2> QED
    BY <1>3, <1>5, <2>1, <2>2, EndNumbers
<1>7. PulseByte(a + 1)' /\ (count' = cc <=> a + 1 = EndTicks) /\ clearing = FALSE
  <2>1. a < EndTicks + BitTicks
    BY <1>5, <1>6, Numbers, EndNumbers
  <2> QED
    BY <1>1, <2>1, PulseTick
<1>8. o \in Offsets' /\ owed' = <<sender'.data>> /\ sender'.phase = a + 1 + o
  BY <1>1, <1>2, <1>3, <1>4 DEF Offsets
<1>9. \A p : PulsesTo(sender', p) = PulsesTo(sender, p)
  BY <1>4 DEF PulsesTo
<1> DEFINE Masks ==
      /\ edge' = Never => rx'.mask = PulsesTo(sender', sender'.phase)
      /\ edge' # Never => \E k \in Zeros(sender') : EdgeWaits(k)' /\ rx'.mask = {j \in Zeros(sender') : j < k}
<1>10. ASSUME Rises(sender') PROVE CompareWaits(a + 1)' /\ Masks
  <2>1. PICK k \in Zeros(sender) : sender.phase + 1 = CellStart(sender, k)
    BY <1>2, <1>4, <1>10, RisesAtCell
  <2>2. /\ k \in Nat /\ CellStart(sender, k) \in Int /\ CellStart(sender, 0) = 0
        /\ CellStart(sender, k) + 2 * Latency < DataBits * BitTicks + HalfBit
    BY <1>2, CellsEnd, CellNumbers
  <2>3. k >= 1
    <3>1. k # 0
      BY <1>2, <2>1, <2>2
    <3> QED
      BY <2>2, <3>1
  <2>4. edge = Never
    <3>1. ASSUME edge # Never PROVE FALSE
      <4>1. PICK j \in Zeros(sender) : sender.phase = CellStart(sender, j) + late
        BY <1>1, <3>1 DEF EdgeWaits
      <4>2. j \in Nat /\ CellStart(sender, j) \in Int
        BY <1>2, CellsEnd
      <4>3. CellStart(sender, k) = CellStart(sender, j) + late + 1 /\ late < Latency
        BY <1>3, <2>1, <3>1, <4>1, <4>2
      <4>4. j < k => CellStart(sender, j) + HalfBit + 2 * Latency < CellStart(sender, k)
        BY <1>2, <2>2, <4>2, CellOrder
      <4>5. k < j => CellStart(sender, k) + HalfBit + 2 * Latency < CellStart(sender, j)
        BY <1>2, <2>2, <4>2, CellOrder
      <4>6. j # k
        BY <1>3, <4>2, <4>3
      <4> QED
        BY <1>3, <1>5, <2>2, <4>2, <4>3, <4>4, <4>5, <4>6
    <3> QED
      BY <3>1
  <2>5. a + 1 < EndTicks
    BY <1>1, <1>2, <1>5, <2>1, <2>2, Numbers, EndNumbers
  <2>6. ~compare
    BY <1>1, <1>3, <2>5, EndNumbers DEF CompareWaits
  <2>7. edge' = count' /\ late' = 0 /\ ~compare'
    BY <1>3, <1>7, <1>10, <2>4, <2>5, <2>6
  <2>8. EdgeWaits(k)'
    <3>1. Since(count', edge', 0)
      BY <1>3, <2>7, SinceNow
    <3>2. sender'.phase = CellStart(sender', k) + 0 /\ k \in Zeros(sender')
      BY <1>4, <2>1, <2>2
    <3> QED
      BY <2>3, <2>7, <3>1, <3>2 DEF EdgeWaits
  <2>9. rx'.mask = {j \in Zeros(sender') : j < k}
    <3>1. sender.phase = CellStart(sender, k) - 1
      BY <1>2, <2>1, <2>2
    <3>2. PulsesTo(sender, CellStart(sender, k) - 1) = {j \in Zeros(sender) : j < k}
      <4>1. 0 \in Nat /\ 0 <= 2 * Latency
        BY <1>5
      <4> QED
        BY <1>2, <4>1, PulsesMore
    <3> QED
      BY <1>1, <1>3, <1>4, <2>4, <3>1, <3>2
  <2>10. edge' # Never
    BY <1>3, <2>7, CountsAreInts
  <2>11. k \in Zeros(sender')
    BY <1>4
  <2> QED
    BY <2>5, <2>7, <2>8, <2>9, <2>10, <2>11 DEF CompareWaits
<1>11. ASSUME ~Rises(sender'), edge # Never PROVE CompareWaits(a + 1)' /\ Masks
  <2>1. PICK k \in Zeros(sender) : EdgeWaits(k) /\ rx.mask = {j \in Zeros(sender) : j < k}
    BY <1>1, <1>11
  <2>2. k >= 1 /\ sender.phase = CellStart(sender, k) + late /\ Since(count, edge, late)
    BY <2>1 DEF EdgeWaits
  <2>3. /\ CellStart(sender, k) \in Int
        /\ CellStart(sender, k) + 2 * Latency < DataBits * BitTicks + HalfBit
    BY <1>2, CellsEnd
  <2>4. ~compare
    BY <1>1, <1>11 DEF CompareWaits
  <2>5. edge' = edge /\ late' = late + 1 /\ late < Latency
    BY <1>3, <1>11
  <2>6. a + 1 < EndTicks
    BY <1>1, <1>2, <1>3, <1>5, <2>2, <2>3, <2>5, Numbers, EndNumbers
  <2>7. ~compare'
    BY <1>3, <1>7, <2>4, <2>6, EndNumbers
  <2>8. EdgeWaits(k)'
    <3>1. Since(count', edge', late')
      BY <1>3, <2>2, <2>5, SinceTick
    <3>2. sender'.phase = CellStart(sender', k) + late' /\ k \in Zeros(sender')
      BY <1>3, <1>4, <2>2, <2>3, <2>5
    <3> QED
      BY <2>2, <3>1, <3>2 DEF EdgeWaits
  <2>9. rx'.mask = {j \in Zeros(sender') : j < k} /\ k \in Zeros(sender')
    BY <1>3, <1>4, <2>1
  <2> QED
    BY <1>11, <2>5, <2>6, <2>7, <2>8, <2>9 DEF CompareWaits
<1>12. ASSUME ~Rises(sender'), edge = Never PROVE CompareWaits(a + 1)' /\ Masks
  <2>1. edge' = Never
    BY <1>3, <1>12
  <2>2. PulsesTo(sender, sender.phase + 1) = PulsesTo(sender, sender.phase)
    <3>1. ASSUME NEW k \in Zeros(sender) PROVE CellStart(sender, k) # sender.phase + 1
      <4>1. k \in Zeros(sender') /\ (CellStart(sender, k) = sender.phase + 1 => sender'.phase = CellStart(sender', k))
        BY <1>4
      <4>2. sender'.phase # CellStart(sender', k)
        BY <1>2, <1>4, <1>12, <4>1, PulseRises
      <4> QED
        BY <4>1, <4>2
    <3>2. sender.phase + 1 \in Int /\ (sender.phase + 1) - 1 = sender.phase
      BY <1>2
    <3> QED
      BY <1>2, <3>1, <3>2, PulsesSame
  <2>3. Masks
    BY <1>1, <1>3, <1>4, <1>9, <1>12, <2>1, <2>2
  <2>4. CompareWaits(a + 1)'
    <3>1. CASE compare
      <4>1. compare' /\ late' = late + 1 /\ a = EndTicks + late
        BY <1>1, <1>3, <3>1 DEF CompareWaits
      <4> QED
        BY <1>3, <2>1, <4>1, EndNumbers DEF CompareWaits
    <3>2. CASE ~compare
      <4>1. late' = 0 /\ a < EndTicks /\ (compare' <=> a + 1 = EndTicks)
        BY <1>1, <1>3, <1>7, <1>12, <3>2 DEF CompareWaits
      <4> QED
        BY <2>1, <4>1, EndNumbers DEF CompareWaits
    <3> QED
      BY <3>1, <3>2
  <2> QED
    BY <2>3, <2>4
<1>13. CompareWaits(a + 1)' /\ Masks
  BY <1>10, <1>11, <1>12
<1> QED
  BY <1>4, <1>7, <1>8, <1>13 DEF IrdaAt

LEMMA AppendOne ==
    ASSUME NEW S, NEW x \in S, NEW y \in S
    PROVE  Append(<<x>>, y) = <<x, y>>
<1>1. <<x>> \in Seq(S) /\ Len(<<x>>) = 1 /\ Len(<<x, y>>) = 2
  OBVIOUS
<1>2. Append(<<x>>, y) \in Seq(S) /\ <<x, y>> \in Seq(S) /\ Len(Append(<<x>>, y)) = 2
  BY <1>1
<1>3. Append(<<x>>, y)[1] = x /\ Append(<<x>>, y)[2] = y
  BY <1>1
<1>4. \A i \in 1 .. 2 : Append(<<x>>, y)[i] = <<x, y>>[i]
  BY <1>3
<1> QED
  BY <1>1, <1>2, <1>4, SeqEqual

\* A tick past the character's last phase: the next one's start edge, or quiet.
LEMMA IrdaCurrentTick ==
    ASSUME Margins, Typed, Clean, Interrupts, front.enc = "irda", Tick, late <= Latency, IrdaCurrent
    PROVE  IrdaCurrent' \/ IrdaNextWaits' \/ IrdaQuiet'
<1>1. PICK o \in Nat, a \in Nat : IrdaAt(o, a)
  BY DEF IrdaCurrent
<1>2. CASE GoesOn
  <2>1. IrdaAt(o, a + 1)' /\ a + 1 \in Nat
    BY <1>1, <1>2, IrdaGoesOn
  <2> QED
    BY <2>1 DEF IrdaCurrent
<1>3. CASE ~GoesOn
  <2>g. PICK g : g = sender.gap
    OBVIOUS
  <2>1. /\ g \in front.gaps /\ g \in Int /\ g <= 0 /\ a + 1 = EndTicks + g - o /\ a < EndTicks
        /\ edge = Never /\ compare = FALSE /\ rx.mask = Zeros(sender) /\ sender \in Senders
    BY <1>1, <1>3, <2>g, IrdaLast
  <2>2. o \in Offsets /\ owed = <<sender.data>> /\ PulseByte(a) /\ sender.on
    BY <1>1 DEF IrdaAt
  <2>3. PulseByte(a + 1)' /\ (count' = cc <=> a + 1 = EndTicks) /\ clearing = FALSE
    <3>1. a < EndTicks + BitTicks
      BY <2>1, Numbers, EndNumbers
    <3> QED
      BY <2>2, <3>1, PulseTick
  <2>4. /\ front' = front /\ rx' = rx /\ count' \in Counts /\ late' = 0
        /\ edge' = (IF Rises(sender') THEN count' ELSE edge) /\ (compare' <=> count' = cc)
    BY <2>1, <2>3, InterruptTick
  <2>5. o \in Offsets' /\ g \in front'.gaps
    BY <2>1, <2>2, <2>4 DEF Offsets
  <2>6. FullMask' /\ owed = <<Bits \ rx.mask>> /\ rx'.mask = rx.mask
    BY <2>1, <2>2, <2>4, ZeroCells DEF FullMask
  <2>7. a + 1 \in Nat /\ g \in Int /\ o \in Int
    BY <2>1
  <2>8. CASE Begins
    <3>1. /\ sender' \in Senders /\ sender'.on /\ sender'.phase = 0
          /\ owed' = <<Bits \ rx'.mask, sender'.data>>
      <4>1. /\ sender' \in Senders /\ sender'.on /\ sender'.phase = 0
            /\ owed' = Append(owed, sender'.data)
        BY <2>8 DEF Begins
      <4>2. owed = <<Bits \ rx'.mask>>
        BY <2>6
      <4>3. Append(<<Bits \ rx'.mask>>, sender'.data) = <<Bits \ rx'.mask, sender'.data>>
        <5>1. Bits \ rx'.mask \in SUBSET Bits /\ sender'.data \in SUBSET Bits
          BY <4>1 DEF Senders
        <5> QED
          BY <5>1, AppendOne
      <4> QED
        BY <4>1, <4>2, <4>3
    <3>2. Rises(sender')
      <4>1. 0 \in Zeros(sender') /\ CellStart(sender', 0) = 0
        BY <3>1, ZeroCells, CellNumbers
      <4> QED
        BY <3>1, <4>1, PulseRises
    <3>3. edge' = count' /\ Since(count', edge', 0) /\ edge' # Never
      BY <2>4, <3>2, SinceNow, CountsAreInts
    <3>4. compare' <=> a + 1 >= EndTicks
      BY <2>1, <2>3, <2>4, EndNumbers
    <3>5. a + 1 = EndTicks + g + 0 - o
      BY <2>1, <2>7, EndNumbers
    <3>6. NextAt(o, g, a + 1)'
      BY <2>1, <2>3, <2>4, <2>5, <2>6, <3>1, <3>3, <3>4, <3>5 DEF NextAt
    <3> QED
      BY <2>7, <3>6 DEF IrdaNextWaits
  <2>9. CASE Falls
    <3>1. ~sender'.on /\ quiet' = 1 /\ owed' = <<Bits \ rx'.mask>>
      BY <2>2, <2>6, <2>9 DEF Falls
    <3>2. ~Rises(sender')
      BY <3>1 DEF Rises, Lit
    <3>3. edge' = Never
      BY <2>1, <2>4, <3>2
    <3>4. CompareWaits(a + 1)'
      BY <2>1, <2>3, <2>4, <3>3, EndNumbers DEF CompareWaits
    <3>5. a + 1 = EndTicks + g + 1 - 1 - o
      BY <2>1, <2>7, EndNumbers
    <3>6. QuietAt(o, g, a + 1)'
      BY <2>1, <2>3, <2>5, <2>6, <3>1, <3>3, <3>4, <3>5 DEF QuietAt
    <3> QED
      BY <2>7, <3>6 DEF IrdaQuiet
  <2> QED
    BY <1>3, <2>8, <2>9, TickCases
<1> QED
  BY <1>2, <1>3

LEMMA IrdaNextTick ==
    ASSUME Margins, Typed, Clean, Interrupts, front.enc = "irda", Tick, late <= Latency, IrdaNextWaits
    PROVE  IrdaNextWaits'
<1>1. PICK o \in Nat, a \in Nat, g \in Int : NextAt(o, g, a)
  BY DEF IrdaNextWaits
<1>2. /\ o \in Offsets /\ g \in front.gaps /\ g <= 0 /\ a = EndTicks + g + late - o
      /\ sender.on /\ sender.phase = late /\ edge # Never /\ Since(count, edge, late)
      /\ PulseByte(a) /\ (compare <=> a >= EndTicks)
      /\ FullMask /\ owed = <<Bits \ rx.mask, sender.data>>
  BY <1>1 DEF NextAt
<1>3. /\ front' = front /\ rx' = rx /\ count' = Wrap(count + 1) /\ late \in Nat
      /\ late < Latency /\ late' = late + 1
      /\ edge' = (IF Rises(sender') THEN count' ELSE edge)
      /\ (compare' <=> (compare \/ count' = cc))
  BY <1>2, InterruptTick
<1>4. GoesOn
  BY <1>2, LongEnough
<1>5. /\ sender'.on /\ sender'.phase = late' /\ sender'.data = sender.data /\ owed' = owed
  BY <1>2, <1>3, <1>4 DEF GoesOn
<1>6. sender' \in Senders /\ Latency \in Nat /\ 2 * Latency < HalfBit /\ HalfBit \in Nat
  BY SenderTyped, TwiceLatency, Numbers
<1>7. ~Rises(sender')
  <2>1. ASSUME Rises(sender') PROVE FALSE
    <3>1. PICK k \in Zeros(sender') : sender'.phase = CellStart(sender', k)
      BY <1>6, <2>1, RisesAtCell
    <3>2. CellStart(sender', k) \in Int /\ k \in Nat
          /\ (k >= 1 => CellStart(sender', k) > HalfBit + 2 * Latency)
      BY <1>6, CellsEnd
    <3>3. k = 0 => CellStart(sender', k) = 0
      BY <1>6, CellNumbers
    <3> QED
      BY <1>3, <1>5, <1>6, <3>1, <3>2, <3>3
  <2> QED
    BY <2>1
<1>8. edge' = edge /\ Since(count', edge', late')
  BY <1>2, <1>3, <1>7, SinceTick
<1>9. PulseByte(a + 1)' /\ (count' = cc <=> a + 1 = EndTicks)
  <2>1. a < EndTicks + BitTicks
    BY <1>2, <1>3, <1>6, Numbers, EndNumbers
  <2> QED
    BY <1>2, <2>1, PulseTick
<1>10. compare' <=> a + 1 >= EndTicks
  BY <1>2, <1>3, <1>9, EndNumbers
<1>11. a + 1 = EndTicks + g + late' - o
  BY <1>2, <1>3, EndNumbers
<1>12. o \in Offsets' /\ g \in front'.gaps /\ FullMask' /\ owed' = <<Bits \ rx'.mask, sender'.data>>
  BY <1>2, <1>3, <1>5 DEF Offsets, FullMask
<1>13. NextAt(o, g, a + 1)'
  BY <1>2, <1>5, <1>8, <1>9, <1>10, <1>11, <1>12 DEF NextAt
<1> QED
  BY <1>13 DEF IrdaNextWaits

LEMMA IrdaQuietTick ==
    ASSUME Margins, Typed, Clean, Interrupts, front.enc = "irda", Tick, late <= Latency, IrdaQuiet
    PROVE  IrdaQuiet'
<1>1. PICK o \in Nat, a \in Nat, g \in Int : QuietAt(o, g, a)
  BY DEF IrdaQuiet
<1>2. /\ o \in Offsets /\ g \in front.gaps /\ g <= 0 /\ a = EndTicks + g + quiet - 1 - o
      /\ ~sender.on /\ quiet >= 1 /\ edge = Never
      /\ PulseByte(a) /\ CompareWaits(a)
      /\ FullMask /\ owed = <<Bits \ rx.mask>>
  BY <1>1 DEF QuietAt
<1>3. /\ front' = front /\ rx' = rx /\ late \in Nat
      /\ compare => late < Latency /\ late' = late + 1
      /\ ~compare /\ ~clearing => late' = 0
      /\ edge' = (IF Rises(sender') THEN count' ELSE edge)
      /\ (compare' <=> (compare \/ count' = cc))
  BY <1>2, InterruptTick
<1>4. quiet \in Nat /\ o <= Latency /\ Latency \in Nat /\ 2 * Latency < HalfBit /\ g >= -HalfBit
      /\ HalfBit \in Nat
  BY <1>2, OffsetNumbers, TwiceLatency, GapLength, Numbers DEF Typed, LineTyped
<1>5. a <= EndTicks + Latency
  <2>1. a = EndTicks + late \/ a < EndTicks
    BY <1>2 DEF CompareWaits
  <2>2. late <= Latency
    OBVIOUS
  <2> QED
    BY <1>3, <1>4, <2>1, <2>2, EndNumbers
<1>6. quiet < QuietTicks
  BY <1>2, <1>4, <1>5, Numbers, EndNumbers
<1>7. Falls
  BY <1>2, <1>6, TickCases, Numbers DEF GoesOn, Begins
<1>8. ~sender'.on /\ quiet' = quiet + 1 /\ owed' = owed
  BY <1>2, <1>6, <1>7 DEF Falls
<1>9. ~Rises(sender')
  BY <1>8 DEF Rises, Lit
<1>10. PulseByte(a + 1)' /\ (count' = cc <=> a + 1 = EndTicks) /\ clearing = FALSE
  <2>1. a < EndTicks + BitTicks
    BY <1>4, <1>5, Numbers, EndNumbers
  <2> QED
    BY <1>2, <2>1, PulseTick
<1>11. edge' = Never
  BY <1>2, <1>3, <1>9
<1>12. CompareWaits(a + 1)'
  <2>1. CASE compare
    <3>1. compare' /\ late' = late + 1 /\ a = EndTicks + late
      BY <1>2, <1>3, <2>1 DEF CompareWaits
    <3> QED
      BY <1>3, <1>11, <3>1, EndNumbers DEF CompareWaits
  <2>2. CASE ~compare
    <3>1. late' = 0 /\ a < EndTicks /\ (compare' <=> a + 1 = EndTicks)
      BY <1>2, <1>3, <1>10, <2>2 DEF CompareWaits
    <3> QED
      BY <1>11, <3>1, EndNumbers DEF CompareWaits
  <2> QED
    BY <2>1, <2>2
<1>13. a + 1 = EndTicks + g + quiet' - 1 - o /\ quiet' >= 1
  BY <1>2, <1>4, <1>8, EndNumbers
<1>14. o \in Offsets' /\ g \in front'.gaps /\ FullMask' /\ owed' = <<Bits \ rx'.mask>>
  BY <1>2, <1>3, <1>8 DEF Offsets, FullMask
<1>15. QuietAt(o, g, a + 1)'
  BY <1>2, <1>8, <1>10, <1>11, <1>12, <1>13, <1>14 DEF QuietAt
<1> QED
  BY <1>15 DEF IrdaQuiet

LEMMA IrdaRestTick ==
    ASSUME Margins, Typed, Clean, Interrupts, front.enc = "irda", Tick, late <= Latency, IrdaRests
    PROVE  StartWaits' \/ IrdaRests'
<1>1. /\ rx = Idle /\ edge = Never /\ owed = <<>>
      /\ sender.on => sender.phase >= EndTicks
      /\ clearing => IF sender.on THEN sender.phase <= EndTicks + Latency + late
                                  ELSE quiet <= 1 + HalfBit + Latency + late
      /\ clearing => front.board = "uno"
  BY DEF IrdaRests
<1>2. /\ front' = front /\ rx' = rx /\ clearing' = clearing
      /\ edge' = (IF Rises(sender') THEN count' ELSE edge) /\ late \in Nat
      /\ clearing => late < Latency /\ late' = late + 1
  BY <1>1, InterruptTick
<1>3. sender \in Senders /\ sender' \in Senders /\ sender.phase \in Nat /\ quiet \in Nat
  BY SenderTyped, Numbers DEF Typed, LineTyped
<1>4. Latency \in Nat /\ 2 * Latency < HalfBit /\ HalfBit \in Nat
  BY TwiceLatency, Numbers
\* The UNO's handler is done with the edge flag before the line moves on.
<1>5. ASSUME clearing, sender.on PROVE sender.phase # LastPhase(sender)
  <2>1. /\ LastPhase(sender) = EndTicks + sender.gap - 1 /\ sender.gap \in Int
        /\ GapOK(front, sender.gap)
    BY <1>5, SenderInts
  <2>2. sender.gap <= 0 \/ sender.gap > 2 * Latency
    BY <1>1, <1>5, <2>1 DEF GapOK
  <2>3. sender.phase <= EndTicks + Latency + late /\ late < Latency /\ sender.phase >= EndTicks
    BY <1>1, <1>2, <1>5
  <2> QED
    BY <1>2, <1>3, <1>4, <2>1, <2>2, <2>3, EndNumbers
<1>6. ASSUME clearing, ~sender.on PROVE quiet < QuietTicks
  <2>1. quiet <= 1 + HalfBit + Latency + late /\ late < Latency
    BY <1>1, <1>2, <1>6
  <2> QED
    BY <1>2, <1>3, <1>4, <2>1, Numbers
<1>7. CASE GoesOn
  <2>1. /\ sender'.on /\ sender'.phase = sender.phase + 1 /\ sender.on /\ owed' = owed
    BY <1>7 DEF GoesOn
  <2>2. ~Rises(sender')
    <3>1. ASSUME Rises(sender') PROVE FALSE
      <4>1. PICK k \in Zeros(sender') : sender'.phase = CellStart(sender', k)
        BY <1>3, <3>1, RisesAtCell
      <4>2. CellStart(sender', k) \in Int
            /\ CellStart(sender', k) + 2 * Latency < DataBits * BitTicks + HalfBit
        BY <1>3, CellsEnd
      <4> QED
        BY <1>1, <1>3, <1>4, <2>1, <4>1, <4>2, Numbers, EndNumbers
    <3> QED
      BY <3>1
  <2>3. edge' = Never
    BY <1>1, <1>2, <2>2
  <2>4. sender'.phase >= EndTicks
    BY <1>1, <1>3, <2>1, EndNumbers
  <2>5. clearing' => sender'.phase <= EndTicks + Latency + late' /\ front'.board = "uno"
    BY <1>1, <1>2, <1>3, <1>4, <2>1, EndNumbers
  <2> QED
    BY <1>1, <1>2, <2>1, <2>3, <2>4, <2>5 DEF IrdaRests
<1>8. CASE Begins
  <2>1. ~clearing
    BY <1>3, <1>5, <1>6, <1>8, Numbers DEF Begins
  <2> QED
    BY <1>1, <1>8, <2>1, BeginWaits
<1>9. CASE Falls
  <2>1. ~sender'.on /\ owed' = owed
    BY <1>9 DEF Falls
  <2>2. ~Rises(sender')
    BY <2>1 DEF Rises, Lit
  <2>3. clearing' => quiet' <= 1 + HalfBit + Latency + late' /\ front'.board = "uno"
    <3>1. ASSUME clearing PROVE quiet' <= 1 + HalfBit + Latency + late' /\ front'.board = "uno"
      <4>1. ~sender.on
        BY <1>5, <1>9, <3>1 DEF Falls
      <4>2. quiet' = quiet + 1 /\ quiet <= 1 + HalfBit + Latency + late
        BY <1>1, <1>6, <1>9, <3>1, <4>1 DEF Falls
      <4> QED
        BY <1>1, <1>2, <1>3, <1>4, <3>1, <4>2
    <3> QED
      BY <1>2, <3>1
  <2> QED
    BY <1>1, <1>2, <2>1, <2>2, <2>3 DEF IrdaRests
<1> QED
  BY <1>7, <1>8, <1>9, TickCases

\* A byte begins at its start edge, wherever the receiver was.
LEMMA IrdaBegins ==
    ASSUME Margins, Typed, Interrupts, EdgeIsr, late <= Latency,
           sender.on, sender.phase = late, clearing = FALSE,
           NEW t \in Counts, NEW e \in Offsets, NEW a \in Nat, a = late - e, Since(count, t, a),
           rx' = Start(t, 1), cc' = EndTime(t), compare' = FALSE, owed' = <<sender.data>>
    PROVE  IrdaCurrent'
<1>1. /\ edge' = Never /\ sender' = sender /\ front' = front /\ count' = count /\ clearing' = clearing
      /\ late' = 0
  BY DEF EdgeIsr, airVars
<1>2. e \in Nat /\ e <= Latency /\ late \in Nat /\ Latency \in Nat /\ 2 * Latency < HalfBit
      /\ HalfBit \in Nat /\ sender \in Senders
  BY OffsetNumbers, TwiceLatency, Numbers DEF Typed, LineTyped
<1>3. rx' = Byte(t, 1, {}, {0}) /\ rx'.t0 = t /\ rx'.mask = {0}
  BY DEF Start, Byte
<1>4. PulseByte(a)'
  BY <1>1, <1>3 DEF PulseByte, EndTime, EndTicks
<1>5. a < EndTicks
  BY <1>2, Numbers, EndNumbers
<1>6. CompareWaits(a)'
  BY <1>1, <1>5 DEF CompareWaits, EndTicks
<1>7. PulsesTo(sender, late) = {0}
  <2>1. late \in Int /\ 0 <= late /\ late <= HalfBit
    BY <1>2
  <2> QED
    BY <1>2, <2>1, PulsesFirst
<1>8. PulsesTo(sender', sender'.phase) = {0}
  BY <1>1, <1>7 DEF PulsesTo, Zeros, CellStart
<1>9. e \in Offsets' /\ owed' = <<sender'.data>> /\ sender'.on /\ sender'.phase = a + e
  BY <1>1, <1>2 DEF Offsets
<1>10. IrdaAt(e, a)'
  BY <1>1, <1>3, <1>4, <1>6, <1>8, <1>9 DEF IrdaAt
<1> QED
  BY <1>2, <1>10 DEF IrdaCurrent

LEMMA IrdaStart ==
    ASSUME Margins, Typed, Interrupts, front.enc = "irda", StartWaits, late <= Latency, EdgeIsr
    PROVE  IrdaCurrent' /\ wrong' = wrong
<1>1. /\ sender.on /\ sender.phase = late /\ rx = Idle /\ clearing = FALSE
      /\ owed = <<sender.data>> /\ Since(count, edge, late)
  BY DEF StartWaits, Typed
<1>2. PICK e \in Offsets, t \in Counts :
         /\ e <= late /\ Since(count, t, late - e) /\ late - e \in Nat
         /\ EdgeStart(t) \/ EdgePulse(t) \/ EdgePivot(t) \/ EdgeNrz(t)
  BY <1>1, EdgeServed
<1>3. EdgeStart(t)
  BY <1>1, <1>2 DEF EdgePulse, EdgePivot, EdgeNrz, Receiving
<1>4. /\ rx' = Start(t, 1) /\ cc' = EndTime(t) /\ compare' = FALSE
      /\ owed' = <<sender.data>> /\ wrong' = wrong
  BY <1>1, <1>3 DEF EdgeStart, Dropped
<1>5. IrdaCurrent'
  BY <1>1, <1>2, <1>4, IrdaBegins
<1> QED
  BY <1>4, <1>5

LEMMA DivAtLeast ==
    ASSUME NEW x \in Int, NEW k \in Int, x >= k * BitTicks
    PROVE  x \div BitTicks >= k /\ x \div BitTicks \in Int
<1>1. BitTicks \in Nat \ {0}
  BY Numbers
<1> DEFINE q == x \div BitTicks
<1>2. q \in Int /\ q * BitTicks <= x /\ x < q * BitTicks + BitTicks
  BY <1>1
<1> HIDE DEF q
<1>3. ~(q < k)
  BY <1>1, <1>2, BitsLater
<1>4. q >= k
  BY <1>2, <1>3
<1> QED
  BY <1>2, <1>4 DEF q

\* The time of a served edge, in ticks since the byte began.
LEMMA EdgeAge ==
    ASSUME Margins, Typed, NEW o \in Nat, NEW a \in Nat, o <= Latency, a < CountMod - Latency,
           PulseByte(a), NEW t \in Counts, NEW n \in Nat, n <= a, Since(count, t, n)
    PROVE  CellOf(t) = (a - n + HalfBit) \div BitTicks
<1>1. Since(count, rx.t0, a)
  BY DEF PulseByte
<1>2. a \in Int /\ n \in Int /\ a - n < CountMod
  BY Numbers
<1>3. Wrap(t - rx.t0) = a - n
  BY <1>1, <1>2, SinceBetween
<1> QED
  BY <1>3 DEF CellOf

LEMMA IrdaPulse ==
    ASSUME Margins, Typed, Interrupts, front.enc = "irda", IrdaCurrent, late <= Latency, EdgeIsr
    PROVE  IrdaCurrent' /\ wrong' = wrong
<1>1. PICK o \in Nat, a \in Nat : IrdaAt(o, a)
  BY DEF IrdaCurrent
<1>2. /\ edge # Never /\ edge' = Never /\ sender' = sender /\ front' = front /\ count' = count
      /\ clearing' = clearing /\ late' = 0
  BY DEF EdgeIsr, airVars
<1>3. /\ o \in Offsets /\ sender.on /\ owed = <<sender.data>> /\ sender.phase = a + o
      /\ PulseByte(a) /\ CompareWaits(a)
  BY <1>1 DEF IrdaAt
<1>4. PICK k \in Zeros(sender) : EdgeWaits(k) /\ rx.mask = {j \in Zeros(sender) : j < k}
  BY <1>1, <1>2 DEF IrdaAt
<1>5. k >= 1 /\ sender.phase = CellStart(sender, k) + late /\ Since(count, edge, late)
  BY <1>4 DEF EdgeWaits
<1>6. sender \in Senders /\ late \in Nat /\ Latency \in Nat /\ o <= Latency /\ 2 * Latency < HalfBit
      /\ HalfBit \in Nat
  BY <1>3, OffsetNumbers, TwiceLatency, Numbers DEF Typed, LineTyped
<1>7. CellStart(sender, k) \in Int /\ k \in Nat /\ CellStart(sender, k) > HalfBit + 2 * Latency
  BY <1>5, <1>6, CellsEnd
<1>8. ~compare /\ a < EndTicks
  BY <1>2, <1>3 DEF CompareWaits
<1>9. PICK e \in Offsets, t \in Counts :
         /\ e <= late /\ Since(count, t, late - e) /\ late - e \in Nat
         /\ EdgeStart(t) \/ EdgePulse(t) \/ EdgePivot(t) \/ EdgeNrz(t)
  BY <1>5, EdgeServed
<1>10. e \in Nat /\ e <= late
  BY <1>9, OffsetNumbers
<1>11. CellOf(t) = k /\ k < EndBit
  <2>1. a < CountMod - Latency /\ late - e <= a /\ late <= Latency
    BY <1>3, <1>5, <1>6, <1>7, <1>8, <1>10, Numbers, EndNumbers
  <2>2. CellOf(t) = (a - (late - e) + HalfBit) \div BitTicks
    BY <1>3, <1>6, <1>9, <2>1, EdgeAge
  <2>3. a - (late - e) = CellStart(sender, k) + e - o
    BY <1>3, <1>5, <1>6, <1>7, <1>10
  <2>4. /\ a - (late - e) \in Int /\ CellStart(sender, k) - Latency <= a - (late - e)
        /\ a - (late - e) <= CellStart(sender, k) + Latency
    BY <1>6, <1>7, <1>10, <2>1, <2>3
  <2>5. (a - (late - e) + HalfBit) \div BitTicks = k /\ k < EndBit
    BY <1>6, <2>4, PulseCell
  <2> QED
    BY <2>2, <2>5
<1>12. EdgePulse(t)
  <2>1. Receiving
    BY <1>3, CountsAreInts DEF PulseByte, Receiving, Idle, Byte, Since
  <2>2. ~(CellOf(t) >= EndBit)
    BY <1>7, <1>11, Numbers
  <2> QED
    BY <1>9, <2>1, <2>2 DEF EdgeStart, EdgePivot, EdgeNrz
<1>13. /\ rx' = [rx EXCEPT !.mask = @ \cup ({k} \ {0})] /\ cc' = cc /\ compare' = compare
       /\ owed' = owed /\ wrong' = wrong
  BY <1>11, <1>12 DEF EdgePulse, Dropped
<1> DEFINE m == {j \in Zeros(sender) : j < k} \cup {k}
<1>14. rx' = Byte(rx.t0, 1, {}, m) /\ rx'.t0 = rx.t0 /\ rx'.mask = m
  <2>1. rx.mask \cup ({k} \ {0}) = m
    BY <1>4, <1>5
  <2>2. rx' = [rx EXCEPT !.mask = m]
    BY <1>13, <2>1
  <2>3. rx = Byte(rx.t0, 1, {}, rx.mask)
    BY <1>3 DEF PulseByte
  <2> HIDE DEF m
  <2> QED
    BY <2>2, <2>3 DEF Byte
<1>15. PulsesTo(sender', sender'.phase) = m
  <2>1. PulsesTo(sender, CellStart(sender, k) + late) = m
    <3>1. late <= 2 * Latency
      BY <1>6
    <3> QED
      BY <1>6, <3>1, PulsesMore
  <2> QED
    BY <1>2, <1>5, <2>1 DEF PulsesTo, Zeros, CellStart
<1>16. PulseByte(a)'
  BY <1>2, <1>3, <1>13, <1>14 DEF PulseByte
<1>17. CompareWaits(a)'
  BY <1>8, <1>13 DEF CompareWaits, EndTicks
<1>18. o \in Offsets' /\ sender'.on /\ owed' = <<sender'.data>> /\ sender'.phase = a + o
  BY <1>2, <1>3, <1>13 DEF Offsets
<1> HIDE DEF m
<1>19. IrdaAt(o, a)'
  BY <1>2, <1>14, <1>15, <1>16, <1>17, <1>18 DEF IrdaAt
<1> QED
  BY <1>13, <1>19 DEF IrdaCurrent

\* The next start edge finds the byte before it whole, and takes its place; the
\* compare it overtakes is not served for the new byte.
LEMMA IrdaPivot ==
    ASSUME Margins, Typed, Interrupts, front.enc = "irda", IrdaNextWaits, late <= Latency, EdgeIsr
    PROVE  IrdaCurrent' /\ wrong' = wrong
<1>1. PICK o \in Nat, a \in Nat, g \in Int : NextAt(o, g, a)
  BY DEF IrdaNextWaits
<1>2. /\ o \in Offsets /\ g \in front.gaps /\ g <= 0 /\ a = EndTicks + g + late - o
      /\ sender.on /\ sender.phase = late /\ edge # Never /\ Since(count, edge, late)
      /\ PulseByte(a) /\ (compare <=> a >= EndTicks)
      /\ FullMask /\ owed = <<Bits \ rx.mask, sender.data>>
  BY <1>1 DEF NextAt
<1>3. /\ late \in Nat /\ Latency \in Nat /\ o <= Latency /\ 2 * Latency < HalfBit
      /\ HalfBit \in Nat /\ (front.board = "uno" => o = 0)
  BY <1>2, OffsetNumbers, TwiceLatency, Numbers DEF Typed
<1>4. g >= -HalfBit /\ GapOK(front, g)
  BY <1>2, GapLength DEF Typed, LineTyped
<1>5. /\ front.board \in {"uno", "samd21"}
      /\ front.board = "samd21" => Latency - HalfBit <= g /\ g < -Latency
  <2>1. front.board \in {"uno", "samd21"}
    BY LineAssumption DEF Typed, LineTyped, Interrupts
  <2>2. ASSUME front.board = "samd21" PROVE Latency - HalfBit <= g /\ g < -Latency
    BY <1>2, <1>3, <1>4, <2>2 DEF GapOK
  <2> QED
    BY <2>1, <2>2
<1>6. PICK e \in Offsets, t \in Counts :
         /\ e <= late /\ Since(count, t, late - e) /\ late - e \in Nat
         /\ front.board # "uno" => e = late
         /\ EdgeStart(t) \/ EdgePulse(t) \/ EdgePivot(t) \/ EdgeNrz(t)
  BY <1>2, EdgeServed
<1>7. e \in Nat /\ e <= late
  BY <1>6, OffsetNumbers
<1>8. CellOf(t) >= EndBit
  <2>1. a < CountMod - Latency /\ late - e <= a /\ late <= Latency
    BY <1>2, <1>3, <1>4, <1>7, Numbers, EndNumbers
  <2>2. CellOf(t) = (a - (late - e) + HalfBit) \div BitTicks
    BY <1>2, <1>3, <1>6, <2>1, EdgeAge
  <2>3. a - (late - e) = EndTicks + g + e - o
    BY <1>2, <1>3, <1>7, EndNumbers
  <2>4. g + e - o + HalfBit >= 0
    <3>1. CASE front.board = "uno"
      BY <1>2, <1>3, <1>4, <1>7, <3>1
    <3>2. CASE front.board = "samd21"
      BY <1>2, <1>3, <1>5, <1>7, <3>2
    <3> QED
      BY <1>5, <3>1, <3>2
  <2>5. a - (late - e) + HalfBit \in Int /\ a - (late - e) + HalfBit >= EndBit * BitTicks
    BY <1>2, <1>3, <1>7, <2>3, <2>4, EndNumbers DEF EndTicks
  <2> DEFINE x == a - (late - e) + HalfBit
  <2>6. x \div BitTicks >= EndBit
    <3>1. x \in Int /\ x >= EndBit * BitTicks
      BY <2>5
    <3> HIDE DEF x
    <3> QED
      BY <3>1, DivAtLeast, Numbers
  <2> QED
    BY <2>2, <2>6
<1>9. EdgePivot(t)
  <2>1. Receiving
    BY <1>2, CountsAreInts DEF PulseByte, Receiving, Idle, Byte, Since
  <2>2. ~(CellOf(t) < EndBit)
    <3>1. CellOf(t) \in Int
      <4>1. rx.t0 \in Int /\ t \in Int
        BY <1>2, CountsAreInts DEF PulseByte, Since
      <4>2. Wrap(t - rx.t0) \in Int
        <5>1. t - rx.t0 \in Int
          BY <4>1
        <5>2. Wrap(t - rx.t0) \in Counts
          BY <5>1, WrapCounts
        <5> QED
          BY <5>2, CountsAreInts
      <4> QED
        BY <4>2, Numbers DEF CellOf
    <3> QED
      BY <1>8, <3>1, Numbers
  <2> QED
    BY <1>6, <2>1, <2>2 DEF EdgeStart, EdgePulse, EdgeNrz
<1>10. /\ FinishMask(rx.mask) /\ rx' = Start(t, rx.index) /\ cc' = EndTime(t)
       /\ compare' = CompareAfterPivot
  BY <1>9 DEF EdgePivot
<1>11. rx' = Start(t, 1)
  <2>1. rx.index = 1
    BY <1>2 DEF PulseByte, Byte
  <2> QED
    BY <1>10, <2>1
<1>12. owed' = <<sender.data>> /\ wrong' = wrong
  <2>1. Received(Bits \ rx.mask)
    BY <1>2, <1>10 DEF FinishMask, FullMask
  <2>2. owed # <<>> /\ Head(owed) = Bits \ rx.mask /\ Tail(owed) = <<sender.data>>
    BY <1>2
  <2> QED
    BY <2>1, <2>2 DEF Received
<1>13. compare' = FALSE
  <2>1. CASE front.board = "uno"
    BY <1>10, <2>1 DEF CompareAfterPivot
  <2>2. CASE front.board = "samd21"
    <3>1. ~(a >= EndTicks)
      BY <1>2, <1>3, <1>5, <2>2, EndNumbers
    <3>2. compare = FALSE
      BY <1>2, <3>1 DEF Typed
    <3> QED
      BY <1>10, <2>2, <3>2 DEF CompareAfterPivot
  <2> QED
    BY <1>5, <2>1, <2>2
<1>14. clearing = FALSE
  BY <1>2 DEF PulseByte
<1>15. IrdaCurrent'
  BY <1>2, <1>6, <1>10, <1>11, <1>12, <1>13, <1>14, IrdaBegins
<1> QED
  BY <1>12, <1>15

\* The end of a byte: its compare is served, or the quiet line's.
LEMMA IrdaEnd ==
    ASSUME Margins, Typed, Clean, Interrupts, late <= Latency, IrdaInv, CompareIrda
    PROVE  IrdaRests' /\ wrong' = wrong
<1>0. front.enc = "irda" /\ CompareBegins /\ FinishMask(rx.mask) /\ EndByte
  BY DEF CompareIrda
<1>1. /\ compare = TRUE /\ edge = Never /\ sender' = sender /\ front' = front /\ quiet' = quiet
      /\ edge' = Never /\ rx' = Idle /\ late' = 0 /\ clearing' = (front.board = "uno")
  BY <1>0 DEF CompareBegins, EndByte, airVars, Typed
<1>2. rx # Idle
  BY <1>1 DEF Typed, Receiving
<1>3. late \in Nat /\ Latency \in Nat /\ HalfBit \in Nat /\ quiet \in Nat
  BY Numbers DEF Typed, LineTyped
<1>4. CASE IrdaCurrent
  <2>1. PICK o \in Nat, a \in Nat : IrdaAt(o, a)
    BY <1>4 DEF IrdaCurrent
  <2>2. /\ o \in Offsets /\ sender.on /\ owed = <<sender.data>> /\ sender.phase = a + o
        /\ a = EndTicks + late /\ rx.mask = PulsesTo(sender, sender.phase)
    BY <1>1, <2>1 DEF IrdaAt, CompareWaits
  <2>3. sender \in Senders /\ sender.phase \in Int /\ sender.phase >= EndTicks
    BY <1>3, <2>2, EndNumbers DEF Typed, LineTyped
  <2>4. rx.mask = Zeros(sender)
    <3>1. sender.phase >= StopBit * BitTicks
      BY <2>3, Numbers, EndNumbers
    <3> QED
      BY <2>2, <2>3, <3>1, PulsesAll
  <2>5. owed' = <<>> /\ wrong' = wrong
    BY <1>0, <2>2, <2>3, <2>4, FinishWhole
  <2>6. ASSUME clearing'
        PROVE  front'.board = "uno" /\ sender'.on /\ sender'.phase <= EndTicks + Latency + late'
    <3>1. front.board = "uno"
      BY <1>1, <2>6
    <3>2. o = 0 /\ late <= Latency
      BY <2>2, <3>1, OffsetNumbers
    <3>3. sender.phase <= EndTicks + Latency
      BY <1>3, <2>2, <3>2, EndNumbers
    <3>4. late' = 0 /\ sender' = sender /\ front' = front
      BY <1>1
    <3> QED
      BY <1>3, <2>2, <2>3, <3>1, <3>3, <3>4, EndNumbers
  <2> QED
    BY <1>1, <2>2, <2>3, <2>5, <2>6 DEF IrdaRests, EndTicks
<1>5. CASE IrdaQuiet
  <2>1. PICK o \in Nat, a \in Nat, g \in Int : QuietAt(o, g, a)
    BY <1>5 DEF IrdaQuiet
  <2>2. /\ o \in Offsets /\ g \in front.gaps /\ ~sender.on
        /\ a = EndTicks + g + quiet - 1 - o /\ a = EndTicks + late
        /\ FullMask /\ owed = <<Bits \ rx.mask>>
    BY <1>1, <2>1 DEF QuietAt, CompareWaits
  <2>3. owed' = <<>> /\ wrong' = wrong
    <3>1. Received(Bits \ rx.mask)
      BY <1>0, <2>2 DEF FinishMask, FullMask
    <3>2. owed # <<>> /\ Head(owed) = Bits \ rx.mask /\ Tail(owed) = <<>>
      BY <2>2
    <3> QED
      BY <3>1, <3>2 DEF Received
  <2>4. ASSUME clearing'
        PROVE  front'.board = "uno" /\ ~sender'.on /\ quiet' <= 1 + HalfBit + Latency + late'
    <3>1. front.board = "uno"
      BY <1>1, <2>4
    <3>2. o = 0 /\ late <= Latency /\ g >= -HalfBit
      BY <2>2, <3>1, OffsetNumbers, GapLength DEF Typed, LineTyped
    <3>3. quiet <= 1 + HalfBit + Latency
      BY <1>3, <2>2, <3>2, EndNumbers
    <3>4. late' = 0 /\ sender' = sender /\ front' = front /\ quiet' = quiet
      BY <1>1
    <3> QED
      BY <1>3, <2>2, <3>1, <3>3, <3>4
  <2>5. ~sender'.on
    BY <1>1, <2>2
  <2> QED
    BY <1>1, <2>3, <2>4, <2>5 DEF IrdaRests
<1> QED
  BY <1>1, <1>2, <1>4, <1>5 DEF IrdaInv, StartWaits, IrdaNextWaits, NextAt, IrdaRests

LEMMA IrdaStep ==
    ASSUME Margins, Typed, Clean, IrdaInv, Next
    PROVE  IrdaInv' /\ wrong' = wrong
<1>1. front.enc = "irda" /\ Interrupts /\ late <= Latency /\ 0 <= Latency
  BY Numbers DEF IrdaInv
<1>2. front' = front /\ front'.enc = "irda" /\ Interrupts'
  <2>1. front' = front
    BY DEF Next, Tick, EdgeIsr, CompareIrda, CompareNrzBit, CompareNrzStop, CompareBegins, ClearEdge, Poll
  <2> QED
    BY <1>1, <2>1 DEF Interrupts
<1>3. CASE Tick
  <2>1. late' <= Latency /\ wrong' = wrong
    BY <1>1, <1>3, InterruptTick
  <2>2. StartWaits' \/ IrdaCurrent' \/ IrdaNextWaits' \/ IrdaQuiet' \/ IrdaRests'
    <3>1. CASE StartWaits
      BY <1>1, <1>3, <3>1, StartTick
    <3>2. CASE IrdaCurrent
      BY <1>1, <1>3, <3>2, IrdaCurrentTick
    <3>3. CASE IrdaNextWaits
      BY <1>1, <1>3, <3>3, IrdaNextTick
    <3>4. CASE IrdaQuiet
      BY <1>1, <1>3, <3>4, IrdaQuietTick
    <3>5. CASE IrdaRests
      BY <1>1, <1>3, <3>5, IrdaRestTick
    <3> QED
      BY <3>1, <3>2, <3>3, <3>4, <3>5 DEF IrdaInv
  <2> QED
    BY <1>2, <2>1, <2>2 DEF IrdaInv
<1>4. CASE EdgeIsr
  <2>1. late' = 0 /\ edge # Never
    BY <1>4 DEF EdgeIsr
  <2>2. IrdaCurrent' /\ wrong' = wrong
    <3>1. CASE StartWaits
      BY <1>1, <1>4, <3>1, IrdaStart
    <3>2. CASE IrdaCurrent
      BY <1>1, <1>4, <3>2, IrdaPulse
    <3>3. CASE IrdaNextWaits
      BY <1>1, <1>4, <3>3, IrdaPivot
    <3> QED
      BY <2>1, <3>1, <3>2, <3>3 DEF IrdaInv, IrdaRests, IrdaQuiet, QuietAt
  <2> QED
    BY <1>1, <1>2, <2>1, <2>2 DEF IrdaInv
<1>5. CASE CompareIrda
  <2>1. late' = 0
    BY <1>5 DEF CompareIrda, CompareBegins
  <2> QED
    BY <1>1, <1>2, <1>5, <2>1, IrdaEnd DEF IrdaInv
<1>6. CASE ClearEdge
  <2>1. /\ clearing /\ clearing' = FALSE /\ edge' = Never /\ late' = 0
        /\ UNCHANGED <<sender, owed, wrong, rx>>
    BY <1>6 DEF ClearEdge, airVars
  <2>2. IrdaRests
    BY <2>1 DEF IrdaInv, StartWaits, IrdaCurrent, IrdaAt, IrdaNextWaits, NextAt, IrdaQuiet, QuietAt, PulseByte
  <2>3. IrdaRests'
    BY <2>1, <2>2 DEF IrdaRests, EndTicks
  <2> QED
    BY <1>1, <1>2, <2>1, <2>3 DEF IrdaInv
<1> QED
  BY <1>1, <1>3, <1>4, <1>5, <1>6 DEF Next, CompareNrzBit, CompareNrzStop, Poll

-----------------------------------------------------------------------------
(* The receivers                                                           *)

LEMMA PollStep ==
    ASSUME Margins, Typed, Clean, PollInv, Next
    PROVE  PollInv' /\ wrong' = wrong
<1>1. ~Interrupts /\ edge = Never /\ ~compare /\ ~clearing
  BY DEF PollInv, Typed
<1>2. CASE Tick
  BY <1>2, PollTick DEF Tick
<1>3. CASE Poll
  BY <1>3, PollPoll
<1> QED
  BY <1>1, <1>2, <1>3
  DEF Next, EdgeIsr, CompareIrda, CompareNrzBit, CompareNrzStop, CompareBegins, ClearEdge

LEMMA InvInit ==
    ASSUME Margins, Init
    PROVE  IInv
<1>1. Typed
  BY TypedInit
<1>2. /\ front \in Fronts /\ sender.on = FALSE /\ owed = <<>> /\ wrong = FALSE /\ edge = Never
      /\ clearing = FALSE /\ late = 0 /\ rx = Idle /\ was = FALSE
  BY DEF Init, LineInit, Silence
<1>3. front.enc \in {"irda", "nrz"} /\ (~Interrupts => front.enc = "irda")
  BY <1>2, LineAssumption DEF Margins, Interrupts
<1>4. Clean /\ 0 <= Latency
  BY <1>2, Numbers DEF Clean
<1>5. IrdaRests /\ NrzRests /\ PollRests
  BY <1>2 DEF IrdaRests, NrzRests, PollRests
<1> QED
  BY <1>1, <1>2, <1>3, <1>4, <1>5 DEF IInv, IrdaInv, NrzInv, PollInv

LEMMA InvStep ==
    ASSUME Margins, IInv, [Next]_vars
    PROVE  IInv'
<1>1. Typed /\ Clean /\ (IrdaInv \/ NrzInv \/ PollInv)
  BY DEF IInv
<1>2. Typed'
  BY <1>1, TypedStep
<1>3. CASE Next
  <2>1. (IrdaInv \/ NrzInv \/ PollInv)' /\ wrong' = wrong
    BY <1>1, <1>3, IrdaStep, NrzStep, PollStep
  <2>2. Clean'
    <3>1. CASE Tick
      BY <1>1, <3>1, CleanTick
    <3>2. CASE ~Tick
      <4>1. sender' = sender
        BY <1>3, <3>2
        DEF Next, EdgeIsr, CompareIrda, CompareNrzBit, CompareNrzStop, CompareBegins, ClearEdge, Poll, airVars
      <4> QED
        BY <1>1, <2>1, <4>1 DEF Clean, LastPhase
    <3> QED
      BY <3>1, <3>2
  <2> QED
    BY <1>2, <2>1, <2>2 DEF IInv
<1>4. CASE UNCHANGED vars
  <2>1. /\ front' = front /\ sender' = sender /\ quiet' = quiet /\ owed' = owed /\ wrong' = wrong
        /\ count' = count /\ edge' = edge /\ cc' = cc /\ compare' = compare
        /\ clearing' = clearing /\ late' = late /\ rx' = rx /\ was' = was
    BY <1>4 DEF vars, lineVars, airVars
  <2>2. Clean'
    BY <1>1, <2>1 DEF Clean, LastPhase
  <2>3. Interrupts' <=> Interrupts
    BY <2>1 DEF Interrupts
  <2>4. StartWaits' <=> StartWaits
    BY <2>1 DEF StartWaits
  <2>5. Offsets' = Offsets
    BY <2>1 DEF Offsets
  <2>6. \A k : EdgeWaits(k)' <=> EdgeWaits(k)
    BY <2>1 DEF EdgeWaits, Zeros, CellStart
  <2>7. \A a : (PulseByte(a)' <=> PulseByte(a)) /\ (CompareWaits(a)' <=> CompareWaits(a))
    BY <2>1 DEF PulseByte, CompareWaits, EndTicks
  <2>8. IrdaInv => IrdaInv'
    <3>1. IrdaCurrent => IrdaCurrent'
      BY <2>1, <2>5, <2>6, <2>7 DEF IrdaCurrent, IrdaAt, PulsesTo, Zeros, CellStart
    <3>2. IrdaNextWaits => IrdaNextWaits'
      BY <2>1, <2>5, <2>7 DEF IrdaNextWaits, NextAt, FullMask, EndTicks
    <3>3. IrdaQuiet => IrdaQuiet'
      BY <2>1, <2>5, <2>7 DEF IrdaQuiet, QuietAt, FullMask, EndTicks
    <3>4. IrdaRests => IrdaRests'
      BY <2>1 DEF IrdaRests, EndTicks
    <3> QED
      BY <2>1, <2>3, <2>4, <3>1, <3>2, <3>3, <3>4 DEF IrdaInv
  <2>9. NrzInv => NrzInv'
    <3>1. NrzCurrent => NrzCurrent'
      BY <2>1, <2>5, <2>6 DEF NrzCurrent, NrzAt, NrzOffset, Zeros
    <3>2. NrzRests => NrzRests'
      BY <2>1 DEF NrzRests
    <3> QED
      BY <2>1, <2>3, <2>4, <3>1, <3>2 DEF NrzInv
  <2>10. PollInv => PollInv'
    BY <2>1, <2>3 DEF PollInv, PollDone, PollDue, PollStart, PollRests, PollByte, Lit, Zeros, CellStart, EndTicks
  <2> QED
    BY <1>1, <1>2, <2>2, <2>8, <2>9, <2>10 DEF IInv
<1> QED
  BY <1>3, <1>4

\* The line is quiet for long enough only when the receiver rests.
LEMMA QuietRests ==
    ASSUME Margins, IInv, quiet = QuietTicks
    PROVE  owed = <<>> /\ rx = Idle
<1>1. Typed /\ quiet \in Nat /\ quiet > 0
  BY Numbers DEF IInv, Typed, LineTyped
<1>2. ~sender.on
  BY <1>1, SenderInts
<1>3. ~IrdaQuiet \/ ~(late <= Latency)
  <2>1. ASSUME IrdaQuiet, late <= Latency PROVE FALSE
    <3>1. PICK o \in Nat, a \in Nat, g \in Int : QuietAt(o, g, a)
      BY <2>1 DEF IrdaQuiet
    <3>2. /\ o \in Offsets /\ g \in front.gaps /\ a = EndTicks + g + quiet - 1 - o
          /\ (a = EndTicks + late \/ a < EndTicks)
      BY <3>1 DEF QuietAt, CompareWaits
    <3>3. late \in Nat /\ o <= Latency /\ g >= -HalfBit /\ 2 * Latency < HalfBit
      BY <1>1, <3>2, OffsetNumbers, GapLength, TwiceLatency, Numbers DEF Typed, LineTyped
    <3> QED
      BY <1>1, <2>1, <3>2, <3>3, Numbers, EndNumbers
  <2> QED
    BY <2>1
<1> QED
  BY <1>2, <1>3
  DEF IInv, IrdaInv, StartWaits, IrdaCurrent, IrdaAt, IrdaNextWaits, NextAt, IrdaRests,
      NrzInv, NrzCurrent, NrzAt, NrzRests, PollInv, PollDone, PollDue, PollStart, PollRests, PollByte

\* Within the margins no receiver hands the host a byte that is not the next one
\* sent: whatever the bytes, the drifts, the gaps and the order in which an edge,
\* the compare and the polls are served (byte_received).
THEOREM NothingFalse ==
    ASSUME Margins
    PROVE  Spec => []NoFalseByte
<1>1. Init => IInv
  BY InvInit
<1>2. IInv /\ [Next]_vars => IInv'
  BY InvStep
<1>3. IInv => NoFalseByte
  BY DEF IInv, Clean, NoFalseByte
<1> QED
  BY <1>1, <1>2, <1>3, PTL DEF Spec

\* Within the margins every byte is received: two dark bits after the last
\* character the receiver is idle again and owes nothing (g_rx_state, finish_rx_byte).
THEOREM EverythingReceived ==
    ASSUME Margins
    PROVE  Spec => []NothingMissed
<1>1. Init => IInv
  BY InvInit
<1>2. IInv /\ [Next]_vars => IInv'
  BY InvStep
<1>3. IInv => NothingMissed
  BY QuietRests DEF NothingMissed, Receiving
<1> QED
  BY <1>1, <1>2, <1>3, PTL DEF Spec
====
