---- MODULE AnalogRx_proofs ----
(***************************************************************************)
(* What holds of the analog receiver for every oversampling, every level,  *)
(* shift and stray light: the ranges of its state and that its envelopes   *)
(* never cross. And for clean light, of one brightness with a margin over  *)
(* the squelch: every byte is received, and none that was not sent.        *)
(***************************************************************************)
EXTENDS AnalogRx, TLAPS

RxRecord ==
    [on : BOOLEAN, armed : BOOLEAN, run : 0 .. ArmSamples, samp : 0 .. BitTicks - 1, bit : 0 .. StopBit,
     data : SUBSET Bits, pulse : BOOLEAN, lvl : Counts, lmin : Counts, dmax : Counts, lightRun : Nat]
SenderRecord == [on : BOOLEAN, data : SUBSET Bits, drift : Drifts \cup {0}, gap : front.gaps \cup {0}, phase : Nat]
Levels == 0 .. AdcMax[front.board] * Scale

\* A byte's light run is no longer than the byte is old.
RunBounded(r) == IF r.on THEN r.lightRun <= r.bit * BitTicks + r.samp ELSE r.lightRun = 0

IInv ==
    /\ front \in Fronts /\ sender \in SenderRecord /\ quiet \in 0 .. QuietTicks
    /\ owed \in Seq(SUBSET Bits) /\ wrong \in BOOLEAN
    /\ sent \in 0 .. MaxChars /\ stray \in Nat /\ ambient \in front.ambients
    /\ due \in BOOLEAN /\ line \in BOOLEAN
    /\ env \in [hi : Levels, lo : Levels] /\ (~Esp32 => env.lo <= env.hi)
    /\ rx \in RxRecord /\ RunBounded(rx)

-----------------------------------------------------------------------------
(* Constants and samples                                                   *)

\* The board's numbers.
LEMMA Board ==
    ASSUME front \in Fronts
    PROVE  /\ AdcMax[front.board] \in Nat /\ MinContrast \in Nat \ {0}
           /\ Scale \in {1, 64} /\ (Esp32 <=> Scale = 1)
           /\ BitTicks \in Nat \ {0} /\ DataBits \in Nat \ {0} /\ StopBit \in Nat /\ QuietTicks \in Nat
<1>1. front.board \in {"samd21", "uno", "esp32c3"}
  BY LineAssumption
<1>2. AdcMax[front.board] \in Nat /\ MinContrast \in Nat \ {0}
  <2>1. CASE front.board = "samd21" BY <2>1 DEF AdcMax, MinContrast, Squelch
  <2>2. CASE front.board = "uno" BY <2>2 DEF AdcMax, MinContrast, Squelch
  <2>3. CASE front.board = "esp32c3" BY <2>3 DEF AdcMax, MinContrast, Squelch
  <2> QED BY <1>1, <2>1, <2>2, <2>3
<1>3. Scale \in {1, 64} /\ (Esp32 <=> Scale = 1)
  BY DEF Scale, Esp32
<1>4. BitTicks \in Nat \ {0} /\ DataBits \in Nat \ {0} /\ StopBit \in Nat /\ QuietTicks \in Nat
  BY LineAssumption DEF StopBit, QuietTicks
<1> QED BY <1>2, <1>3, <1>4

\* A slow edge is between the two levels.
LEMMA Between ==
    ASSUME NEW old \in Nat, NEW new \in Nat, NEW top \in Nat, old <= top, new <= top,
           NEW lag \in 0 .. 2
    PROVE  new + (lag * (old - new)) \div 2 \in 0 .. top
<1>1. CASE lag = 0 BY <1>1
<1>2. CASE lag = 1 BY <1>2
<1>3. CASE lag = 2 BY <1>3
<1> QED BY <1>1, <1>2, <1>3

\* Every sample is a count of the ADC.
LEMMA SampleInRange ==
    ASSUME front \in Fronts, ambient \in front.ambients
    PROVE  Sample \in Counts
<1> DEFINE top == AdcMax[front.board]
<1>1. top \in Nat
  BY Board
<1>2. \A lit : Level(lit) \in 0 .. top
  BY AnalogAssumption DEF Level
<1>3. front.lag \in 0 .. 2
  BY AnalogAssumption
<1> HIDE DEF top
<1>4. Level(Bright) + (front.lag * (Level(WasBright) - Level(Bright))) \div 2 \in 0 .. top
  BY <1>1, <1>2, <1>3, Between
<1> QED BY <1>4 DEF Sample, Counts, top

-----------------------------------------------------------------------------
(* The slicer                                                              *)

\* A rail ends between where it was and the sample; the dark one not below the
\* sample, the light one not above.
LEMMA Rails ==
    ASSUME NEW e \in Int, NEW s \in Int
    PROVE  /\ High(e, s) \in Int /\ Low(e, s) \in Int
           /\ (s <= e => s <= High(e, s) /\ High(e, s) <= e)
           /\ (s > e => e <= High(e, s) /\ High(e, s) <= s)
           /\ (s >= e => e <= Low(e, s) /\ Low(e, s) <= s)
           /\ (s < e => s <= Low(e, s) /\ Low(e, s) <= e)
<1>1. \A d \in {4, 128, 2048} : /\ (s - e) \div d \in Int
                               /\ (s >= e => 0 <= (s - e) \div d /\ (s - e) \div d <= s - e)
                               /\ (s <= e => s - e <= (s - e) \div d /\ (s - e) \div d <= 0)
  OBVIOUS
<1>2. \A d \in {4, 128, 2048} : e + (s - e) \div d \in Int
  BY <1>1
<1>3. Attack(e, s) = e + (s - e) \div 4 /\ \E d \in {128, 2048} : Decay(e, s) = e + (s - e) \div d
  BY DEF Attack, Decay
<1> QED BY <1>1, <1>2, <1>3 DEF High, Low

\* Ordered rails stay ordered: beyond one of them the far rail creeps at most as far
\* as the near one jumps.
LEMMA RailsOrdered ==
    ASSUME NEW hi \in Int, NEW lo \in Int, NEW s \in Int, lo <= hi
    PROVE  Low(lo, s) <= High(hi, s)
<1>1. CASE lo <= s /\ s <= hi
  BY <1>1, Rails
<1>2. CASE s > hi
  <2>1. PICK d \in {128, 2048} : Decay(lo, s) = lo + (s - lo) \div d
    BY DEF Decay
  <2>2. lo + (s - lo) \div d <= hi + (s - hi) \div 4
    BY <1>2
  <2> QED BY <1>2, <2>1, <2>2 DEF High, Low, Attack
<1>3. CASE s < lo
  <2>1. PICK d \in {128, 2048} : Decay(hi, s) = hi + (s - hi) \div d
    BY DEF Decay
  <2>2. lo + (s - lo) \div 4 <= hi + (s - hi) \div d
    BY <1>3
  <2> QED BY <1>3, <2>1, <2>2 DEF High, Low, Attack
<1> QED BY <1>1, <1>2, <1>3

\* a_track_env keeps the envelopes in the ADC's range and in order.
LEMMA TrackOK ==
    ASSUME NEW e \in [hi : Levels, lo : Levels], NEW adc \in Counts, front \in Fronts, e.lo <= e.hi
    PROVE  Track(e, adc) \in [hi : Levels, lo : Levels] /\ Track(e, adc).lo <= Track(e, adc).hi
<1> DEFINE top == AdcMax[front.board] * Scale
           s == adc * Scale
<1>1. top \in Nat /\ s \in 0 .. top
  <2>1. CASE Scale = 1 BY <2>1, Board DEF Counts
  <2>2. CASE Scale = 64 BY <2>2, Board DEF Counts
  <2> QED BY <2>1, <2>2, Board
<1>2. e.hi \in 0 .. top /\ e.lo \in 0 .. top
  BY DEF Levels
<1>3. Track(e, adc) = [hi |-> High(e.hi, s), lo |-> Low(e.lo, s)]
  BY DEF Track
<1> HIDE DEF top, s
<1>4. High(e.hi, s) \in 0 .. top /\ Low(e.lo, s) \in 0 .. top
  <2>1. \A x \in 0 .. top : High(x, s) \in 0 .. top /\ Low(x, s) \in 0 .. top
    <3>1. TAKE x \in 0 .. top
    <3>2. x \in Int /\ s \in Int
      BY <1>1
    <3>3. /\ High(x, s) \in Int /\ Low(x, s) \in Int
          /\ (s <= x => s <= High(x, s) /\ High(x, s) <= x)
          /\ (s > x => x <= High(x, s) /\ High(x, s) <= s)
          /\ (s >= x => x <= Low(x, s) /\ Low(x, s) <= s)
          /\ (s < x => s <= Low(x, s) /\ Low(x, s) <= x)
      BY <3>2, Rails
    <3> QED BY <1>1, <3>3
  <2> QED BY <1>2, <2>1
<1>5. Low(e.lo, s) <= High(e.hi, s)
  BY <1>1, <1>2, RailsOrdered
<1> QED BY <1>3, <1>4, <1>5 DEF Levels, top

\* One sample through the slicer of any board.
LEMMA SlicerOK ==
    ASSUME NEW e \in [hi : Levels, lo : Levels], NEW adc \in Counts, front \in Fronts,
           ~Esp32 => e.lo <= e.hi
    PROVE  /\ Slicer(e, adc) \in [hi : Levels, lo : Levels]
           /\ ~Esp32 => Slicer(e, adc).lo <= Slicer(e, adc).hi
<1>1. CASE ~Esp32
  <2>1. Track(e, adc) \in [hi : Levels, lo : Levels] /\ Track(e, adc).lo <= Track(e, adc).hi
    BY <1>1, TrackOK
  <2>2. ~Crossed(Track(e, adc))
    BY <2>1, Board DEF Crossed, Levels
  <2> QED BY <1>1, <2>1, <2>2 DEF Slicer
<1>2. CASE Esp32
  <2> DEFINE top == AdcMax[front.board]
  <2>1. top \in Nat /\ Levels = 0 .. top /\ Counts = 0 .. top
    BY <1>2, Board DEF Levels, Counts
  <2>2. MinContrast \in Nat
    BY Board
  <2> HIDE DEF top
  <2>3. EspInByte(e, adc) \in [hi : Levels, lo : Levels]
    BY <2>1 DEF EspInByte
  <2>4. EspIdle(e, adc) \in [hi : Levels, lo : Levels]
    BY <2>1, <2>2 DEF EspIdle
  <2> QED BY <1>2, <2>3, <2>4 DEF Slicer
<1> QED BY <1>1, <1>2

-----------------------------------------------------------------------------
(* The state machine                                                       *)

\* The midpoint is a number, so comparing with it is a truth value.
LEMMA MidOK ==
    ASSUME front \in Fronts, NEW e \in [hi : Levels, lo : Levels]
    PROVE  Mid(e) \in Int
<1>1. e.hi \in Int /\ e.lo \in Int
  BY Board DEF Levels
<1>2. CASE Scale = 1 BY <1>1, <1>2 DEF Mid, Dark
<1>3. CASE Scale = 64 BY <1>1, <1>3 DEF Mid, Dark
<1> QED BY <1>2, <1>3, Board

LEMMA VerdictOK ==
    ASSUME front \in Fronts, NEW e \in [hi : Levels, lo : Levels], NEW adc \in Counts,
           NEW r \in RxRecord, NEW lit \in BOOLEAN
    PROVE  Pulsed(r, e, adc, lit) \in BOOLEAN /\ IsOne(r, e) \in BOOLEAN /\ Esp32 \in BOOLEAN
<1>1. Mid(e) \in Int /\ adc \in Int /\ r.lvl \in Int /\ r.samp \in Int
  BY MidOK, Board DEF Counts, RxRecord
<1>2. (adc < Mid(e)) \in BOOLEAN /\ (r.lvl >= Mid(e)) \in BOOLEAN
  <2> DEFINE m == Mid(e)
             v == r.lvl
  <2>1. m \in Int /\ v \in Int /\ adc \in Int
    BY <1>1
  <2> HIDE DEF m, v
  <2>2. (adc < m) \in BOOLEAN /\ (v >= m) \in BOOLEAN
    BY <2>1
  <2> QED BY <2>2 DEF m, v
<1>3. r.pulse \in BOOLEAN
  BY DEF RxRecord
<1>4. (r.pulse \/ (r.samp < PulseWindow /\ lit)) \in BOOLEAN /\ (~r.pulse) \in BOOLEAN
  BY Zenon
<1>5. Pulsed(r, e, adc, lit) \in BOOLEAN
  BY <1>2, <1>3, <1>4, Zenon DEF Pulsed
<1>6. IsOne(r, e) \in BOOLEAN
  BY <1>2, <1>4, Zenon DEF IsOne
<1>7. Esp32 \in BOOLEAN
  BY Zenon DEF Esp32
<1> QED BY <1>5, <1>6, <1>7

\* A byte given to the ring, or none, keeps the account's types.
LEMMA AccountOK ==
    ASSUME owed \in Seq(SUBSET Bits), wrong \in BOOLEAN, NEW b, Received(b) \/ Dropped
    PROVE  owed' \in Seq(SUBSET Bits) /\ wrong' \in BOOLEAN
<1>1. CASE Dropped
  BY <1>1 DEF Dropped
<1>2. CASE Received(b)
  <2> DEFINE S == SUBSET Bits
  <2>1. owed \in Seq(S) /\ owed # <<>> => Tail(owed) \in Seq(S)
    <3> HIDE DEF S
    <3> QED OBVIOUS
  <2> QED BY <1>2, <2>1 DEF Received
<1> QED BY <1>1, <1>2

LEMMA IdleOK ==
    ASSUME front \in Fronts, NEW armed \in BOOLEAN, NEW run \in 0 .. ArmSamples
    PROVE  Idle(armed, run) \in RxRecord /\ RunBounded(Idle(armed, run))
<1>1. 0 \in Counts /\ 0 \in 0 .. BitTicks - 1 /\ 0 \in 0 .. StopBit
  BY Board DEF Counts
<1> QED BY <1>1 DEF Idle, RxRecord, RunBounded

LEMMA BeginOK ==
    ASSUME front \in Fronts, NEW adc \in Counts, NEW lit \in BOOLEAN
    PROVE  /\ Begin(adc, lit) \in RxRecord /\ RunBounded(Begin(adc, lit)) /\ Begin(adc, lit).on
<1>1. 0 \in 0 .. BitTicks - 1 /\ 0 \in 0 .. StopBit /\ 0 \in 0 .. ArmSamples /\ BitTicks \in Nat
  BY Board DEF ArmSamples
<1> DEFINE p == IF Esp32 THEN lit ELSE TRUE
<1>2. p \in BOOLEAN
  OBVIOUS
<1> DEFINE i == Idle(FALSE, 0)
<1>3. Begin(adc, lit) = [i EXCEPT !.on = TRUE, !.pulse = p, !.lvl = adc, !.lmin = adc, !.dmax = adc]
  BY DEF Begin
<1>4. i \in RxRecord /\ i.bit = 0 /\ i.samp = 0 /\ i.lightRun = 0
  BY <1>1, IdleOK DEF Idle
<1> HIDE DEF p, i
<1>5. Begin(adc, lit) \in RxRecord
  BY <1>2, <1>3, <1>4 DEF RxRecord
<1>6. RunBounded(Begin(adc, lit)) /\ Begin(adc, lit).on
  BY <1>1, <1>3, <1>4 DEF RunBounded, RxRecord
<1> QED BY <1>5, <1>6

\* A sample added to a byte: everything keeps its type and the light run grows by
\* no more than the byte.
LEMMA AccumulatedOK ==
    ASSUME front \in Fronts, NEW r \in RxRecord, r.on, RunBounded(r),
           NEW e \in [hi : Levels, lo : Levels], NEW adc \in Counts,
           NEW lit \in BOOLEAN
    PROVE  LET a == Accumulated(r, e, adc, lit) IN
           /\ a \in RxRecord /\ a.on /\ a.samp = r.samp /\ a.bit = r.bit
           /\ a.lightRun <= a.bit * BitTicks + a.samp + 1
<1> DEFINE a == Accumulated(r, e, adc, lit)
<1>1. Pulsed(r, e, adc, lit) \in BOOLEAN
  BY VerdictOK
<1>2. a \in RxRecord /\ a.on /\ a.samp = r.samp /\ a.bit = r.bit
  <2> DEFINE p == Pulsed(r, e, adc, lit)
             lmin == IF adc < r.lmin THEN adc ELSE r.lmin
             dmax == IF adc > r.dmax THEN adc ELSE r.dmax
             lvl == IF Nrz /\ r.samp = SamplePoint THEN adc ELSE r.lvl
             run == IF lit THEN r.lightRun + 1 ELSE 0
  <2>1. lmin \in Counts /\ dmax \in Counts /\ lvl \in Counts /\ run \in Nat /\ p \in BOOLEAN
    BY <1>1 DEF RxRecord
  <2>2. a = [r EXCEPT !.lmin = lmin, !.dmax = dmax, !.lvl = lvl, !.pulse = p, !.lightRun = run]
    BY DEF Accumulated, RxRecord
  <2> HIDE DEF lmin, dmax, lvl, run, p, a
  <2> QED BY <2>1, <2>2 DEF RxRecord
<1>3. a.lightRun = IF lit THEN r.lightRun + 1 ELSE 0
  BY DEF Accumulated, RxRecord
<1>4. r.bit * BitTicks \in Nat /\ r.samp \in Nat /\ r.lightRun \in Nat
  BY Board DEF RxRecord
<1>5. r.lightRun <= r.bit * BitTicks + r.samp
  BY DEF RunBounded
<1>6. a.lightRun <= r.bit * BitTicks + r.samp + 1
  <2> HIDE DEF a
  <2> QED BY <1>3, <1>4, <1>5
<1> QED BY <1>2, <1>6

LEMMA NextBitOK ==
    ASSUME front \in Fronts, NEW r \in RxRecord, r.on, r.bit # StopBit, r.samp + 1 = BitTicks,
           r.lightRun <= r.bit * BitTicks + r.samp + 1
    PROVE  NextBit(r) \in RxRecord /\ RunBounded(NextBit(r))
<1>1. r.bit + 1 \in 0 .. StopBit /\ 0 \in 0 .. BitTicks - 1
  <2>1. r.bit \in 0 .. StopBit
    BY DEF RxRecord
  <2> QED BY <2>1, Board
<1>2. NextBit(r) \in RxRecord
  BY <1>1 DEF NextBit, RxRecord
<1>3. /\ NextBit(r).on /\ NextBit(r).bit = r.bit + 1 /\ NextBit(r).samp = 0
      /\ NextBit(r).lightRun = r.lightRun
  BY DEF NextBit, RxRecord
<1>4. (r.bit + 1) * BitTicks = r.bit * BitTicks + BitTicks
  BY Board DEF RxRecord
<1>5. r.bit * BitTicks \in Nat /\ r.samp \in Nat /\ r.lightRun \in Nat /\ BitTicks \in Nat
  BY Board DEF RxRecord
<1>6. r.lightRun <= (r.bit + 1) * BitTicks + 0
  BY <1>4, <1>5
<1> QED BY <1>2, <1>3, <1>6 DEF RunBounded

LEMMA FinalizeOK ==
    ASSUME front \in Fronts, NEW r \in RxRecord, r.on, r.samp + 1 = BitTicks,
           r.lightRun <= r.bit * BitTicks + r.samp + 1, 
           NEW e \in [hi : Levels, lo : Levels], FinalizeBit(r, e)
    PROVE  rx' \in RxRecord /\ RunBounded(rx') /\ (Received(r.data) \/ Dropped)
<1>1. 0 \in 0 .. ArmSamples
  BY Board DEF ArmSamples
<1>2. IsOne(r, e) \in BOOLEAN /\ Esp32 \in BOOLEAN
  <2>1. 0 \in Counts
    BY Board DEF Counts
  <2> QED BY <2>1, VerdictOK
<1>3. CASE AtStop(r)
  <2>1. rx' = Idle(IsOne(r, e) \/ Esp32, 0) /\ (Received(r.data) \/ Dropped)
    BY <1>3 DEF FinalizeBit, FinalizeFrame
  <2> QED BY <1>1, <1>2, <2>1, IdleOK
<1>4. CASE ~AtStop(r)
  <2> DEFINE kept == [r EXCEPT !.data = @ \cup {r.bit}]
  <2>1. Dropped
    BY <1>4 DEF FinalizeBit
  <2>2. \/ rx' = Idle(Esp32, 0)
        \/ r.bit > 0 /\ rx' = NextBit(kept)
        \/ rx' = NextBit(r)
    BY <1>4 DEF FinalizeBit
  <2>3. CASE rx' = Idle(Esp32, 0)
    BY <1>1, <1>2, <2>1, <2>3, IdleOK
  <2>4. CASE r.bit > 0 /\ rx' = NextBit(kept)
    <3>1. r.bit \in Bits
      BY <1>4, <2>4, Board DEF RxRecord, AtStop, StopBit, Bits
    <3>2. /\ kept \in RxRecord /\ kept.on /\ kept.bit = r.bit /\ kept.samp = r.samp
          /\ kept.lightRun = r.lightRun
      BY <3>1 DEF RxRecord
    <3> HIDE DEF kept
    <3>3. NextBit(kept) \in RxRecord /\ RunBounded(NextBit(kept))
      BY <1>4, <3>2, NextBitOK DEF AtStop
    <3> QED BY <2>1, <2>4, <3>3
  <2>5. CASE rx' = NextBit(r)
    BY <1>4, <2>1, <2>5, NextBitOK DEF AtStop
  <2> QED BY <2>2, <2>3, <2>4, <2>5
<1> QED BY <1>3, <1>4

\* One sample of a byte, to its end or not.
LEMMA InByteOK ==
    ASSUME front \in Fronts, NEW r \in RxRecord, r.on, RunBounded(r),
           NEW e \in [hi : Levels, lo : Levels], NEW adc \in Counts,
           NEW lit \in BOOLEAN, InByte(r, e, adc, lit)
    PROVE  rx' \in RxRecord /\ RunBounded(rx') /\ \E b : Received(b) \/ Dropped
<1> DEFINE a == Accumulated(r, e, adc, lit)
<1>1. /\ a \in RxRecord /\ a.on /\ a.samp = r.samp /\ a.bit = r.bit
      /\ a.lightRun <= a.bit * BitTicks + a.samp + 1
  BY AccumulatedOK
<1>2. \/ rx' = Idle(FALSE, 0) /\ Dropped
      \/ a.samp + 1 < BitTicks /\ rx' = [a EXCEPT !.samp = @ + 1] /\ Dropped
      \/ ~(a.samp + 1 < BitTicks) /\ FinalizeBit(a, e)
  BY DEF InByte
<1> HIDE DEF a
<1>3. CASE rx' = Idle(FALSE, 0) /\ Dropped
  <2>1. 0 \in 0 .. ArmSamples
    BY Board DEF ArmSamples
  <2> QED BY <1>3, <2>1, IdleOK
<1>4. CASE a.samp + 1 < BitTicks /\ rx' = [a EXCEPT !.samp = @ + 1] /\ Dropped
  <2>1. a.samp + 1 \in 0 .. BitTicks - 1
    BY <1>1, <1>4, Board DEF RxRecord
  <2>2. /\ rx' \in RxRecord /\ rx'.on /\ rx'.samp = a.samp + 1 /\ rx'.bit = a.bit
        /\ rx'.lightRun = a.lightRun
    BY <1>1, <1>4, <2>1 DEF RxRecord
  <2>3. a.bit * BitTicks \in Nat /\ a.samp \in Nat /\ a.lightRun \in Nat
    BY <1>1, Board DEF RxRecord
  <2>4. rx'.lightRun <= rx'.bit * BitTicks + rx'.samp
    BY <1>1, <2>2, <2>3
  <2> QED BY <1>4, <2>2, <2>4 DEF RunBounded
<1>5. CASE ~(a.samp + 1 < BitTicks) /\ FinalizeBit(a, e)
  <2>1. a.samp + 1 = BitTicks
    BY <1>1, <1>5, Board DEF RxRecord
  <2> QED BY <1>1, <1>5, <2>1, FinalizeOK
<1> QED BY <1>2, <1>3, <1>4, <1>5

-----------------------------------------------------------------------------
(* The invariant                                                           *)

LEMMA SeedOK ==
    ASSUME front \in Fronts, front.dark \in Counts
    PROVE  Seed \in [hi : Levels, lo : Levels] /\ Seed.lo <= Seed.hi /\ SeedLow \in 0 .. front.dark
<1>1. front.dark \in Nat
  BY Board DEF Counts
<1>2. SeedLow \in 0 .. front.dark
  BY <1>1, Board DEF SeedLow
<1>3. front.dark * Scale \in Levels /\ SeedLow * Scale \in Levels /\ SeedLow * Scale <= front.dark * Scale
  <2>1. CASE Scale = 1 BY <1>1, <1>2, <2>1, Board DEF Levels, Counts
  <2>2. CASE Scale = 64 BY <1>1, <1>2, <2>2, Board DEF Levels, Counts
  <2> QED BY <2>1, <2>2, Board
<1> QED BY <1>2, <1>3 DEF Seed

LEMMA InitOK == Init => IInv
<1> SUFFICES ASSUME Init PROVE IInv
  OBVIOUS
<1>1. front \in Fronts /\ ambient = 0 /\ rx = Idle(TRUE, ArmSamples)
  BY DEF Init, LineInit
<1>2. ambient \in front.ambients /\ stray \in Nat /\ MaxChars \in Nat
  BY <1>1, AnalogAssumption DEF Init
<1>3. front.dark \in Counts /\ front.dark \in Nat
  BY <1>1, AnalogAssumption DEF Counts
<1>4. /\ sender \in SenderRecord /\ quiet \in 0 .. QuietTicks /\ owed \in Seq(SUBSET Bits)
      /\ wrong \in BOOLEAN /\ sent \in 0 .. MaxChars /\ due \in BOOLEAN /\ line \in BOOLEAN
  <2>1. Silence \in SenderRecord
    BY DEF Silence, SenderRecord
  <2>2. <<>> \in Seq(SUBSET Bits)
    OBVIOUS
  <2>3. QuietTicks \in 0 .. QuietTicks /\ 0 \in 0 .. MaxChars
    BY <1>1, <1>2, Board
  <2> QED BY <2>1, <2>2, <2>3 DEF Init, LineInit
<1>5. rx \in RxRecord /\ RunBounded(rx)
  <2>1. ArmSamples \in 0 .. ArmSamples
    BY <1>1, Board DEF ArmSamples
  <2> QED BY <1>1, <2>1, IdleOK
<1>6. Seed \in [hi : Levels, lo : Levels] /\ Seed.lo <= Seed.hi
  BY <1>1, <1>3, SeedOK
<1>7. env \in [hi : Levels, lo : Levels] /\ (~Esp32 => env.lo <= env.hi)
  BY <1>1, <1>3, <1>6, SlicerOK DEF Init
<1> QED BY <1>1, <1>2, <1>4, <1>5, <1>7 DEF IInv

\* The line's part of a tick.
LEMMA TickOK == IInv /\ NextTick => IInv'
<1> SUFFICES ASSUME IInv, NextTick PROVE IInv'
  OBVIOUS
<1>1. front' = front /\ UNCHANGED <<wrong, env, line, rx>> /\ due' \in BOOLEAN
  BY DEF NextTick
<1>2. /\ Counts' = Counts /\ Levels' = Levels /\ Esp32' = Esp32 /\ RxRecord' = RxRecord
      /\ RunBounded(rx)' = RunBounded(rx) /\ SenderRecord' = SenderRecord
  BY <1>1 DEF Counts, Levels, Esp32, Scale, RxRecord, RunBounded, SenderRecord
<1>3. /\ sender' \in SenderRecord /\ quiet' \in 0 .. QuietTicks /\ owed' \in Seq(SUBSET Bits)
      /\ sent' \in 0 .. MaxChars /\ stray' \in Nat /\ ambient' \in front.ambients
  <2>1. QuietTicks \in Nat /\ MaxChars \in Nat
    BY Board, AnalogAssumption DEF IInv
  <2>2. CASE Begins
    <3>1. sender' \in SenderRecord /\ sender'.data \in SUBSET Bits
      <4>1. sender' \in Characters
        BY <2>2 DEF Begins, SenderStarts
      <4>2. {TRUE} \subseteq BOOLEAN /\ {0} \subseteq Nat
        OBVIOUS
      <4> QED BY <4>1, <4>2 DEF Characters, SenderRecord
    <3>2. owed' = Append(owed, sender'.data) /\ quiet' = 0
      BY <2>2 DEF Begins, SenderStarts
    <3>3. owed' \in Seq(SUBSET Bits)
      <4> DEFINE S == SUBSET Bits
                 d == sender'.data
      <4>1. owed \in Seq(S) /\ d \in S => Append(owed, d) \in Seq(S)
        <5> HIDE DEF S, d
        <5> QED OBVIOUS
      <4> QED BY <3>1, <3>2, <4>1 DEF IInv
    <3>4. sent' \in 0 .. MaxChars /\ stray' \in Nat /\ ambient' \in front.ambients
      BY <2>1, <2>2 DEF Begins, IInv
    <3> QED BY <2>1, <3>1, <3>2, <3>3, <3>4
  <2>3. CASE Ends
    <3>1. sender' \in SenderRecord
      BY <2>3 DEF Ends, SenderStops, Silence, SenderRecord
    <3> QED BY <2>1, <2>3, <3>1 DEF Ends, SenderStops, IInv
  <2>4. CASE GoesOn
    <3>1. sender' \in SenderRecord
      BY <2>4 DEF GoesOn, SenderGoesOn, SenderRecord, IInv
    <3> QED BY <2>4, <3>1 DEF GoesOn, SenderGoesOn, IInv
  <2>5. CASE StrayLight
    BY <2>1, <2>5 DEF StrayLight, IInv
  <2> QED BY <2>2, <2>3, <2>4, <2>5 DEF NextTick
<1> QED BY <1>1, <1>2, <1>3 DEF IInv

\* A sample through slicer and state machine.
LEMMA SampleOK == IInv /\ ProcessSample => IInv'
<1> SUFFICES ASSUME IInv, ProcessSample PROVE IInv'
  OBVIOUS
<1>1. front' = front /\ UNCHANGED <<sender, quiet, sent, stray, ambient>> /\ due' \in BOOLEAN
  BY DEF ProcessSample, airVars
<1>2. /\ Counts' = Counts /\ Levels' = Levels /\ Esp32' = Esp32 /\ RxRecord' = RxRecord
      /\ RunBounded(rx)' = RunBounded(rx') /\ SenderRecord' = SenderRecord
  BY <1>1 DEF Counts, Levels, Esp32, Scale, RxRecord, RunBounded, SenderRecord
<1>3. Sample \in Counts
  BY SampleInRange DEF IInv
<1>4. env' \in [hi : Levels, lo : Levels] /\ (~Esp32 => env'.lo <= env'.hi)
  BY <1>3, SlicerOK DEF IInv, ProcessSample
<1>5. line' \in BOOLEAN
  <2> DEFINE l == IsLight(env', Sample)
  <2>1. l \in BOOLEAN
    BY Zenon DEF IsLight
  <2> QED BY <2>1 DEF ProcessSample
<1>6. rx' \in RxRecord /\ RunBounded(rx') /\ \E b : Received(b) \/ Dropped
  <2>1. CASE IdleDark(env', Sample)
    <3> DEFINE n == IF rx.run < ArmSamples THEN rx.run + 1 ELSE ArmSamples
               armed == rx.armed \/ n >= ArmSamples
    <3>1. n \in 0 .. ArmSamples /\ armed \in BOOLEAN
      <4>1. rx.run \in 0 .. ArmSamples /\ ArmSamples \in Nat
        BY Board DEF IInv, RxRecord, ArmSamples
      <4>2. armed \in BOOLEAN
        BY Zenon
      <4> QED BY <4>1, <4>2
    <3>2. rx' = Idle(armed, n) /\ Dropped
      BY <2>1 DEF IdleDark
    <3> HIDE DEF n, armed
    <3> QED BY <3>1, <3>2, IdleOK DEF IInv
  <2>2. CASE IdleUnsettled(env', Sample)
    <3>1. 0 \in 0 .. ArmSamples
      BY Board DEF IInv, ArmSamples
    <3> QED BY <2>2, <3>1, IdleOK DEF IdleUnsettled, IInv
  <2>3. CASE BeginByte(env', Sample, line')
    BY <1>3, <1>4, <1>5, <2>3, BeginOK, InByteOK DEF BeginByte, IInv
  <2>4. CASE rx.on /\ InByte(rx, env', Sample, line')
    BY <1>3, <1>4, <1>5, <2>4, InByteOK DEF IInv
  <2> QED BY <2>1, <2>2, <2>3, <2>4 DEF ProcessSample
<1>7. owed' \in Seq(SUBSET Bits) /\ wrong' \in BOOLEAN
  BY <1>6, AccountOK DEF IInv
<1> QED BY <1>1, <1>2, <1>4, <1>5, <1>6, <1>7 DEF IInv

LEMMA Invariance == Spec => []IInv
<1>1. IInv /\ [Next]_vars => IInv'
  <2> SUFFICES ASSUME IInv, [Next]_vars PROVE IInv'
    OBVIOUS
  <2>1. CASE UNCHANGED vars
    BY <2>1 DEF vars, lineVars, airVars, IInv, Counts, Levels, Esp32, Scale, RxRecord, RunBounded, SenderRecord
  <2> QED BY <2>1, TickOK, SampleOK DEF Next
<1> QED BY <1>1, InitOK, PTL DEF Spec

\* The envelopes, thresholds and counters of the analog receiver stay in range, and
\* a run of light samples is never longer than the ten bits of a byte: the saturation
\* guard, at fifteen bits, cannot fire.
THEOREM TypeCorrect == Spec => []TypeOK
<1>1. IInv => TypeOK
  <2> SUFFICES ASSUME IInv PROVE TypeOK
    OBVIOUS
  <2>1. LineTypeOK
    BY DEF IInv, LineTypeOK, SenderRecord
  <2>2. {env.hi, env.lo} \subseteq 0 .. AdcMax[front.board] * Scale
    BY DEF IInv, Levels
  <2>3. /\ rx.samp \in 0 .. BitTicks - 1 /\ rx.bit \in 0 .. StopBit /\ rx.data \subseteq Bits
        /\ {rx.on, rx.armed, rx.pulse} \subseteq BOOLEAN /\ rx.run \in 0 .. ArmSamples
        /\ {rx.lvl, rx.lmin, rx.dmax} \subseteq Counts
    BY DEF IInv, RxRecord
  <2>4. rx.lightRun \in 0 .. EndBit * BitTicks
    <3>1. rx.lightRun \in Nat /\ rx.bit \in 0 .. StopBit /\ rx.samp \in 0 .. BitTicks - 1
      BY DEF IInv, RxRecord
    <3>2. BitTicks \in Nat \ {0} /\ StopBit \in Nat /\ EndBit = StopBit + 1
      BY Board, LineAssumption DEF IInv, StopBit, EndBit
    <3>3. rx.bit * BitTicks <= StopBit * BitTicks /\ EndBit * BitTicks = StopBit * BitTicks + BitTicks
      BY <3>1, <3>2
    <3>4. rx.bit * BitTicks \in Nat /\ StopBit * BitTicks \in Nat
      BY <3>1, <3>2
    <3>5. rx.lightRun <= rx.bit * BitTicks + rx.samp \/ rx.lightRun = 0
      BY DEF IInv, RunBounded
    <3> QED BY <3>1, <3>2, <3>3, <3>4, <3>5
  <2> QED BY <2>1, <2>2, <2>3, <2>4 DEF IInv, TypeOK
<1> QED BY <1>1, Invariance, PTL

\* Whatever the light does, the slicer's envelopes never cross (a_track_env).
THEOREM EnvelopesNeverCross == Spec => []NeverCrossed
<1>1. IInv => NeverCrossed
  <2> SUFFICES ASSUME IInv, ~Esp32 PROVE ~Crossed(Track(env, Sample))
    BY DEF NeverCrossed
  <2>1. Sample \in Counts
    BY SampleInRange DEF IInv
  <2>2. Track(env, Sample) \in [hi : Levels, lo : Levels] /\ Track(env, Sample).lo <= Track(env, Sample).hi
    BY <2>1, TrackOK DEF IInv
  <2> QED BY <2>2, Board DEF Crossed, Levels, IInv
<1> QED BY <1>1, Invariance, PTL

-----------------------------------------------------------------------------
(* The margins of clean light, and what every state is within them         *)

\* The envelopes of front f: what lies between its levels, what the dark one loses
\* at a sample between two bytes and at one of a byte, what it loses over a byte, and
\* how far below the dark level it may be when a byte begins.
ScaleOf(f) == IF f.board = "esp32c3" THEN 1 ELSE 64
Swing(f) == (f.dark - f.light) * ScaleOf(f)
IdleCost(f) == Swing(f) \div (IF f.board = "esp32c3" THEN 32 ELSE 128) + 1
ByteCost(f) == IF f.board = "esp32c3" THEN 0 ELSE Swing(f) \div 2048 + 1
ByteTicks == EndBit * BitTicks
FrameCost(f) == 2 * IdleCost(f) + ByteTicks * ByteCost(f)
RestLag(f) == 2 * FrameCost(f) + 3 * ByteCost(f) + 3

\* Light of one brightness from a sender that keeps its time, too weak for the
\* squelch or stronger than that by what the dark envelope may lose.
TooWeak(f) == f.dark - f.light < Squelch[f.board]
StrongEnough(f) == Swing(f) >= RestLag(f) + FrameCost(f) + (Squelch[f.board] + 1) * ScaleOf(f)

Margins ==
    /\ Drifts \subseteq {0} /\ BitTicks >= 4 /\ Pulse >= 2 /\ EndBit <= SatBits
    /\ front.ambients = {0} /\ front.strays = {0} /\ front.gaps \subseteq Nat
    /\ front.light <= front.dark /\ (TooWeak(front) \/ StrongEnough(front))

\* How far the dark envelope is below the dark level.
Lag(e) == front.dark * Scale - e.hi
WithinLevels(e) == e.lo >= front.light * Scale /\ e.lo <= front.dark * Scale /\ e.hi <= front.dark * Scale
Begun == RestLag(front) + 2 * IdleCost(front)
Worst == RestLag(front) + FrameCost(front)

\* How many samples of its byte the receiver has taken.
Age(r) == r.bit * BitTicks + r.samp

\* The bits of a byte d that are light.
ZerosOf(d) == {0} \cup (Bits \ d)

\* In a byte the dark envelope falls, until two dark samples of the stop bit.
LagInByte(r, x) ==
    IF r.bit = StopBit /\ r.samp >= 3 THEN 16 * x <= 9 * Worst + 21
    ELSE IF r.bit = StopBit /\ r.samp = 2 THEN 4 * x <= 3 * Worst + 3
    ELSE x <= Begun + Age(r) * ByteCost(front)

\* What the receiver has of the current bit: the level of NRZ, or the pulse.
BitSoFar(r, d, a) ==
    IF Nrz THEN r.samp > SamplePoint =>
                  IF Esp32 THEN r.pulse <=> r.bit \in ZerosOf(d)
                  ELSE r.lvl = IF r.bit \in ZerosOf(d) THEN front.light ELSE front.dark
    ELSE /\ r.pulse => r.bit \in ZerosOf(d)
         /\ r.samp + a >= 2 /\ r.bit \in ZerosOf(d) => r.pulse

\* The contrast it has seen: the light level in the start bit, the dark one in the stop bit.
ContrastSoFar(r, a) ==
    /\ r.bit > 0 \/ r.samp + a >= 2 => r.lmin <= front.light
    /\ r.bit = StopBit /\ r.samp + a >= 2 => r.dmax >= front.dark

\* Byte d, begun a samples after its start edge.
ByteOf(r, d, a) ==
    /\ r.on /\ a \in {0, 1} /\ (a = 1 => front.lag > 0)
    /\ r.data = {k \in d : k < r.bit}
    /\ BitSoFar(r, d, a) /\ ContrastSoFar(r, a)

Now == IF due THEN 0 ELSE 1

\* Between two bytes ...
Rests ==
    /\ ~rx.on /\ rx.armed /\ owed = <<>> /\ Lag(env) <= RestLag(front)
    /\ sender.on => sender.phase + Now >= ByteTicks
\* ... the first sample of one is due ...
FirstSample ==
    /\ due /\ ~rx.on /\ rx.armed /\ Lag(env) <= RestLag(front)
    /\ sender.on /\ owed = <<sender.data>> /\ sender.phase = 0
\* ... and was on a slow edge, so that the next one begins it.
SlowEdge ==
    /\ front.lag > 0 /\ ~rx.on /\ rx.armed /\ Lag(env) <= RestLag(front) + IdleCost(front)
    /\ sender.on /\ owed = <<sender.data>> /\ sender.phase + Now = 1

Reads(a) ==
    /\ ByteOf(rx, sender.data, a) /\ LagInByte(rx, Lag(env))
    /\ sender.on /\ owed = <<sender.data>> /\ sender.phase + Now = Age(rx) + a
    /\ Age(rx) >= 1
\* The last sample of a byte that began late falls into what comes after it.
LastFalls ==
    /\ due /\ owed # <<>> /\ ByteOf(rx, Head(owed), 1) /\ LagInByte(rx, Lag(env))
    /\ Age(rx) = ByteTicks - 1 /\ sender.phase = 0
    /\ owed = IF sender.on THEN <<Head(owed), sender.data>> ELSE <<Head(owed)>>

StrongInv ==
    /\ WithinLevels(env)
    /\ Rests \/ FirstSample \/ SlowEdge \/ Reads(0) \/ Reads(1) \/ LastFalls

WeakInv == ~rx.on /\ Len(owed) = sent /\ env.hi <= front.dark * Scale

\* The line is quiet for more than a tick only when nothing is on the air.
LineInv ==
    /\ stray = 0 /\ ambient = 0 /\ ~wrong
    /\ sender.on => quiet = 0 /\ sender.phase <= LastPhase(sender)
    /\ ~sender.on => sender = Silence
    /\ quiet > 1 => ~LastFalls

CleanInv == LineInv /\ IF TooWeak(front) THEN WeakInv ELSE StrongInv

-----------------------------------------------------------------------------
(* The levels in the margins                                               *)

\* What the margins make of a front's numbers.
LEMMA FrontNumbers ==
    ASSUME Margins, front \in Fronts
    PROVE  /\ front.dark \in Nat /\ front.light \in Nat /\ front.light <= front.dark
           /\ front.dark \in Counts /\ front.light \in Counts
           /\ Scale = ScaleOf(front) /\ MinContrast = Squelch[front.board]
           /\ MinContrast \in Nat /\ MinContrast >= 15
           /\ front.lag \in 0 .. 2 /\ front.gaps \subseteq Nat
<1>1. 0 \in front.ambients /\ front.light <= front.dark /\ front.gaps \subseteq Nat
  BY DEF Margins
<1>2. {front.dark + 0, front.light + 0} \subseteq 0 .. AdcMax[front.board] /\ {front.dark, front.light} \subseteq Int
  BY <1>1, AnalogAssumption
<1>3. front.dark \in 0 .. AdcMax[front.board] /\ front.light \in 0 .. AdcMax[front.board] /\ front.lag \in 0 .. 2
  BY <1>2, AnalogAssumption
<1>4. front.board \in {"samd21", "uno", "esp32c3"}
  BY LineAssumption
<1>5. MinContrast \in Nat /\ MinContrast >= 15
  <2>1. CASE front.board = "samd21" BY <2>1 DEF MinContrast, Squelch
  <2>2. CASE front.board = "uno" BY <2>2 DEF MinContrast, Squelch
  <2>3. CASE front.board = "esp32c3" BY <2>3 DEF MinContrast, Squelch
  <2> QED BY <1>4, <2>1, <2>2, <2>3
<1>6. Scale = ScaleOf(front) /\ MinContrast = Squelch[front.board]
  BY DEF Scale, ScaleOf, Esp32, MinContrast
<1>7. front.dark \in Nat /\ front.light \in Nat
  BY <1>3, Board
<1> QED BY <1>1, <1>3, <1>5, <1>6, <1>7 DEF Counts

\* The costs are counts; those of a byte add up to no more than a frame's.
LEMMA Costs ==
    ASSUME Margins, front \in Fronts
    PROVE  /\ Swing(front) \in Nat /\ Swing(front) = front.dark * Scale - front.light * Scale
           /\ front.dark * Scale \in Nat /\ front.light * Scale \in Nat
           /\ IdleCost(front) \in Nat /\ ByteCost(front) \in Nat /\ FrameCost(front) \in Nat
           /\ ByteTicks \in Nat /\ ByteTicks * ByteCost(front) \in Nat
           /\ FrameCost(front) = 2 * IdleCost(front) + ByteTicks * ByteCost(front)
           /\ RestLag(front) = 2 * FrameCost(front) + 3 * ByteCost(front) + 3
           /\ Worst = RestLag(front) + FrameCost(front)
           /\ Begun = RestLag(front) + 2 * IdleCost(front)
           /\ RestLag(front) \in Nat /\ Worst \in Nat /\ Begun \in Nat
<1>1. PICK f \in Fronts : f = front
  OBVIOUS
<1>2. front.dark \in Nat /\ front.light \in Nat /\ front.light <= front.dark /\ Scale = ScaleOf(front)
  BY FrontNumbers
<1>3. Scale \in {1, 64}
  BY Board
<1>4. Swing(front) \in Nat /\ Swing(front) = front.dark * Scale - front.light * Scale
      /\ front.dark * Scale \in Nat /\ front.light * Scale \in Nat
  <2>1. CASE Scale = 1 BY <1>2, <2>1 DEF Swing
  <2>2. CASE Scale = 64 BY <1>2, <2>2 DEF Swing
  <2> QED BY <1>3, <2>1, <2>2
<1>5. PICK w \in Nat : w = Swing(front)
  BY <1>4
<1>6. w \div 32 \in Nat /\ w \div 128 \in Nat /\ w \div 2048 \in Nat
  OBVIOUS
<1>7. IdleCost(front) \in Nat
  BY <1>5, <1>6 DEF IdleCost
<1>8. ByteCost(front) \in Nat
  BY <1>5, <1>6 DEF ByteCost
<1>9. ByteTicks \in Nat
  BY Board DEF ByteTicks, StopBit, EndBit
<1>10. PICK i, b, n \in Nat : i = IdleCost(front) /\ b = ByteCost(front) /\ n = ByteTicks
  BY <1>7, <1>8, <1>9
<1>11. n * b \in Nat
  OBVIOUS
<1>12. FrameCost(front) = 2 * i + n * b
  BY <1>10 DEF FrameCost
<1>13. RestLag(front) = 2 * FrameCost(front) + 3 * b + 3
  BY <1>10 DEF RestLag
<1>14. FrameCost(front) \in Nat /\ RestLag(front) \in Nat
  BY <1>11, <1>12, <1>13
<1>15. Worst = RestLag(front) + FrameCost(front) /\ Begun = RestLag(front) + 2 * i
  BY <1>10 DEF Worst, Begun
<1> QED BY <1>4, <1>7, <1>8, <1>9, <1>10, <1>11, <1>12, <1>13, <1>14, <1>15

\* Every sample is between the levels.
LEMMA BetweenLevels ==
    ASSUME NEW old \in Int, NEW new \in Int, NEW low \in Int, NEW top \in Int,
           low <= old, old <= top, low <= new, new <= top, NEW lag \in 0 .. 2
    PROVE  /\ new + (lag * (old - new)) \div 2 \in low .. top
           /\ old = new => new + (lag * (old - new)) \div 2 = new
           /\ lag = 0 => new + (lag * (old - new)) \div 2 = new
<1>1. CASE lag = 0 BY <1>1
<1>2. CASE lag = 1 BY <1>2
<1>3. CASE lag = 2 BY <1>3
<1> QED BY <1>1, <1>2, <1>3

LEMMA SampleLevels ==
    ASSUME Margins, front \in Fronts, ambient = 0
    PROVE  /\ Sample \in Counts /\ Sample \in Int /\ front.light <= Sample /\ Sample <= front.dark
           /\ Bright /\ WasBright => Sample = front.light
           /\ ~Bright /\ ~WasBright => Sample = front.dark
           /\ front.lag = 0 => Sample = IF Bright THEN front.light ELSE front.dark
<1>1. /\ front.dark \in Nat /\ front.light \in Nat /\ front.light <= front.dark
      /\ front.lag \in 0 .. 2
  BY FrontNumbers
<1>2. PICK d, l \in Int, lag \in 0 .. 2 : d = front.dark /\ l = front.light /\ lag = front.lag
  BY <1>1
<1>3. \A lit \in BOOLEAN : Level(lit) = IF lit THEN l ELSE d
  BY <1>2 DEF Level
<1>4. Bright \in BOOLEAN /\ WasBright \in BOOLEAN
  BY Zenon DEF Bright, WasBright
<1>5. PICK new, old \in Int : /\ new = Level(Bright) /\ old = Level(WasBright)
                             /\ new = (IF Bright THEN l ELSE d) /\ old = IF WasBright THEN l ELSE d
  BY <1>3, <1>4
<1>6. Sample = new + (lag * (old - new)) \div 2
  BY <1>2, <1>5 DEF Sample
<1>7. l <= new /\ new <= d /\ l <= old /\ old <= d
  BY <1>1, <1>2, <1>5
<1>8. /\ Sample \in l .. d /\ (old = new => Sample = new) /\ (lag = 0 => Sample = new)
  BY <1>6, <1>7, BetweenLevels
<1>9. ambient \in front.ambients
  BY DEF Margins
<1>10. Sample \in Counts
  BY <1>9, SampleInRange
<1>11. Sample \in Int /\ l <= Sample /\ Sample <= d
  BY <1>8
<1> QED BY <1>2, <1>5, <1>8, <1>10, <1>11

\* A scaled count keeps its order.
LEMMA ScaledOrder ==
    ASSUME front \in Fronts, NEW x \in Int, NEW y \in Int, x <= y
    PROVE  x * Scale \in Int /\ y * Scale \in Int /\ x * Scale <= y * Scale
<1>1. CASE Scale = 1 BY <1>1
<1>2. CASE Scale = 64 BY <1>2
<1> QED BY <1>1, <1>2, Board

\* A tracked rail: a sample between the levels lowers the dark envelope by no more
\* than the cost, and one of the dark level brings it nearer by a quarter.
TrackMove(hi, s, top, low, w, c128, c2048) ==
    /\ High(hi, s) \in Int /\ High(hi, s) <= top
    /\ rx.on => top - High(hi, s) <= top - hi + c2048
    /\ ~rx.on => top - High(hi, s) <= top - hi + c128
    /\ s = top => 4 * (top - High(hi, s)) <= 3 * (top - hi) + 3 /\ High(hi, s) >= hi

LEMMA TrackMoves ==
    ASSUME NEW hi \in Int, NEW s \in Int, NEW top \in Int, NEW low \in Int, NEW w \in Int,
           NEW c128 \in Int, NEW c2048 \in Int,
           hi <= top, low <= s, s <= top, w = top - low, low <= hi,
           w <= 128 * c128, w <= 2048 * c2048
    PROVE  TrackMove(hi, s, top, low, w, c128, c2048)
<1> USE DEF TrackMove
<1>1. CASE s > hi
  <2>1. High(hi, s) = hi + (s - hi) \div 4
    BY <1>1 DEF High, Attack
  <2>2. (s - hi) \div 4 >= 0 /\ (s - hi) \div 4 <= s - hi /\ 4 * ((s - hi) \div 4) + 3 >= s - hi
    BY <1>1
  <2>3. c128 >= 0 /\ c2048 >= 0
    OBVIOUS
  <2> QED BY <2>1, <2>2, <2>3
<1>2. CASE ~(s > hi)
  <2>1. s - hi <= 0 /\ s - hi >= -w
    BY <1>2
  <2>2. CASE rx.on
    <3>1. High(hi, s) = hi + (s - hi) \div 2048
      BY <1>2, <2>2 DEF High, Decay
    <3>2. (s - hi) \div 2048 <= 0 /\ (s - hi) \div 2048 >= -c2048
      BY <2>1
    <3>3. s = top => (s - hi) \div 2048 = 0
      BY <1>2
    <3> QED BY <1>2, <2>2, <3>1, <3>2, <3>3
  <2>3. CASE ~rx.on
    <3>1. High(hi, s) = hi + (s - hi) \div 128
      BY <1>2, <2>3 DEF High, Decay
    <3>2. (s - hi) \div 128 <= 0 /\ (s - hi) \div 128 >= -c128
      BY <2>1
    <3>3. s = top => (s - hi) \div 128 = 0
      BY <1>2
    <3> QED BY <1>2, <2>3, <3>1, <3>2, <3>3
  <2> QED BY <2>2, <2>3
<1> QED BY <1>1, <1>2

\* The same for the ESP32's: a pulse between two bytes leaves its dark envelope.
EspMove(hi, lo, s, top, low, c32) ==
    /\ (127 * lo + s) \div 128 \in low .. top /\ (2047 * lo + s) \div 2048 \in low .. top
    /\ (31 * hi + s) \div 32 \in Int /\ (31 * hi + s) \div 32 <= top
    /\ top - (31 * hi + s) \div 32 <= top - hi + c32
    /\ (s = top => (31 * hi + s) \div 32 >= hi)
    /\ (3 * hi + s) \div 4 \in Int /\ (3 * hi + s) \div 4 <= top
    /\ (s > hi => (3 * hi + s) \div 4 >= hi)
    /\ (s = top => 4 * (top - (3 * hi + s) \div 4) <= 3 * (top - hi) + 3)
    /\ c32 >= 0

LEMMA EspMoves ==
    ASSUME NEW hi \in Int, NEW lo \in Int, NEW s \in Int, NEW top \in Int, NEW low \in Int,
           NEW w \in Int, NEW c32 \in Int,
           hi <= top, low <= s, s <= top, w = top - low, low <= hi, low <= lo, lo <= top,
           c32 = w \div 32 + 1
    PROVE  EspMove(hi, lo, s, top, low, c32)
<1> USE DEF EspMove
<1>1. (127 * lo + s) \div 128 \in low .. top /\ (2047 * lo + s) \div 2048 \in low .. top
  OBVIOUS
<1>2. /\ (31 * hi + s) \div 32 \in Int /\ (31 * hi + s) \div 32 <= top
      /\ (s = top => (31 * hi + s) \div 32 >= hi)
  OBVIOUS
<1>3. top - (31 * hi + s) \div 32 <= top - hi + c32 /\ c32 >= 0
  OBVIOUS
<1>4. /\ (3 * hi + s) \div 4 \in Int /\ (3 * hi + s) \div 4 <= top
      /\ (s > hi => (3 * hi + s) \div 4 >= hi)
      /\ (s = top => 4 * (top - (3 * hi + s) \div 4) <= 3 * (top - hi) + 3)
  OBVIOUS
<1> QED BY <1>1, <1>2, <1>3, <1>4

\* What one sample makes of envelopes within the levels.
LEMMA SlicerMoves ==
    ASSUME Margins, front \in Fronts, NEW e \in [hi : Levels, lo : Levels], WithinLevels(e),
           NEW adc \in Int, front.light <= adc, adc <= front.dark, adc \in Counts,
           e.hi >= front.light * Scale, ~Esp32 => e.lo <= e.hi
    PROVE  LET x == Slicer(e, adc) IN
           /\ WithinLevels(x) /\ Lag(x) \in Nat
           /\ rx.on => Lag(x) <= Lag(e) + ByteCost(front)
           /\ ~rx.on => Lag(x) <= Lag(e) + IdleCost(front)
           /\ adc = front.dark => /\ Lag(x) <= Lag(e)
                                  /\ rx.on => 4 * Lag(x) <= 3 * Lag(e) + 3
<1> DEFINE x == Slicer(e, adc)
<1> SUFFICES /\ WithinLevels(x) /\ Lag(x) \in Nat
             /\ rx.on => Lag(x) <= Lag(e) + ByteCost(front)
             /\ ~rx.on => Lag(x) <= Lag(e) + IdleCost(front)
             /\ adc = front.dark => /\ Lag(x) <= Lag(e)
                                    /\ rx.on => 4 * Lag(x) <= 3 * Lag(e) + 3
  OBVIOUS
<1>1. /\ front.dark \in Nat /\ front.light \in Nat /\ front.light <= front.dark
      /\ Scale = ScaleOf(front) /\ MinContrast \in Nat
  BY FrontNumbers
<1>20. /\ front.dark * Scale \in Int /\ front.light * Scale \in Int
       /\ Swing(front) = front.dark * Scale - front.light * Scale
  BY Costs
<1>21. adc * Scale \in Int
  BY ScaledOrder
<1>22. PICK top, low, s \in Int : top = front.dark * Scale /\ low = front.light * Scale /\ s = adc * Scale
  BY <1>20, <1>21
<1>2. PICK w \in Int : w = Swing(front) /\ w = top - low
  BY <1>20, <1>22
<1>3. low <= s /\ s <= top /\ (adc = front.dark => s = top)
  BY <1>1, <1>22, ScaledOrder
<1>4. e.hi \in Int /\ e.lo \in Int
  BY Board DEF Levels
<1>5. PICK hi, lo \in Int : hi = e.hi /\ lo = e.lo
  BY <1>4
<1>6. hi <= top /\ low <= hi /\ low <= lo /\ lo <= top /\ Lag(e) = top - hi
  BY <1>22, <1>5 DEF WithinLevels, Lag
<1>7. WithinLevels(x) <=> x.lo >= low /\ x.lo <= top /\ x.hi <= top
  BY <1>22 DEF WithinLevels
<1>8. Lag(x) = top - x.hi
  BY <1>22 DEF Lag
<1>9. CASE ~Esp32
  <2>1. x = Track(e, adc) /\ Track(e, adc) = [hi |-> High(hi, s), lo |-> Low(lo, s)]
    <3>1. Track(e, adc) \in [hi : Levels, lo : Levels] /\ Track(e, adc).lo <= Track(e, adc).hi
      BY <1>9, TrackOK
    <3>2. ~Crossed(Track(e, adc))
      BY <3>1, Board DEF Crossed, Levels
    <3> QED BY <1>22, <1>5, <1>9, <3>2 DEF Slicer, Track
  <2>2. IdleCost(front) = w \div 128 + 1 /\ ByteCost(front) = w \div 2048 + 1
    BY <1>2, <1>9 DEF IdleCost, ByteCost, Esp32
  <2>3. PICK c128, c2048 \in Int : /\ c128 = IdleCost(front) /\ c2048 = ByteCost(front)
                                   /\ c128 = w \div 128 + 1 /\ c2048 = w \div 2048 + 1
    BY <2>2, Costs
  <2>40. TrackMove(hi, s, top, low, w, c128, c2048)
    <3>1. hi <= top /\ low <= s /\ s <= top /\ w = top - low /\ low <= hi
      BY <1>2, <1>3, <1>6
    <3>2. w <= 128 * c128 /\ w <= 2048 * c2048
      BY <2>3
    <3> QED BY <3>1, <3>2, TrackMoves
  <2>4. /\ High(hi, s) \in Int /\ High(hi, s) <= top
        /\ rx.on => top - High(hi, s) <= top - hi + c2048
        /\ ~rx.on => top - High(hi, s) <= top - hi + c128
        /\ s = top => 4 * (top - High(hi, s)) <= 3 * (top - hi) + 3 /\ High(hi, s) >= hi
    BY <2>40 DEF TrackMove
  <2>50. /\ High(lo, s) \in Int /\ Low(lo, s) \in Int
         /\ (s >= lo => lo <= Low(lo, s) /\ Low(lo, s) <= s)
         /\ (s < lo => s <= Low(lo, s) /\ Low(lo, s) <= lo)
    BY Rails
  <2>5. low <= Low(lo, s) /\ Low(lo, s) <= top /\ Low(lo, s) \in Int
    BY <1>3, <1>6, <2>50
  <2>6. PICK nh, nl \in Int : nh = High(hi, s) /\ nl = Low(lo, s)
    BY <2>4, <2>5
  <2>7. x.hi = nh /\ x.lo = nl
    BY <2>1, <2>6
  <2>8. top - nh \in Nat
    BY <2>4, <2>6
  <2> HIDE DEF x
  <2> QED BY <1>3, <1>6, <1>7, <1>8, <2>3, <2>4, <2>5, <2>6, <2>7, <2>8
<1>10. CASE Esp32
  <2>1. Scale = 1 /\ s = adc
    <3>1. Scale = 1
      BY <1>10 DEF Scale
    <3> QED BY <1>22, <3>1
  <2>2. PICK c32, m \in Int : c32 = IdleCost(front) /\ c32 = w \div 32 + 1 /\ ByteCost(front) = 0 /\ m = MinContrast
    BY <1>1, <1>2, <1>10, Costs DEF IdleCost, ByteCost, Esp32
  <2>3. m \in Nat
    BY <1>1, <2>2
  <2>40. EspMove(hi, lo, s, top, low, c32)
    BY <1>2, <1>3, <1>6, <2>2, EspMoves
  <2>4. /\ (127 * lo + s) \div 128 \in low .. top /\ (2047 * lo + s) \div 2048 \in low .. top
        /\ (31 * hi + s) \div 32 \in Int /\ (31 * hi + s) \div 32 <= top
        /\ top - (31 * hi + s) \div 32 <= top - hi + c32
        /\ (s = top => (31 * hi + s) \div 32 >= hi)
        /\ (3 * hi + s) \div 4 \in Int /\ (3 * hi + s) \div 4 <= top
        /\ (s > hi => (3 * hi + s) \div 4 >= hi)
        /\ (s = top => 4 * (top - (3 * hi + s) \div 4) <= 3 * (top - hi) + 3)
        /\ c32 >= 0
    BY <2>40 DEF EspMove
  <2>5. CASE rx.on
    <3>1. x = EspInByte(e, adc)
      BY <1>10, <2>5 DEF Slicer
    <3>2. /\ x.hi = IF s > hi THEN (3 * hi + s) \div 4 ELSE hi
          /\ x.lo = IF s < lo THEN s ELSE (2047 * lo + s) \div 2048
      BY <1>5, <2>1, <3>1 DEF EspInByte
    <3>3. PICK a \in Int, b \in low .. top : a = (3 * hi + s) \div 4 /\ b = (2047 * lo + s) \div 2048
      BY <2>4
    <3> HIDE DEF x
    <3> QED BY <1>3, <1>6, <1>7, <1>8, <2>2, <2>4, <2>5, <3>2, <3>3
  <2>6. CASE ~rx.on
    <3>1. x = EspIdle(e, adc)
      BY <1>10, <2>6 DEF Slicer
    <3>2. \/ s + m >= hi /\ x.hi = (31 * hi + s) \div 32 /\ x.lo = (127 * lo + s) \div 128
          \/ ~(s + m >= hi) /\ x.hi = hi /\ x.lo = s
      BY <1>5, <2>1, <2>2, <3>1 DEF EspIdle
    <3>3. PICK a \in Int, b \in low .. top : a = (31 * hi + s) \div 32 /\ b = (127 * lo + s) \div 128
      BY <2>4
    <3> HIDE DEF x
    <3> QED BY <1>3, <1>6, <1>7, <1>8, <2>2, <2>3, <2>4, <2>6, <3>2, <3>3
  <2> QED BY <2>5, <2>6
<1> QED BY <1>9, <1>10

\* Envelopes that lag no more than the worst case tell the levels apart: the dark one
\* is no pulse, not light and a 1, the light one is a pulse, light and a 0.
LEMMA Verdicts ==
    ASSUME Margins, front \in Fronts, ~TooWeak(front),
           NEW e \in [hi : Levels, lo : Levels], WithinLevels(e), Lag(e) <= Worst, ~Esp32 => e.lo <= e.hi
    PROVE  /\ ~RealPulse(e, front.dark) /\ ~IsLight(e, front.dark) /\ front.dark >= Mid(e)
           /\ RealPulse(e, front.light) /\ IsLight(e, front.light) /\ ~(front.light >= Mid(e))
           /\ front.light < Mid(e) /\ ~(front.dark < Mid(e))
           /\ e.hi >= front.light * Scale /\ Mid(e) \in Int /\ Dark(e) \in Int
<1>1. /\ front.dark \in Nat /\ front.light \in Nat /\ MinContrast \in Nat /\ MinContrast >= 15
      /\ Scale = ScaleOf(front) /\ MinContrast = Squelch[front.board]
  BY FrontNumbers
<1>2. /\ Swing(front) = front.dark * Scale - front.light * Scale /\ Worst \in Nat
      /\ Worst = RestLag(front) + FrameCost(front) /\ RestLag(front) \in Nat /\ FrameCost(front) \in Nat
  BY Costs
<1>3. Swing(front) >= Worst + (MinContrast + 1) * Scale
  <2>1. StrongEnough(front)
    BY DEF Margins
  <2> QED BY <1>1, <1>2, <2>1 DEF StrongEnough
<1>40. e.hi \in Int /\ e.lo \in Int
  BY Board DEF Levels
<1>41. PICK top, low, m \in Int : top = front.dark /\ low = front.light /\ m = MinContrast
  BY <1>1
<1>42. PICK hi, lo, v \in Int : hi = e.hi /\ lo = e.lo /\ v = Worst
  BY <1>2, <1>40
<1>4. top = front.dark /\ low = front.light /\ m = MinContrast /\ hi = e.hi /\ lo = e.lo /\ v = Worst
  BY <1>41, <1>42
<1>5. CASE Scale = 1
  <2>1. /\ lo >= low /\ lo <= top /\ hi <= top /\ top - hi <= v /\ top - low >= v + m + 1
    BY <1>1, <1>2, <1>3, <1>4, <1>5 DEF WithinLevels, Lag
  <2>2. hi >= low + m + 1
    BY <2>1
  <2>3. Dark(e) = hi /\ Mid(e) = (hi + lo) \div 2 /\ Esp32 /\ front.light * Scale = low
    BY <1>4, <1>5 DEF Dark, Mid, Scale
  <2>4. Span(e) = IF hi > lo THEN hi - lo ELSE 0
    BY <1>4, <1>5, <2>3 DEF Span
  <2>50. PICK sp \in Int : sp = Span(e)
    BY <2>4
  <2>51. PICK hy \in Int : hy = (IF sp \div 8 < 8 THEN 8 ELSE sp \div 8)
    OBVIOUS
  <2>52. PICK mid \in Int : mid = (hi + lo) \div 2
    OBVIOUS
  <2>5. /\ sp = Span(e) /\ hy = (IF sp \div 8 < 8 THEN 8 ELSE sp \div 8)
        /\ mid = Mid(e) /\ mid = (hi + lo) \div 2
    BY <2>3, <2>50, <2>51, <2>52
  <2>6. Hysteresis(e) = hy
    BY <2>3, <2>5 DEF Hysteresis, EspHysteresis
  <2>7. Flat(e) <=> sp < m
    BY <1>4, <2>3, <2>5 DEF Flat
  <2>8. \A adc : RealPulse(e, adc) <=> adc < hi - m
    BY <1>4, <2>3 DEF RealPulse
  <2>9. \A adc : IsLight(e, adc) <=> \/ sp < m /\ adc + m < hi
                                     \/ ~(sp < m) /\ adc < mid - hy
                                     \/ ~(sp < m) /\ line /\ adc < mid + hy
    BY <1>4, <2>3, <2>5, <2>6, <2>7 DEF IsLight
  <2>10. m >= 48
    BY <1>4, <1>5 DEF Scale, Esp32, MinContrast, Squelch
  <2>11. ~(sp < m) => top >= mid + hy /\ low < mid - hy /\ hy >= 0
    BY <2>1, <2>2, <2>4, <2>5, <2>10
  <2>12. top >= mid /\ low < mid
    BY <1>1, <1>4, <2>1, <2>2, <2>5
  <2>13. ~(top < hi - m) /\ low < hi - m /\ ~(top + m < hi) /\ low + m < hi
    BY <2>1, <2>2, <2>10
  <2>14. ~IsLight(e, top) /\ IsLight(e, low)
    BY <2>9, <2>11, <2>13
  <2> QED BY <1>4, <2>2, <2>3, <2>5, <2>8, <2>10, <2>12, <2>13, <2>14
<1>6. CASE Scale = 64
  <2>1. /\ lo >= low * 64 /\ lo <= top * 64 /\ hi <= top * 64 /\ top * 64 - hi <= v
        /\ top * 64 - low * 64 >= v + (m + 1) * 64
    BY <1>1, <1>2, <1>3, <1>4, <1>6 DEF WithinLevels, Lag
  <2>2. hi >= (low + m + 1) * 64 /\ hi >= low * 64
    BY <1>1, <1>4, <2>1
  <2>3. ~Esp32 /\ lo <= hi
    BY <1>4, <1>6 DEF Scale
  <2>4. PICK dk, lt \in Int : dk = hi \div 64 /\ lt = lo \div 64
    OBVIOUS
  <2>5. dk >= low + m + 1 /\ dk <= top /\ lt >= low /\ lt <= dk
    BY <2>1, <2>2, <2>3, <2>4
  <2>6. Dark(e) = dk /\ Mid(e) = (dk + lt) \div 2
    BY <1>4, <1>6, <2>4 DEF Dark, Mid
  <2>7. Span(e) = dk - lt
    <3>1. Span(e) = IF dk > lt THEN dk - lt ELSE 0
      BY <1>4, <1>6, <2>4, <2>6 DEF Span
    <3> QED BY <2>5, <3>1
  <2>8. PICK hy, mid \in Int : hy = (dk - lt) \div 4 /\ mid = Mid(e) /\ mid = (dk + lt) \div 2
    BY <2>6
  <2>9. Hysteresis(e) = hy /\ ~Flat(e)
    BY <2>3, <2>7, <2>8 DEF Hysteresis, Flat
  <2>10. \A adc : RealPulse(e, adc) <=> adc < dk - m
    BY <1>4, <2>6 DEF RealPulse
  <2>11. \A adc : IsLight(e, adc) <=> adc < mid - hy \/ (line /\ adc < mid + hy)
    BY <2>8, <2>9 DEF IsLight
  <2>12. m >= 15
    BY <1>1, <1>4
  <2>13. top >= mid + hy /\ low < mid - hy /\ hy >= 0
    BY <2>5, <2>8, <2>12
  <2>14. top >= mid /\ low < mid
    BY <2>13
  <2>15. ~(top < dk - m) /\ low < dk - m
    BY <2>5, <2>12
  <2>16. ~IsLight(e, top) /\ IsLight(e, low)
    BY <2>11, <2>13, <2>14
  <2> QED BY <1>4, <1>6, <2>2, <2>6, <2>8, <2>10, <2>14, <2>15, <2>16
<1> QED BY <1>5, <1>6, Board

-----------------------------------------------------------------------------
(* The light of a character, cell by cell                                  *)

LEMMA BitNumbers ==
    ASSUME Margins
    PROVE  /\ BitTicks \in Nat /\ BitTicks >= 4 /\ DataBits \in Nat \ {0} /\ StopBit = DataBits + 1
           /\ StopBit \in Nat /\ EndBit = StopBit + 1 /\ EndBit <= SatBits
           /\ Pulse \in Nat /\ Pulse >= 2 /\ Pulse <= PulseWindow
           /\ PulseWindow \in Nat /\ 2 * PulseWindow <= BitTicks /\ PulseWindow >= 2
           /\ SamplePoint \in Nat /\ SamplePoint >= 1 /\ SamplePoint + 2 <= BitTicks
           /\ ByteTicks = StopBit * BitTicks + BitTicks /\ StopBit * BitTicks \in Nat
<1>1. BitTicks \in Nat /\ BitTicks >= 4 /\ Pulse >= 2 /\ EndBit <= SatBits
  BY LineAssumption DEF Margins
<1>2. DataBits \in Nat \ {0} /\ Pulse \in 1 .. BitTicks \div 2
  BY LineAssumption
<1>3. PICK t \in Nat : t = BitTicks
  BY <1>1
<1>4. t \div 2 \in Nat /\ 2 * (t \div 2) <= t /\ t \div 2 >= 2
  BY <1>1, <1>3
<1>5. (t * 2) \div 3 \in Nat /\ (t * 2) \div 3 >= 1 /\ (t * 2) \div 3 + 2 <= t
  BY <1>1, <1>3
<1>6. StopBit = DataBits + 1 /\ EndBit = StopBit + 1 /\ StopBit \in Nat
  BY <1>2 DEF StopBit, EndBit
<1>7. (StopBit + 1) * BitTicks = StopBit * BitTicks + BitTicks /\ StopBit * BitTicks \in Nat
  BY <1>1, <1>6
<1>8. Pulse \in Nat /\ Pulse <= PulseWindow
  BY <1>2, <1>3, <1>4 DEF PulseWindow
<1> QED BY <1>1, <1>2, <1>3, <1>4, <1>5, <1>6, <1>7, <1>8 DEF PulseWindow, SamplePoint, ByteTicks

LEMMA BitProduct ==
    ASSUME Margins, NEW k \in Nat
    PROVE  k * BitTicks \in Nat /\ (k + 1) * BitTicks = k * BitTicks + BitTicks
BY BitNumbers

\* A cell later is a bit later.
LEMMA CellLater ==
    ASSUME Margins, NEW i \in Nat, NEW k \in Nat, i < k
    PROVE  i * BitTicks + BitTicks <= k * BitTicks
<1>1. BitTicks \in Nat
  BY BitNumbers
<1>2. PICK n \in Nat : k = i + 1 + n
  <2>1. k - i - 1 \in Nat /\ k = i + 1 + (k - i - 1)
    OBVIOUS
  <2> QED BY <2>1
<1>3. n * BitTicks >= 0 /\ n * BitTicks \in Int
  BY <1>1
<1>4. k * BitTicks = i * BitTicks + BitTicks + n * BitTicks
  BY <1>1, <1>2
<1> QED BY <1>1, <1>3, <1>4, BitProduct

LEMMA CellUnique ==
    ASSUME Margins, NEW i \in Nat, NEW k \in Nat, NEW j \in 0 .. BitTicks - 1,
           i * BitTicks <= k * BitTicks + j, k * BitTicks + j < i * BitTicks + BitTicks
    PROVE  i = k
<1>1. BitTicks \in Nat /\ j \in Nat /\ j < BitTicks /\ i * BitTicks \in Nat /\ k * BitTicks \in Nat
  BY BitNumbers, BitProduct
<1>2. i < k => i * BitTicks + BitTicks <= k * BitTicks
  BY CellLater
<1>3. k < i => k * BitTicks + BitTicks <= i * BitTicks
  BY CellLater
<1> QED BY <1>1, <1>2, <1>3

\* Tick j of cell k is lit when the bit is a 0: the whole cell, or the pulse.
LEMMA LitAt ==
    ASSUME Margins, front \in Fronts, NEW s \in SenderRecord, s.on,
           NEW k \in 0 .. StopBit, NEW j \in 0 .. BitTicks - 1
    PROVE  Lit(s, k * BitTicks + j) <=> k \in ZerosOf(s.data) /\ (~Nrz => j < Pulse)
<1>1. /\ BitTicks \in Nat /\ StopBit \in Nat /\ DataBits \in Nat /\ Pulse \in Nat /\ Pulse <= BitTicks
      /\ k \in Nat /\ j \in Nat /\ j < BitTicks
  BY BitNumbers
<1>2. Zeros(s) = ZerosOf(s.data)
  BY DEF Zeros, ZerosOf
<1>3. ZerosOf(s.data) \subseteq Nat
  BY <1>1 DEF ZerosOf, Bits
<1>4. s.drift = 0
  BY DEF SenderRecord, Margins
<1>5. \A i \in Nat : CellStart(s, i) = i * BitTicks /\ CellStart(s, i + 1) = i * BitTicks + BitTicks
  <2>1. TAKE i \in Nat
  <2>2. CellStart(s, i) = i * BitTicks + 0 /\ CellStart(s, i + 1) = (i + 1) * BitTicks + 0
    BY <1>4 DEF CellStart
  <2> QED BY <1>1, <2>2, BitProduct
<1>6. front.enc = "irda" <=> ~Nrz
  BY LineAssumption DEF Nrz
<1>7. k * BitTicks \in Nat
  BY BitProduct
<1>8. ASSUME k \in ZerosOf(s.data), ~Nrz => j < Pulse PROVE Lit(s, k * BitTicks + j)
  <2> DEFINE p == k * BitTicks + j
             last == (IF front.enc = "irda" THEN CellStart(s, k) + Pulse ELSE CellStart(s, k + 1)) - 1
  <2>1. last = (IF Nrz THEN k * BitTicks + BitTicks ELSE k * BitTicks + Pulse) - 1
    BY <1>1, <1>5, <1>6
  <2>2. CellStart(s, k) = k * BitTicks
    BY <1>1, <1>5
  <2>3. p \in CellStart(s, k) .. last
    <3> HIDE DEF last
    <3> QED BY <1>1, <1>7, <1>8, <2>1, <2>2
  <2> QED BY <1>2, <1>8, <2>3 DEF Lit
<1>9. ASSUME Lit(s, k * BitTicks + j) PROVE k \in ZerosOf(s.data) /\ (~Nrz => j < Pulse)
  <2>1. PICK i \in Zeros(s) :
           k * BitTicks + j \in CellStart(s, i) .. (IF front.enc = "irda" THEN CellStart(s, i) + Pulse
                                                                        ELSE CellStart(s, i + 1)) - 1
    BY <1>9 DEF Lit
  <2>2. i \in Nat /\ i \in ZerosOf(s.data)
    BY <1>2, <1>3
  <2>3. PICK c, n \in Nat : c = i * BitTicks /\ n = k * BitTicks + j
    BY <1>1, <1>7, <2>2, BitProduct
  <2>4. n \in c .. (IF Nrz THEN c + BitTicks ELSE c + Pulse) - 1
    BY <1>5, <1>6, <2>1, <2>2, <2>3
  <2>5. c <= n /\ n < c + BitTicks /\ (~Nrz => n < c + Pulse)
    BY <1>1, <2>3, <2>4
  <2>6. i = k
    BY <1>1, <2>2, <2>3, <2>5, CellUnique
  <2> QED BY <1>1, <1>7, <2>2, <2>3, <2>5, <2>6
<1> QED BY <1>8, <1>9

\* From the stop bit on it is dark.
LEMMA DarkFromStop ==
    ASSUME Margins, front \in Fronts, NEW s \in SenderRecord, NEW p \in Int, p >= StopBit * BitTicks
    PROVE  ~Lit(s, p)
<1> SUFFICES ASSUME Lit(s, p) PROVE FALSE
  OBVIOUS
<1>1. PICK i \in Zeros(s) :
         p \in CellStart(s, i) .. (IF front.enc = "irda" THEN CellStart(s, i) + Pulse
                                                       ELSE CellStart(s, i + 1)) - 1
  BY DEF Lit
<1>2. s.drift = 0
  BY DEF SenderRecord, Margins
<1>3. i \in Nat /\ i < StopBit
  BY <1>1, BitNumbers DEF Zeros, Bits
<1>4. /\ BitTicks \in Nat /\ Pulse \in Nat /\ Pulse <= BitTicks /\ StopBit * BitTicks \in Nat
      /\ StopBit \in Nat
  BY BitNumbers
<1>5. CellStart(s, i) = i * BitTicks + 0 /\ CellStart(s, i + 1) = (i + 1) * BitTicks + 0
  BY <1>2 DEF CellStart
<1>6. /\ i * BitTicks \in Nat /\ (i + 1) * BitTicks = i * BitTicks + BitTicks
      /\ i * BitTicks + BitTicks <= StopBit * BitTicks
  BY <1>3, <1>4, BitProduct, CellLater
<1>7. p < i * BitTicks + BitTicks
  BY <1>1, <1>4, <1>5, <1>6
<1> QED BY <1>4, <1>6, <1>7

\* The samples of a character.
LEMMA SampleAt ==
    ASSUME Margins, front \in Fronts, ambient = 0, stray = 0, sender \in SenderRecord, sender.on,
           NEW k \in 0 .. StopBit, NEW j \in 0 .. BitTicks - 1, sender.phase = k * BitTicks + j
    PROVE  /\ k \notin ZerosOf(sender.data) /\ (j >= 1 \/ ~Nrz) => Sample = front.dark
           /\ k \in ZerosOf(sender.data) /\ ((Nrz /\ j >= 1) \/ j = 1) => Sample = front.light
           /\ k = 0 /\ front.lag = 0 => Sample = IF Nrz \/ j < Pulse THEN front.light ELSE front.dark
<1>1. /\ Bright /\ WasBright => Sample = front.light
      /\ ~Bright /\ ~WasBright => Sample = front.dark
      /\ front.lag = 0 => Sample = IF Bright THEN front.light ELSE front.dark
  BY SampleLevels
<1>2. Bright <=> k \in ZerosOf(sender.data) /\ (~Nrz => j < Pulse)
  BY LitAt DEF Bright, Light
<1>3. /\ BitTicks \in Nat /\ BitTicks >= 4 /\ Pulse \in Nat /\ Pulse >= 2 /\ 2 * Pulse <= BitTicks
      /\ StopBit \in Nat /\ k \in Nat /\ j \in Nat /\ k * BitTicks \in Nat
  BY BitNumbers, BitProduct
<1>4. ASSUME j >= 1 PROVE WasBright <=> k \in ZerosOf(sender.data) /\ (~Nrz => j - 1 < Pulse)
  <2>1. j - 1 \in 0 .. BitTicks - 1 /\ sender.phase - 1 = k * BitTicks + (j - 1) /\ sender.phase > 0
    BY <1>3, <1>4
  <2>2. Lit(sender, k * BitTicks + (j - 1)) <=> k \in ZerosOf(sender.data) /\ (~Nrz => j - 1 < Pulse)
    BY <2>1, LitAt
  <2> QED BY <2>1, <2>2 DEF WasBright
<1>5. ASSUME j = 0, ~Nrz PROVE ~WasBright
  <2>1. CASE k = 0
    <3>1. sender.phase = 0
      BY <1>3, <1>5, <2>1
    <3> QED BY <3>1 DEF WasBright
  <2>2. CASE k # 0
    <3>1. k - 1 \in 0 .. StopBit /\ k - 1 \in Nat /\ BitTicks - 1 \in 0 .. BitTicks - 1
      BY <1>3, <2>2
    <3>2. ((k - 1) + 1) * BitTicks = (k - 1) * BitTicks + BitTicks /\ (k - 1) * BitTicks \in Nat
      BY <3>1, BitProduct
    <3>3. (k - 1) + 1 = k
      BY <1>3
    <3>4. sender.phase - 1 = (k - 1) * BitTicks + (BitTicks - 1)
      BY <1>3, <1>5, <3>2, <3>3
    <3>5. ~(BitTicks - 1 < Pulse)
      BY <1>3
    <3>6. ~Lit(sender, (k - 1) * BitTicks + (BitTicks - 1))
      BY <1>5, <3>1, <3>5, LitAt
    <3> QED BY <3>4, <3>6 DEF WasBright
  <2> QED BY <2>1, <2>2
<1>6. 0 \in ZerosOf(sender.data)
  BY DEF ZerosOf
<1>7. k \notin ZerosOf(sender.data) /\ (j >= 1 \/ ~Nrz) => Sample = front.dark
  BY <1>1, <1>2, <1>3, <1>4, <1>5
<1>8. k \in ZerosOf(sender.data) /\ ((Nrz /\ j >= 1) \/ j = 1) => Sample = front.light
  BY <1>1, <1>2, <1>3, <1>4
<1>9. k = 0 /\ front.lag = 0 => Sample = IF Nrz \/ j < Pulse THEN front.light ELSE front.dark
  BY <1>1, <1>2, <1>6
<1> QED BY <1>7, <1>8, <1>9

\* The line is dark after a character and before the first.
LEMMA SampleDark ==
    ASSUME Margins, front \in Fronts, ambient = 0, stray = 0, sender \in SenderRecord,
           sender.on => sender.phase >= ByteTicks, ~sender.on => sender = Silence
    PROVE  Sample = front.dark
<1>1. ~Bright /\ ~WasBright
  <2>1. CASE sender.on
    <3>1. sender.phase \in Nat /\ BitTicks \in Nat /\ BitTicks >= 4 /\ StopBit * BitTicks \in Nat
          /\ sender.phase >= StopBit * BitTicks + BitTicks
      BY <2>1, BitNumbers DEF SenderRecord
    <3>2. /\ sender.phase >= StopBit * BitTicks /\ sender.phase - 1 >= StopBit * BitTicks
          /\ sender.phase \in Int /\ sender.phase - 1 \in Int
      BY <3>1
    <3>3. ~Lit(sender, sender.phase) /\ ~Lit(sender, sender.phase - 1)
      BY <3>2, DarkFromStop
    <3> QED BY <3>3 DEF Bright, WasBright, Light
  <2>2. CASE ~sender.on
    BY <2>2 DEF Bright, WasBright, Light, Lit
  <2> QED BY <2>1, <2>2
<1> QED BY <1>1, SampleLevels

-----------------------------------------------------------------------------
(* A byte, sample by sample                                                *)

\* The sample that byte d is due, when it began a samples after its start edge.
SampleFits(r, d, a, adc) ==
    /\ adc \in Counts /\ adc \in Int /\ front.light <= adc /\ adc <= front.dark
    /\ r.samp + a < BitTicks =>
         /\ r.bit \notin ZerosOf(d) /\ (r.samp + a >= 1 \/ ~Nrz) => adc = front.dark
         /\ r.bit \in ZerosOf(d) /\ ((Nrz /\ r.samp + a >= 1) \/ r.samp + a = 1) => adc = front.light

TellsApart(e) ==
    /\ ~RealPulse(e, front.dark) /\ ~IsLight(e, front.dark) /\ front.dark >= Mid(e)
    /\ RealPulse(e, front.light) /\ IsLight(e, front.light) /\ ~(front.light >= Mid(e))
    /\ front.light < Mid(e) /\ ~(front.dark < Mid(e))

LEMMA ZerosTyped ==
    ASSUME Margins, NEW d \in SUBSET Bits
    PROVE  0 \in ZerosOf(d) /\ StopBit \notin ZerosOf(d) /\ \A k \in Bits : k \in ZerosOf(d) <=> k \notin d
<1>1. Bits = 1 .. DataBits /\ DataBits \in Nat /\ StopBit = DataBits + 1
  BY BitNumbers DEF Bits
<1>2. 0 \notin Bits /\ StopBit \notin Bits /\ StopBit # 0
  BY <1>1
<1> QED BY <1>2 DEF ZerosOf

\* A sample added to a byte that is d so far.
LEMMA ByteAccumulates ==
    ASSUME Margins, front \in Fronts, NEW d \in SUBSET Bits, NEW r \in RxRecord, NEW a, ByteOf(r, d, a),
           NEW e, TellsApart(e), NEW adc, SampleFits(r, d, a, adc), NEW lit, lit = IsLight(e, adc),
           NEW c, c = Accumulated(r, e, adc, lit)
    PROVE  LET q == [c EXCEPT !.samp = @ + 1] IN
           /\ ByteOf(q, d, a) /\ q.bit = r.bit /\ q.samp = r.samp + 1 /\ q.data = r.data
           /\ q.lmin = c.lmin /\ q.dmax = c.dmax /\ q.data = c.data
<1> DEFINE q == [c EXCEPT !.samp = @ + 1]
<1>1. /\ q.on = r.on /\ q.bit = r.bit /\ q.samp = r.samp + 1 /\ q.data = r.data
      /\ q.pulse = Pulsed(r, e, adc, lit)
      /\ q.lvl = (IF Nrz /\ r.samp = SamplePoint THEN adc ELSE r.lvl)
      /\ q.lmin = (IF adc < r.lmin THEN adc ELSE r.lmin)
      /\ q.dmax = (IF adc > r.dmax THEN adc ELSE r.dmax)
  BY DEF Accumulated, RxRecord
<1>2. q.lmin = c.lmin /\ q.dmax = c.dmax /\ q.data = c.data
  BY DEF Accumulated, RxRecord
<1> SUFFICES ByteOf(q, d, a)
  BY <1>1, <1>2
<1> HIDE DEF q
<1>3. /\ BitTicks \in Nat /\ BitTicks >= 4 /\ StopBit \in Nat /\ SamplePoint \in Nat /\ SamplePoint >= 1
      /\ SamplePoint + 2 <= BitTicks /\ PulseWindow \in Nat /\ PulseWindow >= 2 /\ 2 * PulseWindow <= BitTicks
      /\ StopBit # 0
  BY BitNumbers
<1>4. r.samp \in Nat /\ r.bit \in Nat /\ r.lmin \in Int /\ r.dmax \in Int /\ r.samp < BitTicks
  BY <1>3, Board DEF RxRecord, Counts
<1>5. a \in {0, 1} /\ BitSoFar(r, d, a) /\ ContrastSoFar(r, a) /\ r.on /\ r.data = {k \in d : k < r.bit}
      /\ (a = 1 => front.lag > 0)
  BY DEF ByteOf
<1>6. adc \in Int /\ front.light \in Int /\ front.dark \in Int
  BY FrontNumbers DEF SampleFits
<1>7. /\ r.samp + a < BitTicks /\ r.bit \notin ZerosOf(d) /\ (r.samp + a >= 1 \/ ~Nrz) => adc = front.dark
      /\ r.samp + a < BitTicks /\ r.bit \in ZerosOf(d) /\ ((Nrz /\ r.samp + a >= 1) \/ r.samp + a = 1)
            => adc = front.light
  BY DEF SampleFits
<1>8. 0 \in ZerosOf(d) /\ StopBit \notin ZerosOf(d)
  BY ZerosTyped
<1>9. BitSoFar(q, d, a)
  <2>1. CASE Nrz
    <3> SUFFICES ASSUME q.samp > SamplePoint
                 PROVE  IF Esp32 THEN q.pulse <=> q.bit \in ZerosOf(d)
                        ELSE q.lvl = IF q.bit \in ZerosOf(d) THEN front.light ELSE front.dark
      BY <2>1 DEF BitSoFar
    <3>1. CASE r.samp = SamplePoint
      <4>1. r.samp + a < BitTicks /\ r.samp + a >= 1
        BY <1>3, <1>4, <1>5, <3>1
      <4>2. adc = IF r.bit \in ZerosOf(d) THEN front.light ELSE front.dark
        BY <1>7, <2>1, <4>1
      <4>3. q.lvl = adc
        BY <1>1, <2>1, <3>1
      <4>4. Esp32 => q.pulse = (adc < Mid(e))
        BY <1>1, <2>1, <3>1 DEF Pulsed
      <4>5. (adc < Mid(e)) <=> r.bit \in ZerosOf(d)
        <5>1. CASE r.bit \in ZerosOf(d)
          BY <4>2, <5>1, Zenon DEF TellsApart
        <5>2. CASE r.bit \notin ZerosOf(d)
          BY <4>2, <5>2, Zenon DEF TellsApart
        <5> QED BY <5>1, <5>2
      <4>6. Esp32 => (q.pulse <=> q.bit \in ZerosOf(d))
        BY <1>1, <4>4, <4>5, Zenon
      <4>7. q.lvl = IF q.bit \in ZerosOf(d) THEN front.light ELSE front.dark
        BY <1>1, <4>2, <4>3
      <4> QED BY <4>6, <4>7
    <3>2. CASE r.samp # SamplePoint
      <4>1. r.samp > SamplePoint
        BY <1>1, <1>3, <1>4, <3>2
      <4>2. IF Esp32 THEN r.pulse <=> r.bit \in ZerosOf(d)
            ELSE r.lvl = IF r.bit \in ZerosOf(d) THEN front.light ELSE front.dark
        BY <1>5, <2>1, <4>1 DEF BitSoFar
      <4>3. q.lvl = r.lvl /\ q.pulse = r.pulse
        BY <1>1, <2>1, <3>2 DEF Pulsed
      <4> QED BY <1>1, <4>2, <4>3
    <3> QED BY <3>1, <3>2
  <2>2. CASE ~Nrz
    <3>1. /\ r.pulse => r.bit \in ZerosOf(d)
          /\ r.samp + a >= 2 /\ r.bit \in ZerosOf(d) => r.pulse
      BY <1>5, <2>2 DEF BitSoFar
    <3>2. q.pulse <=> (r.pulse \/ (r.samp < PulseWindow /\ lit))
      BY <1>1, <2>2, Zenon DEF Pulsed
    <3>3. ASSUME r.samp < PulseWindow, lit PROVE r.bit \in ZerosOf(d)
      <4>1. r.samp + a < BitTicks
        BY <1>3, <1>4, <1>5, <3>3
      <4>2. adc # front.dark
        BY <3>3, Zenon DEF TellsApart
      <4> QED BY <1>7, <2>2, <4>1, <4>2
    <3>4. ASSUME q.samp + a >= 2, r.bit \in ZerosOf(d) PROVE q.pulse
      <4>1. CASE r.samp + a >= 2
        BY <3>1, <3>2, <3>4, <4>1
      <4>2. CASE ~(r.samp + a >= 2)
        <5>1. r.samp + a = 1
          BY <1>1, <1>4, <1>5, <3>4, <4>2
        <5>2. r.samp < PulseWindow /\ r.samp + a < BitTicks
          BY <1>3, <1>4, <1>5, <5>1
        <5>3. adc = front.light
          BY <1>7, <3>4, <5>1, <5>2
        <5>4. lit
          BY <5>3, Zenon DEF TellsApart
        <5> QED BY <3>2, <5>2, <5>4
      <4> QED BY <4>1, <4>2
    <3>5. q.pulse => q.bit \in ZerosOf(d)
      BY <1>1, <3>1, <3>2, <3>3
    <3>6. q.samp + a >= 2 /\ q.bit \in ZerosOf(d) => q.pulse
      BY <1>1, <3>4
    <3> QED BY <2>2, <3>5, <3>6 DEF BitSoFar
  <2> QED BY <2>1, <2>2
<1>10. ContrastSoFar(q, a)
  <2>1. q.lmin \in Int /\ q.lmin <= r.lmin /\ q.lmin <= adc /\ q.dmax \in Int /\ q.dmax >= r.dmax /\ q.dmax >= adc
    BY <1>1, <1>4, <1>6
  <2>2. /\ r.bit > 0 \/ r.samp + a >= 2 => r.lmin <= front.light
        /\ r.bit = StopBit /\ r.samp + a >= 2 => r.dmax >= front.dark
    BY <1>5 DEF ContrastSoFar
  <2>3. ASSUME r.bit > 0 \/ q.samp + a >= 2 PROVE q.lmin <= front.light
    <3>1. CASE r.bit > 0 \/ r.samp + a >= 2
      BY <1>4, <1>6, <2>1, <2>2, <3>1
    <3>2. CASE ~(r.bit > 0 \/ r.samp + a >= 2)
      <4>1. r.bit = 0 /\ r.samp + a = 1
        BY <1>1, <1>4, <1>5, <2>3, <3>2
      <4>2. adc = front.light
        BY <1>3, <1>7, <1>8, <4>1
      <4> QED BY <1>6, <2>1, <4>2
    <3> QED BY <3>1, <3>2
  <2>4. ASSUME r.bit = StopBit, q.samp + a >= 2 PROVE q.dmax >= front.dark
    <3>1. CASE r.samp + a >= 2
      BY <1>4, <1>6, <2>1, <2>2, <2>4, <3>1
    <3>2. CASE ~(r.samp + a >= 2)
      <4>1. r.samp + a = 1
        BY <1>1, <1>4, <1>5, <2>4, <3>2
      <4>2. adc = front.dark
        BY <1>3, <1>7, <1>8, <2>4, <4>1
      <4> QED BY <1>6, <2>1, <4>2
    <3> QED BY <3>1, <3>2
  <2> QED BY <1>1, <2>3, <2>4 DEF ContrastSoFar
<1>11. ByteOf(q, d, a)
  BY <1>1, <1>5, <1>9, <1>10 DEF ByteOf
<1> QED BY <1>11

\* A whole bit is read as what was sent.
LEMMA BitIsRead ==
    ASSUME Margins, front \in Fronts, NEW d \in SUBSET Bits, NEW r, NEW a \in {0, 1},
           BitSoFar([r EXCEPT !.samp = @ + 1], d, a), r.samp = BitTicks - 1,
           r \in RxRecord, NEW e, TellsApart(e)
    PROVE  IsOne(r, e) <=> r.bit \notin ZerosOf(d)
<1> DEFINE q == [r EXCEPT !.samp = @ + 1]
<1>1. q.samp = r.samp + 1 /\ q.bit = r.bit /\ q.pulse = r.pulse /\ q.lvl = r.lvl
  BY DEF RxRecord
<1>2. q.samp > SamplePoint /\ q.samp + a >= 2
  BY <1>1, BitNumbers
<1> HIDE DEF q
<1>3. BitSoFar(q, d, a)
  BY DEF q
<1>4. CASE Nrz /\ ~Esp32
  <2>1. r.lvl = IF r.bit \in ZerosOf(d) THEN front.light ELSE front.dark
    BY <1>1, <1>2, <1>3, <1>4 DEF BitSoFar
  <2>2. IsOne(r, e) <=> r.lvl >= Mid(e)
    BY <1>4 DEF IsOne
  <2>3. CASE r.bit \in ZerosOf(d)
    <3>1. r.lvl = front.light
      BY <2>1, <2>3
    <3>2. ~(front.light >= Mid(e))
      BY DEF TellsApart
    <3> QED BY <2>2, <2>3, <3>1, <3>2, Zenon
  <2>4. CASE r.bit \notin ZerosOf(d)
    <3>1. r.lvl = front.dark
      BY <2>1, <2>4
    <3>2. front.dark >= Mid(e)
      BY DEF TellsApart
    <3> QED BY <2>2, <2>4, <3>1, <3>2, Zenon
  <2> QED BY <2>3, <2>4
<1>5. CASE ~(Nrz /\ ~Esp32)
  <2>1. IsOne(r, e) <=> ~r.pulse
    BY <1>5, Zenon DEF IsOne
  <2>2. r.pulse <=> r.bit \in ZerosOf(d)
    <3>1. CASE Nrz
      BY <1>1, <1>2, <1>3, <1>5, <3>1 DEF BitSoFar
    <3>2. CASE ~Nrz
      BY <1>1, <1>2, <1>3, <3>2 DEF BitSoFar
    <3> QED BY <3>1, <3>2
  <2> QED BY <2>1, <2>2, Zenon
<1> QED BY <1>4, <1>5

\* The next bit of a byte that is d so far.
LEMMA ByteNextBit ==
    ASSUME Margins, front \in Fronts, NEW d \in SUBSET Bits, NEW a, NEW r \in RxRecord, NEW new \in SUBSET Bits,
           ByteOf([r EXCEPT !.samp = @ + 1], d, a), r.bit < StopBit,
           new = {k \in d : k < r.bit + 1},
           r.samp = BitTicks - 1
    PROVE  LET n == NextBit([r EXCEPT !.data = new]) IN
           ByteOf(n, d, a) /\ n.bit = r.bit + 1 /\ n.samp = 0
<1> DEFINE q == [r EXCEPT !.samp = @ + 1]
           n == NextBit([r EXCEPT !.data = new])
<1>1. /\ q.samp = r.samp + 1 /\ q.bit = r.bit /\ q.on = r.on
      /\ q.lmin = r.lmin /\ q.dmax = r.dmax
  BY DEF RxRecord
<1>2. /\ n.on = r.on /\ n.bit = r.bit + 1 /\ n.samp = 0 /\ n.pulse = FALSE /\ n.data = new
      /\ n.lmin = r.lmin /\ n.dmax = r.dmax
  BY DEF RxRecord, NextBit
<1>3. r.bit \in Nat /\ BitTicks \in Nat /\ BitTicks >= 4 /\ SamplePoint \in Nat /\ SamplePoint >= 1
  BY BitNumbers DEF RxRecord
<1> SUFFICES ByteOf(n, d, a)
  BY <1>2
<1> HIDE DEF q, n
<1>4. a \in {0, 1} /\ (a = 1 => front.lag > 0) /\ q.on /\ ContrastSoFar(q, a)
  BY DEF ByteOf, q
<1>5. n.data = {k \in d : k < n.bit}
  BY <1>2
<1>6. BitSoFar(n, d, a)
  BY <1>2, <1>3, <1>4 DEF BitSoFar
<1>7. ContrastSoFar(n, a)
  <2>1. q.samp + a >= 2
    BY <1>1, <1>3, <1>4
  <2>2. q.lmin <= front.light
    BY <1>4, <2>1 DEF ContrastSoFar
  <2> QED BY <1>1, <1>2, <1>3, <1>4, <2>2 DEF ContrastSoFar
<1> QED BY <1>1, <1>2, <1>4, <1>5, <1>6, <1>7 DEF ByteOf

\* One sample of a byte: it goes on, or was whole and is the one that was sent.
ByteGoesOn(d, r, a) ==
    /\ ByteOf(rx', d, a) /\ Age(rx') = Age(r) + 1 /\ Dropped
    /\ \/ rx'.bit = r.bit /\ rx'.samp = r.samp + 1
       \/ rx'.bit = r.bit + 1 /\ rx'.samp = 0
ByteEnds(d, r) == Age(r) = ByteTicks - 1 /\ rx' = Idle(TRUE, 0) /\ Received(d)

LEMMA ByteSample ==
    ASSUME Margins, front \in Fronts, ~TooWeak(front), NEW d \in SUBSET Bits, NEW r \in RxRecord, NEW a,
           ByteOf(r, d, a), RunBounded(r),
           NEW e \in [hi : Levels, lo : Levels], TellsApart(e), NEW adc, SampleFits(r, d, a, adc),
           NEW lit \in BOOLEAN, lit = IsLight(e, adc), InByte(r, e, adc, lit)
    PROVE  ByteGoesOn(d, r, a) \/ ByteEnds(d, r)
<1>0. PICK c : c = Accumulated(r, e, adc, lit)
  OBVIOUS
<1> DEFINE q == [c EXCEPT !.samp = @ + 1]
<1>1. adc \in Counts /\ r.on
  BY DEF SampleFits, ByteOf
<1>2. /\ c \in RxRecord /\ c.on /\ c.samp = r.samp /\ c.bit = r.bit
      /\ c.lightRun <= c.bit * BitTicks + c.samp + 1
  BY <1>0, <1>1, AccumulatedOK
<1>3. /\ ByteOf(q, d, a) /\ q.bit = r.bit /\ q.samp = r.samp + 1 /\ q.data = r.data
      /\ q.lmin = c.lmin /\ q.dmax = c.dmax /\ q.data = c.data
  BY <1>0, ByteAccumulates
<1>4. \/ Saturated(c)
      \/ c.samp + 1 < BitTicks /\ rx' = q /\ Dropped
      \/ ~(c.samp + 1 < BitTicks) /\ FinalizeBit(c, e)
  BY <1>0 DEF InByte
<1>5. /\ BitTicks \in Nat /\ BitTicks >= 4 /\ StopBit \in Nat /\ EndBit = StopBit + 1 /\ EndBit <= SatBits
      /\ ByteTicks = StopBit * BitTicks + BitTicks /\ StopBit * BitTicks \in Nat /\ StopBit = DataBits + 1
      /\ DataBits \in Nat
  BY BitNumbers
<1>6. r.bit \in 0 .. StopBit /\ r.bit \in Nat /\ r.samp \in Nat /\ r.samp <= BitTicks - 1
  BY <1>5 DEF RxRecord
<1>7. /\ r.bit * BitTicks \in Nat /\ (r.bit + 1) * BitTicks = r.bit * BitTicks + BitTicks
      /\ (r.bit < StopBit => r.bit * BitTicks + BitTicks <= StopBit * BitTicks)
  BY <1>5, <1>6, BitProduct, CellLater
<1>8. a \in {0, 1} /\ BitSoFar(q, d, a) /\ ContrastSoFar(q, a)
  BY <1>3 DEF ByteOf
<1>9. r.samp = BitTicks - 1 => (IsOne(c, e) <=> r.bit \notin ZerosOf(d))
  BY <1>2, <1>8, BitIsRead
<1>10. ~Saturated(c)
  <2>1. r.bit * BitTicks + r.samp + 1 <= ByteTicks
    BY <1>5, <1>6, <1>7
  <2>2. c.lightRun \in Nat /\ c.lightRun <= ByteTicks
    BY <1>2, <1>5, <1>6, <1>7, <2>1 DEF RxRecord
  <2>3. ByteTicks <= SatBits * BitTicks
    <3>1. PICK b \in Nat : b = BitTicks /\ ByteTicks = EndBit * b
      BY <1>5 DEF ByteTicks
    <3>2. PICK n \in 0 .. 15 : n = EndBit
      BY <1>5 DEF SatBits
    <3>3. n * b <= 15 * b
      OBVIOUS
    <3> QED BY <3>1, <3>2, <3>3 DEF SatBits
  <2>4. SatBits * BitTicks \in Nat /\ ByteTicks \in Nat
    BY <1>5 DEF SatBits
  <2> QED BY <2>2, <2>3, <2>4 DEF Saturated
<1>11. CASE c.samp + 1 < BitTicks /\ rx' = q /\ Dropped
  <2>1. Age(q) = Age(r) + 1
    BY <1>3, <1>6, <1>7 DEF Age
  <2> QED BY <1>3, <1>11, <2>1 DEF ByteGoesOn
<1>12. CASE ~(c.samp + 1 < BitTicks) /\ FinalizeBit(c, e)
  <2>1. r.samp = BitTicks - 1
    BY <1>2, <1>5, <1>6, <1>12
  <2>2. IsOne(c, e) <=> r.bit \notin ZerosOf(d)
    BY <1>9, <2>1
  <2>3. r.data = {k \in d : k < r.bit}
    BY DEF ByteOf
  <2>4. CASE r.bit = StopBit
    <3>1. IsOne(c, e)
      BY <2>2, <2>4, ZerosTyped
    <3>2. FinalizeFrame(c, IsOne(c, e))
      BY <1>2, <1>12, <2>4 DEF FinalizeBit, AtStop
    <3>3. rx' = Idle(TRUE, 0)
      <4>1. (IsOne(c, e) \/ Esp32) = TRUE
        BY <3>1, Zenon DEF Esp32
      <4> QED BY <3>2, <4>1, Zenon DEF FinalizeFrame
    <3>4. Contrasted(c)
      <4>1. q.samp + a >= 2
        BY <1>3, <1>5, <1>8, <2>1
      <4>2. c.lmin <= front.light /\ c.dmax >= front.dark
        BY <1>3, <1>8, <2>4, <4>1 DEF ContrastSoFar
      <4>3. front.light \in Int /\ front.dark \in Int /\ c.lmin \in Int /\ c.dmax \in Int
            /\ MinContrast \in Nat /\ MinContrast = Squelch[front.board]
        BY <1>2, Board, FrontNumbers DEF RxRecord, Counts
      <4>4. front.dark - front.light >= MinContrast
        BY <4>3 DEF TooWeak
      <4> QED BY <4>2, <4>3, <4>4 DEF Contrasted
    <3>5. Received(c.data)
      BY <3>1, <3>2, <3>4 DEF FinalizeFrame
    <3>6. c.data = d
      <4>1. \A k \in d : k < r.bit
        BY <1>5, <2>4 DEF Bits
      <4> QED BY <1>3, <2>3, <4>1
    <3>7. Age(r) = ByteTicks - 1
      BY <1>5, <2>1, <2>4 DEF Age
    <3> QED BY <3>3, <3>5, <3>6, <3>7 DEF ByteEnds
  <2>5. CASE r.bit # StopBit
    <3>1. r.bit < StopBit
      BY <1>5, <1>6, <2>5
    <3> DEFINE new == {k \in d : k < r.bit + 1}
               n == NextBit([c EXCEPT !.data = new])
    <3>2. new \in SUBSET Bits /\ new = {k \in d : k < c.bit + 1}
      BY <1>2
    <3> HIDE DEF new
    <3>3. ByteOf(n, d, a) /\ n.bit = c.bit + 1 /\ n.samp = 0
      <4>1. c.bit < StopBit /\ c.samp = BitTicks - 1 /\ c \in RxRecord
        BY <1>2, <2>1, <3>1
      <4>2. ByteOf([c EXCEPT !.samp = @ + 1], d, a)
        BY <1>3
      <4> HIDE DEF q
      <4> QED BY <3>2, <4>1, <4>2, ByteNextBit
    <3> USE DEF new
    <3>4. rx' = n
      <4>1. /\ Dropped
            /\ rx' = IF r.bit = 0 /\ IsOne(c, e) THEN Idle(Esp32, 0)
                     ELSE IF r.bit > 0 /\ IsOne(c, e) THEN NextBit([c EXCEPT !.data = @ \cup {r.bit}])
                     ELSE NextBit(c)
        BY <1>2, <1>12, <2>5 DEF FinalizeBit, AtStop
      <4>2. c.data = {k \in d : k < r.bit}
        BY <1>3, <2>3
      <4>3. \A k \in d : k \in Int
        BY <1>5 DEF Bits
      <4>4. CASE r.bit \in ZerosOf(d)
        <5>1. rx' = NextBit(c)
          BY <2>2, <4>1, <4>4
        <5>2. r.bit \notin d
          <6>1. r.bit = 0 => r.bit \notin Bits
            BY <1>5 DEF Bits
          <6> QED BY <4>4, <6>1 DEF ZerosOf
        <5>3. new = c.data
          BY <1>6, <4>2, <4>3, <5>2
        <5>4. [c EXCEPT !.data = c.data] = c
          BY <1>2 DEF RxRecord
        <5> QED BY <5>1, <5>3, <5>4
      <4>5. CASE r.bit \notin ZerosOf(d)
        <5>1. r.bit \in Bits /\ r.bit \in d /\ r.bit > 0
          <6>1. r.bit # 0
            BY <4>5, ZerosTyped
          <6>2. r.bit \in Bits
            BY <1>5, <1>6, <3>1, <6>1 DEF Bits
          <6> QED BY <1>6, <4>5, <6>1, <6>2, ZerosTyped
        <5>2. rx' = NextBit([c EXCEPT !.data = c.data \cup {r.bit}])
          <6>1. rx' = NextBit([c EXCEPT !.data = @ \cup {r.bit}])
            BY <2>2, <4>1, <4>5, <5>1
          <6> QED BY <6>1
        <5>3. new = c.data \cup {r.bit}
          BY <1>6, <4>2, <4>3, <5>1
        <5> QED BY <5>2, <5>3
      <4> QED BY <4>4, <4>5
    <3>5. Dropped
      BY <1>2, <1>12, <2>5 DEF FinalizeBit, AtStop
    <3> HIDE DEF n, new
    <3>6. Age(n) = Age(r) + 1
      BY <1>2, <1>5, <1>6, <1>7, <2>1, <3>3 DEF Age
    <3> QED BY <1>2, <3>3, <3>4, <3>5, <3>6 DEF ByteGoesOn
  <2> QED BY <2>4, <2>5
<1> QED BY <1>4, <1>10, <1>11, <1>12

-----------------------------------------------------------------------------
(* What the dark envelope lags behind, over a byte                         *)

LEMMA AgeBounds ==
    ASSUME Margins, NEW r \in RxRecord
    PROVE  /\ Age(r) \in Nat /\ Age(r) + 1 <= ByteTicks /\ r.bit \in Nat /\ r.samp \in Nat
           /\ r.bit <= StopBit /\ r.samp + 1 <= BitTicks
           /\ Age(r) + 1 = ByteTicks => r.bit = StopBit /\ r.samp = BitTicks - 1
<1>1. /\ BitTicks \in Nat /\ StopBit \in Nat /\ ByteTicks = StopBit * BitTicks + BitTicks
      /\ StopBit * BitTicks \in Nat /\ BitTicks >= 4
  BY BitNumbers
<1>2. r.bit \in Nat /\ r.bit <= StopBit /\ r.samp \in Nat /\ r.samp + 1 <= BitTicks
  BY <1>1 DEF RxRecord
<1>3. /\ r.bit * BitTicks \in Nat
      /\ (r.bit < StopBit => r.bit * BitTicks + BitTicks <= StopBit * BitTicks)
  BY <1>1, <1>2, BitProduct, CellLater
<1>4. Age(r) = r.bit * BitTicks + r.samp
  BY DEF Age
<1>5. CASE r.bit = StopBit
  BY <1>1, <1>2, <1>3, <1>4, <1>5
<1>6. CASE r.bit < StopBit
  BY <1>1, <1>2, <1>3, <1>4, <1>6
<1> QED BY <1>1, <1>2, <1>5, <1>6

\* What a sample of a byte costs is in proportion to the byte's age.
LEMMA CostGrows ==
    ASSUME Margins, front \in Fronts, NEW n \in Nat, n + 1 <= ByteTicks
    PROVE  /\ n * ByteCost(front) \in Nat
           /\ (n + 1) * ByteCost(front) = n * ByteCost(front) + ByteCost(front)
           /\ Begun + (n + 1) * ByteCost(front) <= Worst
           /\ Begun \in Nat /\ Worst \in Nat /\ ByteCost(front) \in Nat
<1>1. PICK c, t \in Nat : c = ByteCost(front) /\ t = ByteTicks
  BY Costs
<1>2. n * c \in Nat /\ (n + 1) * c = n * c + c /\ t * c \in Nat
  BY <1>1
<1>3. PICK m \in Nat : t = n + 1 + m
  <2>1. t - n - 1 \in Nat /\ t = n + 1 + (t - n - 1)
    BY <1>1
  <2> QED BY <2>1
<1>4. t * c = (n + 1) * c + m * c /\ m * c \in Nat /\ (n + 1) * c \in Nat
  BY <1>1, <1>3
<1>5. /\ Worst = RestLag(front) + FrameCost(front) /\ Begun = RestLag(front) + 2 * IdleCost(front)
      /\ FrameCost(front) = 2 * IdleCost(front) + t * c
      /\ RestLag(front) \in Nat /\ IdleCost(front) \in Nat /\ Begun \in Nat /\ Worst \in Nat
  BY <1>1, Costs
<1>6. Begun + (n + 1) * c <= Worst
  BY <1>4, <1>5
<1> QED BY <1>1, <1>2, <1>5, <1>6

\* A byte in the margins lags no more than the worst case; a whole one is back within
\* what the next may begin with.
LEMMA LagInMargins ==
    ASSUME Margins, front \in Fronts, NEW r \in RxRecord, NEW x \in Nat, LagInByte(r, x)
    PROVE  /\ x <= Worst
           /\ r.bit = StopBit /\ r.samp = BitTicks - 1 => x + ByteCost(front) <= RestLag(front)
           /\ \A y \in Nat : (y <= x + ByteCost(front) /\ (r.bit = StopBit /\ r.samp >= 2 /\ r.samp # BitTicks - 1 => y <= x)) => y <= Worst
<1>1. PICK n \in Nat : n = Age(r) /\ n + 1 <= ByteTicks
  BY AgeBounds
<1>2. /\ n * ByteCost(front) \in Nat
      /\ (n + 1) * ByteCost(front) = n * ByteCost(front) + ByteCost(front)
      /\ Begun + (n + 1) * ByteCost(front) <= Worst
      /\ Begun \in Nat /\ Worst \in Nat /\ ByteCost(front) \in Nat
  BY <1>1, CostGrows
<1>3. PICK b, w, c, g, f, i, nc \in Nat :
         /\ b = Begun /\ w = Worst /\ c = ByteCost(front) /\ g = RestLag(front) /\ f = FrameCost(front)
         /\ i = IdleCost(front) /\ nc = n * c
  BY <1>2, Costs
<1>4. b + nc + c <= w
  BY <1>2, <1>3
<1>5. w = g + f /\ g = 2 * f + 3 * c + 3
  BY <1>3, Costs
<1>6. r.samp \in Nat /\ BitTicks \in Nat /\ BitTicks >= 4
  BY AgeBounds, BitNumbers
<1>7. CASE r.bit = StopBit /\ r.samp >= 3
  <2>1. 16 * x <= 9 * w + 21
    BY <1>3, <1>7 DEF LagInByte
  <2>2. x <= w /\ x + c <= g
    BY <1>5, <2>1
  <2> QED BY <1>3, <1>5, <2>2
<1>8. CASE r.bit = StopBit /\ r.samp = 2
  <2>1. 4 * x <= 3 * w + 3
    BY <1>3, <1>8 DEF LagInByte
  <2>2. x <= w /\ r.samp # BitTicks - 1
    BY <1>5, <1>6, <1>8, <2>1
  <2> QED BY <1>3, <1>8, <2>2
<1>9. CASE ~(r.bit = StopBit /\ r.samp >= 2)
  <2>1. x <= b + nc
    <3>1. ~(r.bit = StopBit /\ r.samp >= 3) /\ ~(r.bit = StopBit /\ r.samp = 2)
      BY <1>6, <1>9
    <3>2. x <= Begun + Age(r) * ByteCost(front)
      BY <3>1 DEF LagInByte
    <3> QED BY <1>1, <1>3, <3>2
  <2>2. x <= w /\ ~(r.bit = StopBit /\ r.samp = BitTicks - 1)
    BY <1>4, <1>6, <1>9, <2>1
  <2> QED BY <1>3, <1>4, <1>9, <2>1, <2>2
<1> QED BY <1>6, <1>7, <1>8, <1>9

LEMMA LagGoesOn ==
    ASSUME Margins, front \in Fronts, NEW r \in RxRecord, NEW n \in RxRecord, NEW x \in Nat, NEW y \in Nat,
           LagInByte(r, x), y <= x + ByteCost(front),
           r.bit = StopBit /\ r.samp >= 1 => y <= x /\ 4 * y <= 3 * x + 3,
           Age(n) = Age(r) + 1,
           (n.bit = r.bit /\ n.samp = r.samp + 1) \/ (n.bit = r.bit + 1 /\ n.samp = 0)
    PROVE  LagInByte(n, y)
<1>1. PICK a \in Nat : a = Age(r) /\ a + 1 <= ByteTicks /\ Age(n) = a + 1
  BY AgeBounds
<1>2. /\ a * ByteCost(front) \in Nat
      /\ (a + 1) * ByteCost(front) = a * ByteCost(front) + ByteCost(front)
      /\ Begun \in Nat /\ Worst \in Nat /\ ByteCost(front) \in Nat
  BY <1>1, CostGrows
<1>3. PICK b, w, c, ac \in Nat : b = Begun /\ w = Worst /\ c = ByteCost(front) /\ ac = a * c
  BY <1>2
<1>4. x <= w
  BY <1>3, LagInMargins
<1>5. r.samp \in Nat /\ n.samp \in Nat
  BY AgeBounds
<1>6. y <= x + c
  BY <1>3
<1>7. CASE n.bit = StopBit /\ n.samp >= 2
  <2>1. r.bit = StopBit /\ n.samp = r.samp + 1 /\ r.samp >= 1
    BY <1>5, <1>7
  <2>2. y <= x /\ 4 * y <= 3 * x + 3
    BY <2>1
  <2>3. CASE n.samp = 2
    <3>1. 4 * y <= 3 * w + 3
      BY <1>4, <2>2
    <3> QED BY <1>3, <1>7, <2>3, <3>1 DEF LagInByte
  <2>4. CASE n.samp = 3
    <3>1. 4 * x <= 3 * w + 3
      BY <1>3, <1>5, <2>1, <2>4 DEF LagInByte
    <3>2. 16 * y <= 9 * w + 21
      BY <2>2, <3>1
    <3> QED BY <1>3, <1>7, <2>4, <3>2 DEF LagInByte
  <2>5. CASE n.samp > 3
    <3>1. 16 * x <= 9 * w + 21
      BY <1>3, <1>5, <2>1, <2>5 DEF LagInByte
    <3>2. 16 * y <= 9 * w + 21 /\ n.samp >= 3
      BY <1>5, <2>2, <2>5, <3>1
    <3> QED BY <1>3, <1>7, <3>2 DEF LagInByte
  <2> QED BY <1>5, <1>7, <2>3, <2>4, <2>5
<1>8. CASE ~(n.bit = StopBit /\ n.samp >= 2)
  <2>1. ~(r.bit = StopBit /\ r.samp >= 2)
    <3>1. r.bit \in Nat /\ n.bit \in Nat /\ StopBit \in Nat /\ n.bit <= StopBit
      BY AgeBounds, BitNumbers
    <3> QED BY <1>5, <1>8, <3>1
  <2>2. x <= b + ac
    <3>1. ~(r.bit = StopBit /\ r.samp >= 3) /\ ~(r.bit = StopBit /\ r.samp = 2)
      BY <1>5, <2>1
    <3>2. x <= Begun + Age(r) * ByteCost(front)
      BY <3>1 DEF LagInByte
    <3> QED BY <1>1, <1>3, <3>2
  <2>3. y <= b + (ac + c)
    BY <1>6, <2>2
  <2>4. y <= Begun + Age(n) * ByteCost(front)
    BY <1>1, <1>2, <1>3, <2>3
  <2>5. ~(n.bit = StopBit /\ n.samp >= 3) /\ ~(n.bit = StopBit /\ n.samp = 2)
    BY <1>5, <1>8
  <2> QED BY <2>4, <2>5 DEF LagInByte
<1> QED BY <1>7, <1>8

-----------------------------------------------------------------------------
(* The parts of the invariant, in the state after a step                   *)

Later == IF due' THEN 0 ELSE 1

LEMMA ToLevels ==
    ASSUME front' = front
    PROVE  /\ Lag(env)' = Lag(env') /\ (WithinLevels(env)' <=> WithinLevels(env'))
           /\ (TooWeak(front)' <=> TooWeak(front)) /\ Now' = Later
<1>1. Lag(env)' = Lag(env')
  BY DEF Lag, Scale, Esp32
<1>2. WithinLevels(env)' <=> WithinLevels(env')
  BY DEF WithinLevels, Scale, Esp32
<1>3. TooWeak(front)' <=> TooWeak(front)
  BY DEF TooWeak
<1>4. Now' = Later
  BY DEF Now, Later
<1> QED BY <1>1, <1>2, <1>3, <1>4

LEMMA ToRests ==
    ASSUME front' = front, ~rx'.on, rx'.armed, owed' = <<>>, Lag(env') <= RestLag(front),
           sender'.on => sender'.phase + Later >= ByteTicks
    PROVE  Rests'
BY ToLevels DEF Rests

LEMMA ToFirstSample ==
    ASSUME front' = front, due', ~rx'.on, rx'.armed, Lag(env') <= RestLag(front),
           sender'.on, owed' = <<sender'.data>>, sender'.phase = 0
    PROVE  FirstSample'
BY ToLevels DEF FirstSample

LEMMA ToSlowEdge ==
    ASSUME front' = front, front.lag > 0, ~rx'.on, rx'.armed, Lag(env') <= RestLag(front) + IdleCost(front),
           sender'.on, owed' = <<sender'.data>>, sender'.phase + Later = 1
    PROVE  SlowEdge'
BY ToLevels DEF SlowEdge

LEMMA ToByteOf ==
    ASSUME front' = front
    PROVE  \A d, a : ByteOf(rx', d, a) => ByteOf(rx, d, a)'
<1> TAKE d, a
<1> SUFFICES ASSUME ByteOf(rx', d, a) PROVE ByteOf(rx, d, a)'
  OBVIOUS
<1>1. BitSoFar(rx, d, a)'
  BY DEF ByteOf, BitSoFar, Nrz, Esp32
<1>2. ContrastSoFar(rx, a)'
  BY DEF ByteOf, ContrastSoFar
<1> QED BY <1>1, <1>2 DEF ByteOf

LEMMA ToReads ==
    ASSUME front' = front, NEW a, ByteOf(rx', sender'.data, a), LagInByte(rx', Lag(env')),
           sender'.on, owed' = <<sender'.data>>, sender'.phase + Later = Age(rx') + a, Age(rx') >= 1
    PROVE  Reads(a)'
<1>1. LagInByte(rx, Lag(env))'
  BY ToLevels DEF LagInByte, Worst, Begun
<1>2. ByteOf(rx, sender.data, a)'
  BY ToByteOf
<1>3. Age(rx)' = Age(rx')
  BY DEF Age
<1> QED BY <1>1, <1>2, <1>3, ToLevels DEF Reads

-----------------------------------------------------------------------------
(* A sample within the margins                                             *)

LEMMA LagTyped ==
    ASSUME Margins, IInv
    PROVE  Lag(env) \in Int
<1>1. front \in Fronts
  BY DEF IInv
<1>2. front.dark * Scale \in Int
  BY <1>1, Costs
<1>3. env.hi \in Int
  BY <1>1, Board DEF IInv, Levels
<1> QED BY <1>2, <1>3 DEF Lag

LEMMA NewLevels ==
    ASSUME Margins, IInv, LineInv, ProcessSample, ~TooWeak(front), WithinLevels(env), Lag(env) <= Worst
    PROVE  /\ env' \in [hi : Levels, lo : Levels] /\ WithinLevels(env') /\ (~Esp32 => env'.lo <= env'.hi)
           /\ Lag(env) \in Nat /\ Lag(env') \in Nat
           /\ rx.on => Lag(env') <= Lag(env) + ByteCost(front)
           /\ ~rx.on => Lag(env') <= Lag(env) + IdleCost(front)
           /\ Sample = front.dark => /\ Lag(env') <= Lag(env)
                                     /\ rx.on => 4 * Lag(env') <= 3 * Lag(env) + 3
           /\ Sample \in Counts /\ Sample \in Int /\ front.light <= Sample /\ Sample <= front.dark
           /\ rx' \in RxRecord /\ line' \in BOOLEAN /\ line' = IsLight(env', Sample) /\ front' = front /\ ~due'
<1>1. front \in Fronts /\ env \in [hi : Levels, lo : Levels] /\ (~Esp32 => env.lo <= env.hi)
  BY DEF IInv
<1>2. ambient = 0
  BY DEF LineInv
<1>3. Sample \in Counts /\ Sample \in Int /\ front.light <= Sample /\ Sample <= front.dark
  BY <1>1, <1>2, SampleLevels
<1>4. env.hi >= front.light * Scale
  BY <1>1, Verdicts
<1>5. env' = Slicer(env, Sample) /\ front' = front /\ line' = IsLight(env', Sample) /\ ~due'
  BY DEF ProcessSample
<1>6. /\ WithinLevels(env') /\ Lag(env') \in Nat
      /\ rx.on => Lag(env') <= Lag(env) + ByteCost(front)
      /\ ~rx.on => Lag(env') <= Lag(env) + IdleCost(front)
      /\ Sample = front.dark => /\ Lag(env') <= Lag(env)
                                /\ rx.on => 4 * Lag(env') <= 3 * Lag(env) + 3
  BY <1>1, <1>3, <1>4, <1>5, SlicerMoves
<1>7. env' \in [hi : Levels, lo : Levels] /\ (~Esp32 => env'.lo <= env'.hi)
  BY <1>1, <1>3, <1>5, SlicerOK
<1>8. IInv'
  BY SampleOK
<1>9. rx' \in RxRecord /\ line' \in BOOLEAN
  BY <1>5, <1>8 DEF IInv, RxRecord, Counts
<1>10. Lag(env) \in Nat
  <2>1. PICK top, hi \in Int : top = front.dark * Scale /\ hi = env.hi
    BY <1>1, Costs, Board DEF Levels
  <2>2. Lag(env) = top - hi /\ hi <= top
    BY <2>1 DEF Lag, WithinLevels
  <2> QED BY <2>2
<1> QED BY <1>3, <1>5, <1>6, <1>7, <1>9, <1>10

LEMMA Apart ==
    ASSUME Margins, front \in Fronts, ~TooWeak(front), NEW e \in [hi : Levels, lo : Levels], WithinLevels(e),
           Lag(e) <= Worst, ~Esp32 => e.lo <= e.hi
    PROVE  TellsApart(e)
BY Verdicts DEF TellsApart

\* No pulse: the receiver goes on waiting.
LEMMA StaysIdle ==
    ASSUME ProcessSample, ~rx.on, rx.armed, ~RealPulse(env', Sample)
    PROVE  ~rx'.on /\ rx'.armed /\ owed' = owed /\ wrong' = wrong
<1>1. IdleDark(env', Sample)
  BY DEF ProcessSample, IdleUnsettled, BeginByte
<1>2. PICK n, b : rx' = Idle(b, n) /\ b = (rx.armed \/ n >= ArmSamples)
  BY <1>1 DEF IdleDark
<1>3. b = TRUE
  BY <1>2, Zenon
<1>4. owed' = owed /\ wrong' = wrong
  BY <1>1 DEF IdleDark, Dropped
<1> QED BY <1>2, <1>3, <1>4 DEF Idle

\* A pulse: the byte on the air begins, a samples after its edge.
LEMMA StartsByte ==
    ASSUME Margins, IInv, LineInv, ProcessSample, ~TooWeak(front), WithinLevels(env), Lag(env) <= Worst,
           ~rx.on, rx.armed, RealPulse(env', Sample), Lag(env') <= Begun,
           sender.on, owed = <<sender.data>>, NEW a \in {0, 1}, sender.phase = a, a = 1 => front.lag > 0
    PROVE  Reads(a)' /\ wrong' = wrong
<1> DEFINE d == sender.data
           lit == line'
           e == env'
           adc == Sample
           r == Begin(Sample, line')
<1>1. front \in Fronts /\ sender \in SenderRecord /\ d \in SUBSET Bits /\ ambient = 0 /\ stray = 0
  BY DEF IInv, LineInv, SenderRecord
<1>2. /\ e \in [hi : Levels, lo : Levels] /\ WithinLevels(e) /\ (~Esp32 => e.lo <= e.hi)
      /\ Lag(e) \in Nat /\ adc \in Counts /\ adc \in Int /\ front.light <= adc /\ adc <= front.dark
      /\ rx' \in RxRecord /\ lit \in BOOLEAN /\ lit = IsLight(e, adc) /\ front' = front /\ ~due'
  BY NewLevels
<1>3. Lag(e) <= Worst /\ Begun \in Nat /\ ByteCost(front) \in Nat
  BY <1>1, <1>2, Costs
<1>4. TellsApart(e)
  BY <1>1, <1>2, <1>3, Apart
<1>5. /\ BitTicks \in Nat /\ BitTicks >= 4 /\ StopBit \in Nat /\ StopBit > 0 /\ SamplePoint \in Nat
      /\ ByteTicks = StopBit * BitTicks + BitTicks /\ StopBit * BitTicks \in Nat
  BY BitNumbers
<1>6. InByte(r, e, adc, lit)
  BY DEF ProcessSample, IdleDark, IdleUnsettled, BeginByte
<1>7. r \in RxRecord /\ RunBounded(r) /\ r.on
  BY <1>1, <1>2, BeginOK
<1>8. r.bit = 0 /\ r.samp = 0 /\ r.data = {}
  BY DEF Begin, Idle
<1>9. 0 \in ZerosOf(d) /\ \A k \in d : ~(k < 0)
  BY <1>1, ZerosTyped, BitNumbers DEF Bits
<1> HIDE DEF r, d, e, adc, lit
<1>10. ByteOf(r, d, a)
  <2>1. r.data = {k \in d : k < r.bit}
    BY <1>8, <1>9
  <2>2. BitSoFar(r, d, a)
    BY <1>5, <1>8, <1>9 DEF BitSoFar
  <2>3. ContrastSoFar(r, a)
    BY <1>5, <1>8 DEF ContrastSoFar
  <2> QED BY <1>7, <2>1, <2>2, <2>3 DEF ByteOf
<1>11. SampleFits(r, d, a, adc)
  <2>1. 0 \in 0 .. StopBit /\ a \in 0 .. BitTicks - 1 /\ sender.phase = 0 * BitTicks + a
    BY <1>5
  <2>2. 0 \in ZerosOf(sender.data) /\ ((Nrz /\ a >= 1) \/ a = 1) => Sample = front.light
    BY <1>1, <2>1, SampleAt
  <2>3. r.samp + a = a
    BY <1>8
  <2> QED BY <1>2, <1>8, <1>9, <2>2, <2>3 DEF SampleFits, d, adc
<1>12. ByteGoesOn(d, r, a) \/ ByteEnds(d, r)
  BY <1>1, <1>2, <1>4, <1>6, <1>7, <1>10, <1>11, ByteSample
<1>13. Age(r) = 0
  BY <1>5, <1>8 DEF Age
<1>14. ~ByteEnds(d, r)
  <2>1. ByteTicks - 1 # 0
    BY <1>5
  <2> QED BY <1>13, <2>1 DEF ByteEnds
<1>15. /\ ByteOf(rx', d, a) /\ Age(rx') = 1 /\ Dropped
       /\ rx'.bit \in {0, 1} /\ rx'.samp \in {0, 1}
  BY <1>8, <1>12, <1>13, <1>14 DEF ByteGoesOn
<1>16. LagInByte(rx', Lag(e))
  <2>1. Lag(e) <= Begun + 1 * ByteCost(front)
    BY <1>2, <1>3 DEF e
  <2> QED BY <1>15, <2>1 DEF LagInByte
<1>17. owed' = <<sender'.data>> /\ sender' = sender /\ wrong' = wrong
  BY <1>15 DEF Dropped, ProcessSample, airVars
<1>18. sender'.phase + Later = Age(rx') + a
  BY <1>2, <1>15, <1>17 DEF Later
<1> QED BY <1>2, <1>15, <1>16, <1>17, <1>18, ToReads DEF d, e

\* Between two bytes a sample is dark and begins nothing.
LEMMA RestsSampled ==
    ASSUME Margins, IInv, LineInv, ~TooWeak(front), WithinLevels(env), Rests, ProcessSample
    PROVE  ~wrong' /\ WithinLevels(env') /\ Rests'
<1>1. /\ front \in Fronts /\ sender \in SenderRecord /\ ambient = 0 /\ stray = 0
      /\ ~sender.on => sender = Silence
  BY DEF IInv, LineInv
<1>2. due /\ sender' = sender
  BY DEF ProcessSample, airVars
<1>3. /\ Lag(env) <= RestLag(front) /\ ~rx.on /\ rx.armed /\ owed = <<>>
      /\ sender.on => sender.phase + 0 >= ByteTicks
  BY <1>2 DEF Rests, Now
<1>4. RestLag(front) \in Nat /\ FrameCost(front) \in Nat /\ Worst = RestLag(front) + FrameCost(front) /\ ByteTicks \in Nat
  BY <1>1, Costs
<1>5. sender.on => sender.phase \in Nat /\ sender.phase >= ByteTicks /\ sender.phase + 1 >= ByteTicks
  <2>1. sender.phase \in Nat
    BY <1>1 DEF SenderRecord
  <2> QED BY <1>3, <1>4, <2>1
<1>6. Sample = front.dark
  BY <1>1, <1>5, SampleDark
<1>7. Lag(env) <= Worst
  <2>1. Lag(env) \in Int
    BY LagTyped
  <2> QED BY <1>3, <1>4, <2>1
<1>8. /\ env' \in [hi : Levels, lo : Levels] /\ WithinLevels(env') /\ (~Esp32 => env'.lo <= env'.hi)
      /\ Lag(env') <= Lag(env) /\ Lag(env) \in Nat /\ Lag(env') \in Nat /\ front' = front /\ ~due'
  BY <1>6, <1>7, NewLevels
<1>9. Lag(env') <= RestLag(front) /\ Lag(env') <= Worst
  BY <1>3, <1>4, <1>7, <1>8
<1>10. TellsApart(env')
  BY <1>1, <1>8, <1>9, Apart
<1>11. ~rx'.on /\ rx'.armed /\ owed' = owed /\ ~wrong'
  BY <1>3, <1>6, <1>10, StaysIdle DEF TellsApart, LineInv
<1>12. sender'.on => sender'.phase + Later >= ByteTicks
  BY <1>2, <1>5, <1>8 DEF Later
<1> QED BY <1>3, <1>8, <1>9, <1>11, <1>12, ToRests

\* The first sample of a byte begins it, or is on a slow edge.
LEMMA FirstSampled ==
    ASSUME Margins, IInv, LineInv, ~TooWeak(front), WithinLevels(env), FirstSample, ProcessSample
    PROVE  ~wrong' /\ WithinLevels(env') /\ (Reads(0)' \/ SlowEdge')
<1>1. front \in Fronts /\ sender \in SenderRecord /\ ambient = 0 /\ stray = 0 /\ front.lag \in 0 .. 2
  BY FrontNumbers DEF IInv, LineInv
<1>2. sender' = sender
  BY DEF ProcessSample, airVars
<1>3. /\ Lag(env) <= RestLag(front) /\ ~rx.on /\ rx.armed
      /\ sender.on /\ owed = <<sender.data>> /\ sender.phase = 0
  BY DEF FirstSample
<1>4. PICK g, f, i \in Nat : /\ g = RestLag(front) /\ f = FrameCost(front) /\ i = IdleCost(front)
                             /\ Worst = g + f /\ Begun = g + 2 * i /\ f >= 2 * i
  <2>1. ByteTicks * ByteCost(front) \in Nat /\ IdleCost(front) \in Nat
        /\ FrameCost(front) = 2 * IdleCost(front) + ByteTicks * ByteCost(front)
    BY <1>1, Costs
  <2>2. FrameCost(front) >= 2 * IdleCost(front)
    BY <2>1
  <2> QED BY <1>1, <2>1, <2>2, Costs
<1>5. Lag(env) <= Worst
  <2>1. Lag(env) \in Int
    BY LagTyped
  <2> QED BY <1>3, <1>4, <2>1
<1>6. /\ env' \in [hi : Levels, lo : Levels] /\ WithinLevels(env') /\ (~Esp32 => env'.lo <= env'.hi)
      /\ Lag(env) \in Nat /\ Lag(env') \in Nat /\ Lag(env') <= Lag(env) + IdleCost(front)
      /\ front' = front /\ ~due'
  BY <1>3, <1>5, NewLevels
<1>7. Lag(env') <= RestLag(front) + IdleCost(front) /\ Lag(env') <= Begun /\ Lag(env') <= Worst
  BY <1>3, <1>4, <1>6
<1>8. TellsApart(env')
  BY <1>1, <1>6, <1>7, Apart
<1>9. CASE RealPulse(env', Sample)
  <2>1. 0 \in {0, 1} /\ (0 = 1 => front.lag > 0)
    OBVIOUS
  <2> QED BY <1>3, <1>5, <1>6, <1>7, <1>9, <2>1, StartsByte DEF LineInv
<1>10. CASE ~RealPulse(env', Sample)
  <2>1. ~rx'.on /\ rx'.armed /\ owed' = owed /\ ~wrong'
    BY <1>3, <1>10, StaysIdle DEF LineInv
  <2>2. front.lag > 0
    <3>1. Sample # front.light
      BY <1>8, <1>10 DEF TellsApart
    <3>2. 0 \in 0 .. StopBit /\ 0 \in 0 .. BitTicks - 1 /\ sender.phase = 0 * BitTicks + 0 /\ 0 < Pulse
      BY <1>3, BitNumbers
    <3>3. front.lag = 0 => Sample = IF Nrz \/ 0 < Pulse THEN front.light ELSE front.dark
      BY <1>1, <1>3, <3>2, SampleAt
    <3> QED BY <1>1, <3>1, <3>2, <3>3
  <2>3. sender'.phase + Later = 1
    BY <1>2, <1>3, <1>6 DEF Later
  <2> QED BY <1>2, <1>3, <1>6, <1>7, <2>1, <2>2, <2>3, ToSlowEdge
<1> QED BY <1>9, <1>10

\* The sample after a slow edge begins the byte.
LEMMA SecondSampled ==
    ASSUME Margins, IInv, LineInv, ~TooWeak(front), WithinLevels(env), SlowEdge, ProcessSample
    PROVE  ~wrong' /\ WithinLevels(env') /\ Reads(1)'
<1>1. front \in Fronts /\ sender \in SenderRecord /\ ambient = 0 /\ stray = 0
  BY DEF IInv, LineInv
<1>2. due /\ sender.phase \in Nat
  BY <1>1 DEF ProcessSample, SenderRecord
<1>3. /\ Lag(env) <= RestLag(front) + IdleCost(front) /\ ~rx.on /\ rx.armed /\ front.lag > 0
      /\ sender.on /\ owed = <<sender.data>> /\ sender.phase = 1
  BY <1>2 DEF SlowEdge, Now
<1>4. PICK g, f, i \in Nat : /\ g = RestLag(front) /\ f = FrameCost(front) /\ i = IdleCost(front)
                             /\ Worst = g + f /\ Begun = g + 2 * i /\ f >= 2 * i
  <2>1. ByteTicks * ByteCost(front) \in Nat /\ IdleCost(front) \in Nat
        /\ FrameCost(front) = 2 * IdleCost(front) + ByteTicks * ByteCost(front)
    BY <1>1, Costs
  <2>2. FrameCost(front) >= 2 * IdleCost(front)
    BY <2>1
  <2> QED BY <1>1, <2>1, <2>2, Costs
<1>5. Lag(env) <= Worst
  <2>1. Lag(env) \in Int
    BY LagTyped
  <2> QED BY <1>3, <1>4, <2>1
<1>6. /\ env' \in [hi : Levels, lo : Levels] /\ WithinLevels(env') /\ (~Esp32 => env'.lo <= env'.hi)
      /\ Lag(env) \in Nat /\ Lag(env') \in Nat /\ Lag(env') <= Lag(env) + IdleCost(front)
  BY <1>3, <1>5, NewLevels
<1>7. Lag(env') <= Begun /\ Lag(env') <= Worst
  BY <1>3, <1>4, <1>6
<1>8. TellsApart(env')
  BY <1>1, <1>6, <1>7, Apart
<1>9. Sample = front.light
  <2>1. 0 \in 0 .. StopBit /\ 1 \in 0 .. BitTicks - 1 /\ sender.phase = 0 * BitTicks + 1
    BY <1>3, BitNumbers
  <2>2. 0 \in ZerosOf(sender.data) /\ ((Nrz /\ 1 >= 1) \/ 1 = 1) => Sample = front.light
    BY <1>1, <1>3, <2>1, SampleAt
  <2> QED BY <2>2 DEF ZerosOf
<1>10. RealPulse(env', Sample)
  BY <1>8, <1>9 DEF TellsApart
<1>11. 1 \in {0, 1}
  OBVIOUS
<1> QED BY <1>3, <1>5, <1>6, <1>7, <1>10, <1>11, StartsByte DEF LineInv

\* A sample of the byte: it goes on, or the byte is whole and it is the one that was sent.
LEMMA ByteSampled ==
    ASSUME Margins, IInv, LineInv, ~TooWeak(front), WithinLevels(env), ProcessSample,
           NEW d \in SUBSET Bits, NEW a, ByteOf(rx, d, a), LagInByte(rx, Lag(env)), SampleFits(rx, d, a, Sample),
           rx.bit = StopBit /\ rx.samp >= 1 /\ rx.samp + a < BitTicks => Sample = front.dark
    PROVE  /\ WithinLevels(env') /\ front' = front /\ sender' = sender /\ ~due' /\ Lag(env') \in Nat
           /\ \/ ByteGoesOn(d, rx, a) /\ LagInByte(rx', Lag(env')) /\ rx' \in RxRecord
              \/ ByteEnds(d, rx) /\ Lag(env') <= RestLag(front)
<1>1. front \in Fronts /\ rx \in RxRecord /\ RunBounded(rx)
  BY DEF IInv
<1>2. rx.on /\ a \in {0, 1}
  BY DEF ByteOf
<1>3. sender' = sender
  BY DEF ProcessSample, airVars
<1>4. InByte(rx, env', Sample, line')
  BY <1>2 DEF ProcessSample, IdleDark, IdleUnsettled, BeginByte
<1>5. Lag(env) \in Int
  BY LagTyped
<1>6. Lag(env) \in Nat
  <2>1. env \in [hi : Levels, lo : Levels]
    BY DEF IInv
  <2>2. env.hi <= front.dark * Scale /\ front.dark * Scale \in Int /\ env.hi \in Int
    BY <1>1, <2>1, Costs, Board DEF Levels, WithinLevels
  <2>3. front.dark * Scale - env.hi >= 0
    BY <2>2
  <2> QED BY <1>5, <2>3 DEF Lag
<1>7. Lag(env) <= Worst
  BY <1>1, <1>6, LagInMargins
<1>8. /\ env' \in [hi : Levels, lo : Levels] /\ WithinLevels(env') /\ (~Esp32 => env'.lo <= env'.hi)
      /\ Lag(env') \in Nat /\ Lag(env') <= Lag(env) + ByteCost(front)
      /\ Sample = front.dark => Lag(env') <= Lag(env) /\ 4 * Lag(env') <= 3 * Lag(env) + 3
      /\ rx' \in RxRecord /\ line' \in BOOLEAN /\ line' = IsLight(env', Sample) /\ front' = front /\ ~due'
  BY <1>2, <1>7, NewLevels
<1>9. /\ rx.samp \in Nat /\ rx.samp + 1 <= BitTicks /\ BitTicks \in Nat /\ BitTicks >= 4
      /\ StopBit \in Nat /\ rx.bit \in Nat
  BY <1>1, AgeBounds, BitNumbers
<1>10. Lag(env') <= Worst
  <2>1. rx.bit = StopBit /\ rx.samp >= 2 /\ rx.samp # BitTicks - 1 => Lag(env') <= Lag(env)
    BY <1>2, <1>8, <1>9
  <2> QED BY <1>1, <1>6, <1>8, <2>1, LagInMargins
<1>11. TellsApart(env')
  BY <1>1, <1>8, <1>10, Apart
<1>12. ByteGoesOn(d, rx, a) \/ ByteEnds(d, rx)
  BY <1>1, <1>4, <1>8, <1>11, ByteSample
<1>13. ASSUME ByteGoesOn(d, rx, a) PROVE LagInByte(rx', Lag(env'))
  <2>1. /\ Age(rx') = Age(rx) + 1
        /\ (rx'.bit = rx.bit /\ rx'.samp = rx.samp + 1) \/ (rx'.bit = rx.bit + 1 /\ rx'.samp = 0)
    BY <1>13 DEF ByteGoesOn
  <2>2. rx'.bit <= StopBit /\ rx'.samp + 1 <= BitTicks /\ rx'.bit \in Nat /\ rx'.samp \in Nat
    BY <1>8, AgeBounds
  <2>3. rx.bit = StopBit /\ rx.samp >= 1 => Lag(env') <= Lag(env) /\ 4 * Lag(env') <= 3 * Lag(env) + 3
    <3>1. rx.bit = StopBit => rx.samp + a < BitTicks
      BY <1>2, <1>9, <2>1, <2>2
    <3> QED BY <1>8, <3>1
  <2> QED BY <1>1, <1>6, <1>8, <2>1, <2>3, LagGoesOn
<1>14. ASSUME ByteEnds(d, rx) PROVE Lag(env') <= RestLag(front)
  <2>1. Age(rx) + 1 = ByteTicks
    <3>1. Age(rx) = ByteTicks - 1 /\ ByteTicks \in Nat
      BY <1>1, <1>14, Costs DEF ByteEnds
    <3> QED BY <3>1
  <2>2. rx.bit = StopBit /\ rx.samp = BitTicks - 1
    BY <1>1, <2>1, AgeBounds
  <2>3. Lag(env) + ByteCost(front) <= RestLag(front)
    BY <1>1, <1>6, <2>2, LagInMargins
  <2>4. RestLag(front) \in Nat /\ ByteCost(front) \in Nat
    BY <1>1, Costs
  <2> QED BY <1>6, <1>8, <2>3, <2>4
<1> QED BY <1>3, <1>8, <1>12, <1>13, <1>14

\* A sample of a byte that is on the air.
LEMMA ReadsSampled ==
    ASSUME Margins, IInv, LineInv, ~TooWeak(front), WithinLevels(env), NEW a, Reads(a), ProcessSample
    PROVE  ~wrong' /\ WithinLevels(env') /\ (Reads(a)' \/ Rests')
<1> DEFINE d == sender.data
<1>1. front \in Fronts /\ sender \in SenderRecord /\ d \in SUBSET Bits /\ ambient = 0 /\ stray = 0 /\ rx \in RxRecord
  BY DEF IInv, LineInv, SenderRecord
<1>2. due
  BY DEF ProcessSample
<1>3. /\ ByteOf(rx, d, a) /\ LagInByte(rx, Lag(env)) /\ sender.on /\ owed = <<d>>
      /\ sender.phase + 0 = Age(rx) + a /\ Age(rx) >= 1 /\ a \in {0, 1}
  BY <1>2 DEF Reads, Now, ByteOf
<1>4. /\ rx.samp \in Nat /\ rx.samp + 1 <= BitTicks /\ BitTicks \in Nat /\ BitTicks >= 4 /\ Age(rx) \in Nat
      /\ StopBit \in Nat /\ rx.bit \in Nat /\ rx.bit <= StopBit /\ sender.phase \in Nat /\ rx.bit * BitTicks \in Nat
  BY <1>1, AgeBounds, BitNumbers, BitProduct DEF SenderRecord
<1>5. sender.phase = rx.bit * BitTicks + (rx.samp + a)
  <2>1. Age(rx) = rx.bit * BitTicks + rx.samp
    BY DEF Age
  <2> QED BY <1>3, <1>4, <2>1
<1>6. /\ Sample \in Counts /\ Sample \in Int /\ front.light <= Sample /\ Sample <= front.dark
  BY <1>1, SampleLevels
<1>7. ASSUME rx.samp + a < BitTicks
      PROVE  /\ rx.bit \notin ZerosOf(d) /\ (rx.samp + a >= 1 \/ ~Nrz) => Sample = front.dark
             /\ rx.bit \in ZerosOf(d) /\ ((Nrz /\ rx.samp + a >= 1) \/ rx.samp + a = 1) => Sample = front.light
  <2>1. rx.bit \in 0 .. StopBit /\ rx.samp + a \in 0 .. BitTicks - 1
    BY <1>3, <1>4, <1>7
  <2> QED BY <1>1, <1>3, <1>5, <2>1, SampleAt
<1>8. SampleFits(rx, d, a, Sample)
  BY <1>6, <1>7 DEF SampleFits
<1>9. rx.bit = StopBit /\ rx.samp >= 1 /\ rx.samp + a < BitTicks => Sample = front.dark
  <2>1. StopBit \notin ZerosOf(d)
    BY <1>1, ZerosTyped
  <2>2. rx.samp >= 1 => rx.samp + a >= 1
    BY <1>3, <1>4
  <2> QED BY <1>7, <2>1, <2>2
<1>10. /\ WithinLevels(env') /\ front' = front /\ sender' = sender /\ ~due'
       /\ \/ ByteGoesOn(d, rx, a) /\ LagInByte(rx', Lag(env')) /\ rx' \in RxRecord
          \/ ByteEnds(d, rx) /\ Lag(env') <= RestLag(front)
  BY <1>1, <1>3, <1>8, <1>9, ByteSampled
<1>11. sender'.phase + Later = sender.phase + 1
  BY <1>10 DEF Later
<1>12. CASE ByteGoesOn(d, rx, a) /\ LagInByte(rx', Lag(env'))
  <2>1. ByteOf(rx', sender'.data, a) /\ Age(rx') = Age(rx) + 1 /\ owed' = owed /\ ~wrong'
    BY <1>10, <1>12 DEF ByteGoesOn, Dropped, LineInv
  <2>2. Age(rx') >= 1 /\ sender'.phase + Later = Age(rx') + a
    BY <1>3, <1>4, <1>11, <2>1
  <2> QED BY <1>3, <1>10, <1>12, <2>1, <2>2, ToReads
<1>13. CASE ByteEnds(d, rx) /\ Lag(env') <= RestLag(front)
  <2>1. rx' = Idle(TRUE, 0) /\ Received(d) /\ Age(rx) = ByteTicks - 1
    BY <1>13 DEF ByteEnds
  <2>2. ~rx'.on /\ rx'.armed
    BY <2>1 DEF Idle
  <2>3. owed' = <<>> /\ ~wrong'
    <3>1. owed # <<>> /\ Head(owed) = d /\ Tail(owed) = <<>>
      <4> HIDE DEF d
      <4> QED BY <1>3
    <3> QED BY <2>1, <3>1 DEF Received, LineInv
  <2>4. sender'.phase + Later >= ByteTicks
    <3>1. ByteTicks \in Nat
      BY BitNumbers
    <3> QED BY <1>3, <1>4, <1>11, <2>1, <3>1
  <2> QED BY <1>10, <1>13, <2>2, <2>3, <2>4, ToRests
<1> QED BY <1>10, <1>12, <1>13

\* The last sample of a byte that began late: the byte is whole, and the next one may
\* have begun under it.
LEMMA LastSampled ==
    ASSUME Margins, IInv, LineInv, ~TooWeak(front), WithinLevels(env), LastFalls, ProcessSample
    PROVE  ~wrong' /\ WithinLevels(env') /\ (SlowEdge' \/ Rests')
<1> DEFINE d == Head(owed)
<1>1. front \in Fronts /\ ambient = 0 /\ rx \in RxRecord
  BY DEF IInv, LineInv
<1>2. d \in SUBSET Bits
  <2> DEFINE S == SUBSET Bits
  <2>1. owed \in Seq(S) /\ owed # <<>>
    BY DEF IInv, LastFalls
  <2>2. Head(owed) \in S
    <3> HIDE DEF S
    <3> QED BY <2>1
  <2> QED BY <2>2
<1>3. /\ ByteOf(rx, d, 1) /\ LagInByte(rx, Lag(env)) /\ Age(rx) = ByteTicks - 1 /\ sender.phase = 0
      /\ owed = IF sender.on THEN <<d, sender.data>> ELSE <<d>>
  BY DEF LastFalls
<1> HIDE DEF d
<1>4. /\ rx.samp \in Nat /\ BitTicks \in Nat /\ BitTicks >= 4 /\ Age(rx) \in Nat /\ ByteTicks \in Nat
  BY <1>1, AgeBounds, BitNumbers
<1>5. ~(rx.samp + 1 < BitTicks)
  <2>1. Age(rx) + 1 = ByteTicks
    BY <1>3, <1>4
  <2>2. rx.samp = BitTicks - 1
    BY <1>1, <2>1, AgeBounds
  <2> QED BY <1>4, <2>2
<1>6. SampleFits(rx, d, 1, Sample)
  BY <1>1, <1>5, SampleLevels DEF SampleFits
<1>7. /\ WithinLevels(env') /\ front' = front /\ sender' = sender /\ ~due' /\ Lag(env') \in Nat
      /\ \/ ByteGoesOn(d, rx, 1) /\ LagInByte(rx', Lag(env')) /\ rx' \in RxRecord
         \/ ByteEnds(d, rx) /\ Lag(env') <= RestLag(front)
  BY <1>2, <1>3, <1>5, <1>6, ByteSampled
<1>8. ByteEnds(d, rx) /\ Lag(env') <= RestLag(front)
  <2>1. ASSUME ByteGoesOn(d, rx, 1), rx' \in RxRecord PROVE FALSE
    <3>1. Age(rx') = Age(rx) + 1
      BY <2>1 DEF ByteGoesOn
    <3>2. Age(rx') + 1 <= ByteTicks
      BY <2>1, AgeBounds
    <3> QED BY <1>3, <1>4, <3>1, <3>2
  <2> QED BY <1>7, <2>1
<1>9. rx' = Idle(TRUE, 0) /\ Received(d)
  BY <1>8 DEF ByteEnds
<1>10. ~rx'.on /\ rx'.armed
  BY <1>9 DEF Idle
<1>11. ~wrong' /\ owed' = IF sender.on THEN <<sender.data>> ELSE <<>>
  <2>1. owed # <<>> /\ Head(owed) = d /\ Tail(owed) = IF sender.on THEN <<sender.data>> ELSE <<>>
    BY <1>3
  <2> QED BY <1>9, <2>1 DEF Received, LineInv
<1>12. front.lag > 0
  BY <1>3 DEF ByteOf
<1>13. CASE sender.on
  <2>1. sender'.phase + Later = 1
    BY <1>3, <1>7 DEF Later
  <2>2. Lag(env') <= RestLag(front) + IdleCost(front)
    <3>1. RestLag(front) \in Nat /\ IdleCost(front) \in Nat
      BY <1>1, Costs
    <3> QED BY <1>7, <1>8, <3>1
  <2> QED BY <1>7, <1>10, <1>11, <1>12, <1>13, <2>1, <2>2, ToSlowEdge
<1>14. CASE ~sender.on
  BY <1>7, <1>8, <1>10, <1>11, <1>14, ToRests
<1> QED BY <1>7, <1>13, <1>14

\* Light below the squelch is no pulse, as the dark envelope stays at most at the dark level.
LEMMA WeakSampled ==
    ASSUME Margins, IInv, LineInv, TooWeak(front), WeakInv, ProcessSample
    PROVE  ~wrong' /\ WeakInv'
<1>1. /\ front \in Fronts /\ ambient = 0 /\ env \in [hi : Levels, lo : Levels] /\ (~Esp32 => env.lo <= env.hi)
      /\ ~rx.on /\ Len(owed) = sent /\ env.hi <= front.dark * Scale /\ ~wrong
  BY DEF IInv, LineInv, WeakInv
<1>2. Sample \in Counts /\ Sample \in Int /\ front.light <= Sample /\ Sample <= front.dark
  BY <1>1, SampleLevels
<1>3. env' = Slicer(env, Sample) /\ front' = front /\ sent' = sent
  BY DEF ProcessSample
<1>4. /\ front.dark \in Nat /\ front.light \in Nat /\ MinContrast \in Nat /\ MinContrast = Squelch[front.board]
  BY <1>1, FrontNumbers
<1>5. front.dark * Scale \in Int /\ Sample * Scale \in Int /\ Sample * Scale <= front.dark * Scale
  <2>1. PICK adc, top \in Int : adc = Sample /\ top = front.dark /\ adc <= top
    BY <1>2, <1>4
  <2>2. adc * Scale \in Int /\ top * Scale \in Int /\ adc * Scale <= top * Scale
    BY <1>1, <2>1, ScaledOrder
  <2> QED BY <2>1, <2>2
<1>6. PICK top, s \in Int : top = front.dark * Scale /\ s = Sample * Scale /\ s <= top
  BY <1>5
<1>7. PICK hi \in Int : hi = env.hi /\ hi <= top
  BY <1>1, <1>6, Board DEF Levels
<1>8. env'.hi \in Int /\ env'.hi <= top
  <2>1. CASE ~Esp32
    <3>1. Track(env, Sample) \in [hi : Levels, lo : Levels] /\ Track(env, Sample).lo <= Track(env, Sample).hi
      BY <1>1, <1>2, <2>1, TrackOK
    <3>2. ~Crossed(Track(env, Sample))
      BY <1>1, <3>1, Board DEF Crossed, Levels
    <3>3. env'.hi = High(hi, s)
      BY <1>3, <1>6, <1>7, <2>1, <3>2 DEF Slicer, Track
    <3>4. High(hi, s) \in Int /\ High(hi, s) <= top
      BY <1>1, <1>6, <1>7 DEF High, Attack, Decay
    <3> QED BY <3>3, <3>4
  <2>2. CASE Esp32
    <3>1. Scale = 1 /\ s = Sample
      <4>1. Scale = 1
        BY <2>2 DEF Scale
      <4> QED BY <1>2, <1>6, <4>1
    <3>2. env'.hi = (31 * hi + s) \div 32 \/ env'.hi = hi
      BY <1>1, <1>3, <1>7, <2>2, <3>1 DEF Slicer, EspIdle
    <3>3. (31 * hi + s) \div 32 \in Int /\ (31 * hi + s) \div 32 <= top
      BY <1>6, <1>7
    <3> QED BY <1>7, <3>2, <3>3
  <2> QED BY <2>1, <2>2
<1>9. ~RealPulse(env', Sample)
  <2>1. PICK nh, dk \in Int : nh = env'.hi /\ dk = front.dark /\ nh <= top
    BY <1>4, <1>8
  <2>2. nh \div Scale \in Int /\ nh \div Scale <= dk
    <3>1. CASE Scale = 1 BY <1>6, <2>1, <3>1
    <3>2. CASE Scale = 64 BY <1>6, <2>1, <3>2
    <3> QED BY <1>1, <3>1, <3>2, Board
  <2>3. Dark(env') = nh \div Scale
    BY <2>1 DEF Dark
  <2>4. front.dark - front.light < MinContrast
    BY <1>4 DEF TooWeak
  <2> QED BY <1>2, <1>4, <2>1, <2>2, <2>3, <2>4 DEF RealPulse
<1>10. IdleDark(env', Sample)
  BY <1>1, <1>9 DEF ProcessSample, IdleUnsettled, BeginByte
<1>11. ~rx'.on /\ owed' = owed /\ ~wrong'
  <2>1. PICK n, b : rx' = Idle(b, n)
    BY <1>10 DEF IdleDark
  <2> QED BY <1>1, <1>10, <2>1 DEF Idle, IdleDark, Dropped
<1>12. (front.dark * Scale)' = front.dark * Scale
  BY <1>3 DEF Scale, Esp32
<1> QED BY <1>1, <1>3, <1>6, <1>8, <1>11, <1>12 DEF WeakInv

\* A sample keeps the invariant.
LEMMA CleanSample == Margins /\ IInv /\ CleanInv /\ ProcessSample => CleanInv'
<1> SUFFICES ASSUME Margins, IInv, CleanInv, ProcessSample PROVE CleanInv'
  OBVIOUS
<1>1. LineInv /\ (TooWeak(front) => WeakInv) /\ (~TooWeak(front) => StrongInv)
  BY DEF CleanInv
<1>2. front' = front /\ UNCHANGED <<sender, quiet, stray, ambient>> /\ ~due'
  BY DEF ProcessSample, airVars
<1>3. ~wrong' => LineInv'
  BY <1>1, <1>2 DEF LineInv, LastPhase, LastFalls
<1>4. CASE TooWeak(front)
  BY <1>1, <1>2, <1>3, <1>4, WeakSampled, ToLevels DEF CleanInv
<1>5. CASE ~TooWeak(front)
  <2>1. WithinLevels(env) /\ (Rests \/ FirstSample \/ SlowEdge \/ Reads(0) \/ Reads(1) \/ LastFalls)
    BY <1>1, <1>5 DEF StrongInv
  <2>2. ~wrong' /\ WithinLevels(env') /\ (Rests' \/ SlowEdge' \/ Reads(0)' \/ Reads(1)')
    <3>1. CASE Rests BY <1>1, <1>5, <2>1, <3>1, RestsSampled
    <3>2. CASE FirstSample BY <1>1, <1>5, <2>1, <3>2, FirstSampled
    <3>3. CASE SlowEdge BY <1>1, <1>5, <2>1, <3>3, SecondSampled
    <3>4. CASE Reads(0) BY <1>1, <1>5, <2>1, <3>4, ReadsSampled
    <3>5. CASE Reads(1) BY <1>1, <1>5, <2>1, <3>5, ReadsSampled
    <3>6. CASE LastFalls BY <1>1, <1>5, <2>1, <3>6, LastSampled
    <3> QED BY <2>1, <3>1, <3>2, <3>3, <3>4, <3>5, <3>6
  <2>3. StrongInv'
    BY <1>2, <2>2, ToLevels DEF StrongInv
  <2> QED BY <1>2, <1>3, <1>5, <2>2, <2>3, ToLevels DEF CleanInv
<1> QED BY <1>4, <1>5

-----------------------------------------------------------------------------
(* A tick of the line within the margins                                   *)

LEMMA ToLastFalls ==
    ASSUME front' = front, due', NEW d, ByteOf(rx', d, 1), LagInByte(rx', Lag(env')),
           Age(rx') = ByteTicks - 1, sender'.phase = 0,
           owed' = IF sender'.on THEN <<d, sender'.data>> ELSE <<d>>
    PROVE  LastFalls'
<1>1. LagInByte(rx, Lag(env))'
  BY ToLevels DEF LagInByte, Worst, Begun
<1>2. owed' # <<>> /\ Head(owed') = d
  OBVIOUS
<1>3. ByteOf(rx, Head(owed), 1)'
  <2>1. ByteOf(rx, d, 1)'
    BY ToByteOf
  <2> QED BY <1>2, <2>1 DEF ByteOf, BitSoFar
<1>4. Age(rx)' = Age(rx')
  BY DEF Age
<1> QED BY <1>1, <1>2, <1>3, <1>4 DEF LastFalls

\* What a tick leaves alone, and the three ways the sender goes through it.
LEMMA TickParts ==
    ASSUME Margins, IInv, LineInv, NextTick
    PROVE  /\ front' = front /\ env' = env /\ rx' = rx /\ wrong' = wrong /\ ~due /\ due'
           /\ stray' = 0 /\ ambient' = 0 /\ Now = 1 /\ Later = 0
           /\ \/ Begins /\ sent' = sent + 1
              \/ Ends /\ sent' = sent
              \/ GoesOn /\ sent' = sent
<1>1. front \in Fronts /\ stray = 0 /\ ambient = 0
  BY DEF IInv, LineInv
<1>2. front' = front /\ env' = env /\ rx' = rx /\ wrong' = wrong /\ ~due /\ due'
  BY DEF NextTick
<1>3. Now = 1 /\ Later = 0
  BY <1>2 DEF Now, Later
<1>4. front.ambients = {0}
  BY <1>1 DEF Margins
<1>5. Begins \/ Ends \/ GoesOn
  BY <1>1 DEF NextTick, StrayLight
<1> QED BY <1>1, <1>2, <1>3, <1>4, <1>5 DEF Begins, Ends, GoesOn

\* A character's last tick, and what it means that the sender is not at it.
LEMMA LastTick ==
    ASSUME Margins, IInv, LineInv, sender.on
    PROVE  /\ sender.phase \in Nat /\ sender.gap \in Nat /\ ByteTicks \in Nat /\ ByteTicks >= 8
           /\ LastPhase(sender) = ByteTicks + sender.gap - 1
           /\ sender.phase <= LastPhase(sender)
           /\ ~Going => sender.phase = ByteTicks + sender.gap - 1
<1>1. front \in Fronts /\ sender \in SenderRecord /\ sender.phase <= LastPhase(sender)
  BY DEF IInv, LineInv
<1>2. sender.phase \in Nat
  BY <1>1 DEF SenderRecord
<1>3. sender.gap \in Nat
  <2>1. sender.gap \in front.gaps \cup {0}
    BY <1>1 DEF SenderRecord
  <2> QED BY <1>1, <2>1, FrontNumbers
<1>4. ByteTicks \in Nat /\ ByteTicks >= 8
  <2>1. /\ BitTicks \in Nat /\ BitTicks >= 4 /\ StopBit \in Nat /\ StopBit = DataBits + 1 /\ DataBits \in Nat
        /\ ByteTicks = StopBit * BitTicks + BitTicks
    BY BitNumbers
  <2>2. (DataBits + 1) * BitTicks = DataBits * BitTicks + BitTicks /\ DataBits * BitTicks \in Nat
    BY <2>1, BitProduct
  <2> QED BY <2>1, <2>2
<1>5. LastPhase(sender) = ByteTicks + sender.gap - 1
  BY DEF LastPhase, ByteTicks
<1> QED BY <1>1, <1>2, <1>3, <1>4, <1>5 DEF Going

LEMMA LineTick ==
    ASSUME Margins, IInv, CleanInv, NextTick
    PROVE  LineInv'
<1>1. LineInv /\ (TooWeak(front) => WeakInv) /\ (~TooWeak(front) => StrongInv)
  BY DEF CleanInv
<1>2. /\ front' = front /\ rx' = rx /\ wrong' = wrong /\ ~due /\ due'
      /\ stray' = 0 /\ ambient' = 0 /\ (Begins \/ Ends \/ GoesOn)
  BY <1>1, TickParts
<1>3. front \in Fronts /\ sender \in SenderRecord /\ quiet \in Nat /\ QuietTicks \in Nat /\ ~wrong
  BY <1>1, Board DEF IInv, LineInv
<1>4. /\ sender'.on => quiet' = 0 /\ sender'.phase <= LastPhase(sender')
      /\ ~sender'.on => sender' = Silence
  <2>1. CASE Begins
    <3>1. sender' \in Characters /\ quiet' = 0
      BY <2>1 DEF Begins, SenderStarts
    <3>2. sender'.on /\ sender'.phase = 0 /\ sender'.gap \in Nat
      BY <1>3, <3>1, FrontNumbers DEF Characters
    <3>3. ByteTicks \in Nat /\ ByteTicks >= 1
      <4>1. StopBit * BitTicks \in Nat /\ BitTicks \in Nat /\ BitTicks >= 4 /\ ByteTicks = StopBit * BitTicks + BitTicks
        BY BitNumbers
      <4> QED BY <4>1
    <3>4. LastPhase(sender') = ByteTicks + sender'.gap - 1
      BY DEF LastPhase, ByteTicks
    <3> QED BY <3>1, <3>2, <3>3, <3>4
  <2>2. CASE Ends
    BY <2>2 DEF Ends, SenderStops, Silence
  <2>3. CASE GoesOn
    <3>1. Going /\ sender' = [sender EXCEPT !.phase = @ + 1] /\ quiet' = quiet
      BY <2>3 DEF GoesOn, SenderGoesOn
    <3>2. sender'.on = sender.on /\ sender'.phase = sender.phase + 1 /\ sender'.gap = sender.gap
      BY <1>3, <3>1 DEF SenderRecord
    <3>3. sender.on /\ sender.phase < LastPhase(sender)
      BY <3>1 DEF Going
    <3>4. LastPhase(sender') = LastPhase(sender)
      BY <3>2 DEF LastPhase
    <3>5. sender.phase \in Nat /\ LastPhase(sender) \in Int
      BY <1>1, <3>3, LastTick
    <3> QED BY <1>1, <3>1, <3>2, <3>3, <3>4, <3>5 DEF LineInv
  <2> QED BY <1>2, <2>1, <2>2, <2>3
<1>5. quiet' > 1 => ~LastFalls'
  <2>1. SUFFICES ASSUME quiet' > 1 PROVE ~LastFalls'
    OBVIOUS
  <2>2. CASE TooWeak(front)
    BY <1>1, <1>2, <2>2 DEF WeakInv, LastFalls, ByteOf
  <2>3. CASE ~TooWeak(front)
    <3>1. Ends
      <4>1. Begins => quiet' = 0
        BY DEF Begins, SenderStarts
      <4>2. GoesOn => quiet' = 0
        BY <1>1 DEF GoesOn, SenderGoesOn, Going, LineInv
      <4> QED BY <1>2, <2>1, <4>1, <4>2
    <3>2. quiet' \in {quiet, quiet + 1} /\ owed' = owed
      BY <3>1 DEF Ends, SenderStops
    <3>3. ~sender.on
      BY <1>1, <1>3, <2>1, <3>2 DEF LineInv
    <3>4. owed = <<>>
      BY <1>1, <1>2, <2>3, <3>3 DEF StrongInv, Rests, FirstSample, SlowEdge, Reads, LastFalls
    <3> QED BY <3>2, <3>4 DEF LastFalls
  <2> QED BY <2>2, <2>3
<1> QED BY <1>2, <1>3, <1>4, <1>5 DEF LineInv

LEMMA WeakTick ==
    ASSUME Margins, IInv, LineInv, WeakInv, NextTick
    PROVE  WeakInv'
<1>1. front' = front /\ env' = env /\ rx' = rx
  BY TickParts
<1>2. Len(owed') = sent'
  <2>1. CASE Begins /\ sent' = sent + 1
    <3>1. owed' = Append(owed, sender'.data)
      BY <2>1 DEF Begins, SenderStarts
    <3>2. Len(Append(owed, sender'.data)) = Len(owed) + 1
      <4> DEFINE S == SUBSET Bits
                 d == sender'.data
      <4>1. d \in S
        <5>1. sender' \in Characters
          BY <2>1 DEF Begins, SenderStarts
        <5> QED BY <5>1 DEF Characters
      <4>2. owed \in Seq(S)
        BY DEF IInv
      <4> HIDE DEF S, d
      <4>3. Len(Append(owed, d)) = Len(owed) + 1
        BY <4>1, <4>2
      <4> QED BY <4>3 DEF d
    <3> QED BY <2>1, <3>1, <3>2 DEF WeakInv
  <2>2. CASE Ends /\ sent' = sent
    BY <2>2 DEF Ends, SenderStops, WeakInv
  <2>3. CASE GoesOn /\ sent' = sent
    BY <2>3 DEF GoesOn, SenderGoesOn, WeakInv
  <2> QED BY <2>1, <2>2, <2>3, TickParts
<1> QED BY <1>1, <1>2 DEF WeakInv, Scale, Esp32

LEMMA StrongTick ==
    ASSUME Margins, IInv, LineInv, StrongInv, NextTick
    PROVE  StrongInv'
<1>1. /\ front' = front /\ env' = env /\ rx' = rx /\ ~due /\ due' /\ Now = 1 /\ Later = 0
      /\ (Begins \/ Ends \/ GoesOn)
  BY TickParts
<1>2. front \in Fronts /\ sender \in SenderRecord /\ rx \in RxRecord
  BY DEF IInv
<1>3. WithinLevels(env) /\ (Rests \/ SlowEdge \/ \E a : Reads(a))
  BY <1>1 DEF StrongInv, FirstSample, LastFalls
<1>4. WithinLevels(env)'
  BY <1>1, <1>3, ToLevels
<1>5. sender.on => /\ sender.phase \in Nat /\ sender.gap \in Nat /\ ByteTicks \in Nat /\ ByteTicks >= 8
                   /\ ~Going => sender.phase = ByteTicks + sender.gap - 1
  BY LastTick
<1>6. Begins => /\ ~Going /\ sender'.on /\ sender'.phase = 0
                /\ owed' = Append(owed, sender'.data)
  BY DEF Begins, SenderStarts, Characters
<1>7. Ends => ~Going /\ ~sender'.on /\ sender'.phase = 0 /\ owed' = owed
  BY DEF Ends, SenderStops, Silence
<1>8. GoesOn => /\ sender.on /\ sender'.on /\ sender'.phase = sender.phase + 1
                /\ sender'.data = sender.data /\ owed' = owed
  BY <1>2 DEF GoesOn, SenderGoesOn, Going, SenderRecord
<1>9. CASE Rests
  <2>1. /\ ~rx.on /\ rx.armed /\ owed = <<>> /\ Lag(env) <= RestLag(front)
        /\ sender.on => sender.phase + 1 >= ByteTicks
    BY <1>1, <1>9 DEF Rests
  <2>2. ASSUME Begins PROVE FirstSample'
    <3>1. owed' = <<sender'.data>>
      BY <1>6, <2>1, <2>2
    <3> QED BY <1>1, <1>6, <2>1, <2>2, <3>1, ToFirstSample
  <2>3. ASSUME Ends \/ GoesOn PROVE Rests'
    <3>1. sender'.on => sender'.phase + Later >= ByteTicks
      BY <1>1, <1>5, <1>7, <1>8, <2>1, <2>3
    <3>2. owed' = <<>>
      BY <1>7, <1>8, <2>1, <2>3
    <3> QED BY <1>1, <2>1, <3>1, <3>2, ToRests
  <2> QED BY <1>1, <1>4, <2>2, <2>3 DEF StrongInv
<1>10. CASE SlowEdge
  <2>1. /\ front.lag > 0 /\ ~rx.on /\ rx.armed /\ Lag(env) <= RestLag(front) + IdleCost(front)
        /\ sender.on /\ owed = <<sender.data>> /\ sender.phase + 1 = 1
    BY <1>1, <1>10 DEF SlowEdge
  <2>2. GoesOn
    <3>1. Going
      BY <1>5, <2>1
    <3> QED BY <1>1, <1>6, <1>7, <3>1
  <2>3. SlowEdge'
    <3>1. sender'.phase + Later = 1
      BY <1>1, <1>5, <1>8, <2>1, <2>2
    <3>2. owed' = <<sender'.data>> /\ sender'.on
      BY <1>8, <2>1, <2>2
    <3> QED BY <1>1, <2>1, <3>1, <3>2, ToSlowEdge
  <2> QED BY <1>4, <2>3 DEF StrongInv
<1>11. ASSUME NEW a, Reads(a) PROVE StrongInv'
  <2>1. /\ ByteOf(rx, sender.data, a) /\ LagInByte(rx, Lag(env)) /\ sender.on /\ owed = <<sender.data>>
        /\ sender.phase + 1 = Age(rx) + a /\ Age(rx) >= 1 /\ a \in {0, 1}
    BY <1>1, <1>11 DEF Reads, ByteOf
  <2>2. ByteOf(rx', sender.data, a) /\ LagInByte(rx', Lag(env'))
    BY <1>1, <2>1
  <2>3. CASE GoesOn
    <3>1. sender'.phase + Later = Age(rx') + a /\ Age(rx') >= 1
      BY <1>1, <1>5, <1>8, <2>1, <2>3
    <3>2. Reads(a)'
      BY <1>1, <1>8, <2>1, <2>2, <2>3, <3>1, ToReads
    <3>3. Reads(0)' \/ Reads(1)'
      BY <2>1, <3>2
    <3> QED BY <1>4, <3>3 DEF StrongInv
  <2>4. CASE ~Going
    <3>1. Age(rx) \in Nat /\ Age(rx) + 1 <= ByteTicks
      BY <1>2, AgeBounds
    <3>2. a = 1 /\ Age(rx) = ByteTicks - 1
      BY <1>5, <2>1, <2>4, <3>1
    <3>3. sender'.phase = 0 /\ owed' = IF sender'.on THEN <<sender.data, sender'.data>> ELSE <<sender.data>>
      <4>1. GoesOn => Going
        BY DEF GoesOn, SenderGoesOn
      <4> QED BY <1>1, <1>6, <1>7, <2>1, <2>4, <4>1
    <3>4. LastFalls'
      BY <1>1, <2>2, <3>2, <3>3, ToLastFalls
    <3> QED BY <1>4, <3>4 DEF StrongInv
  <2> QED BY <1>1, <1>6, <1>7, <2>3, <2>4
<1> QED BY <1>3, <1>9, <1>10, <1>11

LEMMA CleanTick == Margins /\ IInv /\ CleanInv /\ NextTick => CleanInv'
<1> SUFFICES ASSUME Margins, IInv, CleanInv, NextTick PROVE CleanInv'
  OBVIOUS
<1>1. LineInv /\ (TooWeak(front) => WeakInv) /\ (~TooWeak(front) => StrongInv)
  BY DEF CleanInv
<1>2. LineInv' /\ front' = front
  BY LineTick DEF NextTick
<1> QED BY <1>1, <1>2, WeakTick, StrongTick, ToLevels DEF CleanInv

\* The seed: the dark envelope at the dark level, the light one no lower than light.
LEMMA CleanInit == Margins /\ Init => CleanInv
<1> SUFFICES ASSUME Margins, Init PROVE CleanInv
  OBVIOUS
<1>1. /\ front \in Fronts /\ sender = Silence /\ quiet = QuietTicks /\ owed = <<>> /\ ~wrong
      /\ sent = 0 /\ ambient = 0 /\ ~due /\ rx = Idle(TRUE, ArmSamples) /\ env = Slicer(Seed, front.dark)
      /\ stray \in front.strays
  BY DEF Init, LineInit
<1>2. stray = 0
  BY <1>1 DEF Margins
<1>3. ~rx.on /\ rx.armed /\ ~sender.on
  BY <1>1 DEF Idle, Silence
<1>4. LineInv
  BY <1>1, <1>2, <1>3 DEF LineInv, LastFalls
<1>5. /\ front.dark \in Counts /\ front.dark \in Nat /\ front.light \in Nat
      /\ MinContrast \in Nat /\ MinContrast = Squelch[front.board]
  BY <1>1, FrontNumbers
<1>6. Seed \in [hi : Levels, lo : Levels] /\ Seed.lo <= Seed.hi /\ SeedLow \in 0 .. front.dark
  BY <1>1, <1>5, SeedOK
<1>7. front.dark * Scale \in Nat /\ front.light * Scale \in Nat /\ SeedLow * Scale \in Int /\ SeedLow * Scale <= front.dark * Scale
  <2>1. SeedLow * Scale \in Int /\ SeedLow * Scale <= front.dark * Scale
    <3>1. Seed.lo = SeedLow * Scale /\ Seed.hi = front.dark * Scale
      BY DEF Seed
    <3>2. Seed.lo \in Int
      BY <1>1, <1>6, Board DEF Levels
    <3> QED BY <1>6, <3>1, <3>2
  <2> QED BY <1>1, <2>1, Costs
<1>8. PICK top, low, sl \in Int : top = front.dark * Scale /\ low = front.light * Scale /\ sl = SeedLow * Scale /\ sl <= top
  BY <1>7
<1>9. Seed.hi = top /\ Seed.lo = sl
  BY <1>8 DEF Seed
<1>10. env.hi = top /\ env.lo >= sl /\ env.lo <= top
  <2>1. CASE ~Esp32
    <3>1. Track(Seed, front.dark) \in [hi : Levels, lo : Levels] /\ Track(Seed, front.dark).lo <= Track(Seed, front.dark).hi
      BY <1>1, <1>5, <1>6, TrackOK
    <3>2. ~Crossed(Track(Seed, front.dark))
      BY <1>1, <3>1, Board DEF Crossed, Levels
    <3>3. env.hi = High(top, top) /\ env.lo = Low(sl, top)
      BY <1>1, <1>8, <1>9, <2>1, <3>2 DEF Slicer, Track
    <3>4. /\ top <= High(top, top) /\ High(top, top) <= top /\ High(top, top) \in Int
      BY Rails
    <3>5. sl <= Low(sl, top) /\ Low(sl, top) <= top /\ Low(sl, top) \in Int
      BY <1>8, Rails
    <3>6. High(top, top) = top
      BY <3>4
    <3> QED BY <3>3, <3>5, <3>6
  <2>2. CASE Esp32
    <3>1. Scale = 1 /\ SeedLow = front.dark
      BY <2>2 DEF Scale, SeedLow
    <3>2. top = front.dark /\ sl = top
      BY <1>5, <1>8, <3>1
    <3>3. env = EspIdle(Seed, front.dark)
      BY <1>1, <1>3, <2>2 DEF Slicer
    <3>4. env.hi \in {(31 * top + top) \div 32, top} /\ env.lo \in {(127 * sl + top) \div 128, top}
      BY <1>9, <3>2, <3>3 DEF EspIdle
    <3>5. (31 * top + top) \div 32 = top /\ (127 * sl + top) \div 128 = top
      BY <3>2
    <3>6. env.hi = top
      BY <3>4, <3>5
    <3>7. env.lo = top
      BY <3>4, <3>5
    <3> QED BY <3>2, <3>6, <3>7
  <2> QED BY <2>1, <2>2
<1>11. CASE TooWeak(front)
  <2>1. Len(owed) = sent
    BY <1>1
  <2> QED BY <1>3, <1>4, <1>8, <1>10, <1>11, <2>1 DEF CleanInv, WeakInv
<1>12. CASE ~TooWeak(front)
  <2>1. sl >= low
    <3>1. SeedLow \in Int /\ SeedLow >= front.light
      BY <1>5, <1>6, <1>12 DEF SeedLow, TooWeak
    <3>2. PICK a, b \in Int : a = front.light /\ b = SeedLow /\ a <= b
      BY <1>5, <3>1
    <3>3. a * Scale <= b * Scale
      BY <1>1, <3>2, ScaledOrder
    <3> QED BY <1>8, <3>2, <3>3
  <2>2. WithinLevels(env)
    <3>1. env.lo \in Int
      <4>1. IInv
        BY InitOK
      <4> QED BY <1>1, <4>1, Board DEF IInv, Levels
    <3> QED BY <1>8, <1>10, <2>1, <3>1 DEF WithinLevels
  <2>3. Lag(env) <= RestLag(front)
    <3>1. Lag(env) = 0
      BY <1>8, <1>10 DEF Lag
    <3>2. RestLag(front) \in Nat
      BY <1>1, Costs
    <3> QED BY <3>1, <3>2
  <2>4. Rests
    BY <1>1, <1>3, <2>3 DEF Rests
  <2> QED BY <1>4, <1>12, <2>2, <2>4 DEF CleanInv, StrongInv
<1> QED BY <1>11, <1>12

\* Within the margins the receiver always is where CleanInv says.
LEMMA CleanInvariance == Spec => [](IInv /\ (Margins => CleanInv))
<1>1. IInv /\ (Margins => CleanInv) /\ [Next]_vars => (Margins => CleanInv)'
  <2> SUFFICES ASSUME IInv, Margins => CleanInv, [Next]_vars, Margins' PROVE CleanInv'
    OBVIOUS
  <2>1. front' = front
    BY DEF Next, NextTick, ProcessSample, vars, lineVars
  <2>2. Margins
    BY <2>1 DEF Margins, TooWeak, StrongEnough, Swing, ScaleOf, RestLag, FrameCost, IdleCost, ByteCost
  <2>3. CASE UNCHANGED vars
    <3>1. UNCHANGED <<front, sender, quiet, owed, wrong, sent, stray, ambient, due, env, rx>>
      BY <2>3 DEF vars, lineVars, airVars
    <3>2. LineInv => LineInv'
      BY <3>1 DEF LineInv, LastFalls, ByteOf, BitSoFar, ContrastSoFar, LagInByte, Lag,
                  Scale, Esp32, Nrz, Worst, Begun
    <3>3. WeakInv => WeakInv'
      BY <3>1 DEF WeakInv, Scale, Esp32
    <3>4. StrongInv => StrongInv'
      BY <3>1 DEF StrongInv, WithinLevels, Rests, FirstSample, SlowEdge, Reads, LastFalls, Now, ByteOf,
                  BitSoFar, ContrastSoFar, LagInByte, Lag, Scale, Esp32, Nrz, Worst, Begun
    <3> QED BY <2>2, <3>1, <3>2, <3>3, <3>4, ToLevels DEF CleanInv
  <2> QED BY <2>2, <2>3, CleanTick, CleanSample DEF Next
<1> QED BY <1>1, CleanInit, Invariance, PTL DEF Spec

\* No byte is received that was not sent, when the light is of one brightness that is
\* below the squelch or clears it by the margins, and the sender keeps its time
\* (a_process_sample, a_finalize_frame).
THEOREM NothingFalse == Spec => [](Margins => NoFalseByte)
<1>1. CleanInv => NoFalseByte
  BY DEF CleanInv, LineInv, NoFalseByte
<1> QED BY <1>1, CleanInvariance, PTL

\* Within the same margins every byte of a burst is received, whatever it is and
\* however soon the next one follows, so that two dark bits after the burst nothing is
\* owed and the receiver is armed; and light below the squelch yields no byte.
THEOREM EveryByteReceived == Spec => [](Margins => NothingMissed)
<1>1. IInv /\ Margins /\ CleanInv => NothingMissed
  <2> SUFFICES ASSUME IInv, Margins, CleanInv PROVE NothingMissed
    OBVIOUS
  <2>1. front \in Fronts /\ LineInv
    BY DEF IInv, CleanInv
  <2>2. Weak <=> TooWeak(front)
    BY <2>1, FrontNumbers DEF Weak, TooWeak
  <2>3. CASE Weak
    BY <2>2, <2>3 DEF CleanInv, WeakInv, NothingMissed
  <2>4. ASSUME ~Weak, quiet = QuietTicks PROVE owed = <<>> /\ ~rx.on /\ rx.armed
    <3>1. QuietTicks > 1
      BY BitNumbers, LineAssumption DEF QuietTicks
    <3>2. ~LastFalls /\ ~sender.on
      BY <2>1, <2>4, <3>1 DEF LineInv
    <3> QED BY <2>2, <2>4, <3>2 DEF CleanInv, StrongInv, Rests, FirstSample, SlowEdge, Reads
  <2> QED BY <2>3, <2>4 DEF NothingMissed
<1> QED BY <1>1, CleanInvariance, PTL
====
