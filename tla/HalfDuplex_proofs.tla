---- MODULE HalfDuplex_proofs ----
(***************************************************************************)
(* A change of direction is never seen half made, for every set of boards, *)
(* byte width, bit time and interrupt latency, although the interrupts go  *)
(* on between its statements: the host is given no byte of two sessions or *)
(* configurations, the front end is ready when the modem answers, and the  *)
(* ring is reset alone. And what a CMD_TX asks for is what is on the air.  *)
(*                                                                         *)
(* The argument is an outline of the programs: what remains of a command   *)
(* is a program from its k-th statement on, and for each k it is said what *)
(* the statements before it have achieved that no interrupt can undo.      *)
(***************************************************************************)
EXTENDS HalfDuplex, SequenceTheorems, TLAPS

-----------------------------------------------------------------------------
(* Where the command is                                                    *)

\* The statements.
Names ==
    { "set_enc", "set_mode", "timer_off", "irq_off", "detach", "adc_stop", "dir_idle",
      "timer_reset", "dir_tx", "bit_clock", "load", "count_zero", "arm", "spin", "rmt_write",
      "led_off", "reset_rx", "dir_rx", "free_run", "attach", "adc_start", "sample_clock" }

\* What remains of program P, followed by rest, at its k-th statement.
From(P, k, rest) == SubSeq(P, k, Len(P)) \o rest

Configuring == <<"set_enc", "set_mode">>
Sending == EnterTx \o SendBlob

InConfig(k) == k \in 1 .. Len(Configuring) /\ todo = From(Configuring, k, EnterIdle)
InIdle(k) == k \in 1 .. Len(EnterIdle) /\ todo = From(EnterIdle, k, <<>>)
InTx(k, rest) ==
    k \in 1 .. Len(Sending) /\ rest \in {EnterIdle, EnterRx} /\ todo = From(Sending, k, rest)
InRx(k) == k \in 1 .. Len(EnterRx) /\ todo = From(EnterRx, k, <<>>)

-----------------------------------------------------------------------------
(* What holds there                                                        *)

\* No interrupt comes, or none that does anything.
Silent == ~edges /\ ~(timer.on /\ timer.irq) /\ ~(timer.irq /\ timer.flag)
Drained == dir = "tx" => left = 0

\* Wherever the command is: nothing interrupts an idle modem, and only the bit clock
\* a sending one, while there are bits.
Quietness ==
    /\ ~Interrupts => timer = Stopped /\ ~edges
    /\ dir = "idle" => Silent
    /\ dir = "tx" => ~edges /\ (timer.irq => left > 0)

\* enter_idle of the XIAO stops the timer, then its interrupt, then the edges, one of
\* which may have armed the stopped timer in between.
IdleOK(k) ==
    /\ Drained
    /\ board = "samd21" =>
        /\ k >= 2 => ~timer.on
        /\ k >= 3 => ~(timer.irq /\ timer.flag)
        /\ k >= 4 => ~edges

\* enter_tx silences the receiver before the direction changes; a byte is loaded with
\* the interrupt off, and the loop is left with the queue empty.
TxOK(k) ==
    CASE board = "samd21" ->
            /\ IF k <= 4 THEN dir # "tx" ELSE dir = "tx"
            /\ k \in 2 .. 4 => ~edges
            /\ k = 4 => timer = Stopped
            /\ k \in {5, 6, 10} => left = 0
            /\ k \in {7, 8} => left > 0 /\ ~timer.irq
            /\ k <= 6 => cbuf.blob # <<>>
      [] board = "uno" ->
            /\ IF k <= 2 THEN dir # "tx" ELSE dir = "tx"
            /\ k \in {3, 5} => left = 0
            /\ k <= 3 => cbuf.blob # <<>>
      [] OTHER -> IF k <= 2 THEN dir # "tx" ELSE dir = "tx" /\ left = 0

\* The receiver of the configured mode has started afresh.
Fresh == ring = <<>> /\ rx[Slot(cfg.mode)] = "idle"
Entered == dir = "rx" /\ setup = cfg

\* enter_rx resets the receiver before anything can reach it, and lets the interrupts
\* loose when all is in place.
RxOK(k) ==
    CASE board = "samd21" ->
            /\ IF k <= 3 THEN dir # "rx" /\ Drained ELSE Entered /\ ~edges
            /\ k >= 2 => Fresh
            /\ k \in 3 .. 4 => timer = Stopped /\ ~edges
            /\ k = 5 => IF cfg.mode = "digital" THEN timer.on /\ ~timer.irq /\ timer.use = "free"
                        ELSE timer = Stopped /\ adc
      [] board = "uno" ->
            /\ dir # "rx" /\ Drained
            /\ k >= 2 /\ cfg.mode = "analog" => Fresh
            /\ k = 4 => adc
      [] OTHER ->
            /\ IF k = 1 THEN dir # "rx" /\ Drained ELSE Entered
            /\ k >= 3 => Fresh

\* Back in the loop the session is its own.
EaseOK ==
    /\ dir # "tx"
    /\ dir = "rx" =>
        /\ FrontEndReady
        /\ Interrupts /\ cfg.mode = "digital" /\ timer.irq => rx["digital"] # "idle"
        /\ "mixed" \notin Range(ring) /\ rx[Slot(cfg.mode)] # "mixed"

\* With TypeOK, the inductive invariant.
CommandOK ==
    \/ AtEase /\ EaseOK
    \/ \E k \in 1 .. Len(Configuring) : InConfig(k) /\ dir # "tx"
    \/ \E k \in 1 .. Len(EnterIdle) : InIdle(k) /\ IdleOK(k)
    \/ \E k \in 1 .. Len(Sending), rest \in {EnterIdle, EnterRx} : InTx(k, rest) /\ TxOK(k)
    \/ \E k \in 1 .. Len(EnterRx) : InRx(k) /\ RxOK(k)

\* The types, of the records and sequences too, of which TypeOK gives the parts.
Timers == [on : BOOLEAN, irq : BOOLEAN, flag : BOOLEAN, count : 0 .. (BitTicks - 1), use : Uses]
Configurations == [enc : Encodings, mode : Modes, ready : BOOLEAN]
Commands == [enc : Encodings, mode : Modes, blob : Seq(Byte)]
Receivers == [Modes -> {"idle"} \cup Kinds]

Typed ==
    /\ board \in Boards /\ dir \in {"idle", "tx", "rx"}
    /\ cfg \in Configurations /\ setup \in Configurations /\ cbuf \in Commands
    /\ timer \in Timers /\ edges \in BOOLEAN /\ adc \in BOOLEAN /\ led \in BOOLEAN
    /\ late \in 0 .. Latency /\ age \in 0 .. AgeCap
    /\ bits \in Seq({0, 1}) /\ Len(bits) <= FrameBits /\ left \in 0 .. 255
    /\ rx \in Receivers /\ ring \in Seq(Kinds) /\ host \subseteq Kinds
    /\ asked \in Blobs \cup {<<>>}

DirectionOK == Quietness /\ CommandOK /\ NoMixedByte

\* The bytes sent so far and the cells of those to be sent.
Loaded == Len(asked) - Len(cbuf.blob)
Out == Cells(asked)

\* With interrupts, what is still to send, what is in the bit queue and what is on the
\* air are the bytes asked for, in that order.
QueueOK ==
    /\ Loaded \in Nat
    /\ \A i \in 1 .. Len(cbuf.blob) : cbuf.blob[i] = asked[Loaded + i]
    /\ line \in Seq({0, 1}) /\ Len(bits) = left /\ Len(line) + left = Loaded * FrameBits
    /\ \A i \in 1 .. Len(line) : line[i] = Out[i]
    /\ \A i \in 1 .. left : bits[i] = Out[Len(line) + i]
    /\ led => line # <<>> /\ Last(line) = 0

\* The bit clock and the age of the cell on the air. A frame's first cell comes a bit
\* after the counter was zeroed, at the least; another one a bit after the one before,
\* but for what the interrupt waited then and waits now.
CellTiming ==
    IF left = FrameBits
    THEN IF timer.flag THEN timer.count = late /\ age >= BitTicks ELSE age >= timer.count
    ELSE IF timer.flag
         THEN timer.count = late /\ age <= BitTicks + late /\ age + Latency >= BitTicks + late
         ELSE age <= timer.count /\ timer.count <= age + Latency

\* What send_blob has prepared when it comes to a statement.
SendOK(s) ==
    /\ s \notin {"count_zero", "arm", "spin"} => left = 0
    /\ s \in {"bit_clock", "load", "count_zero", "arm", "spin"} => dir = "tx"
    /\ s \in {"load", "count_zero", "arm", "spin"} => timer.on /\ timer.use = "bits"
    /\ s \in {"count_zero", "arm"} => left = FrameBits /\ ~timer.irq
    /\ s = "arm" => age >= timer.count
    /\ s = "spin" /\ left > 0 => timer.irq /\ CellTiming
    /\ s = "led_off" => cbuf.blob = <<>>

\* With the two above, the inductive invariant of the light.
LightOK ==
    Interrupts =>
        /\ QueueOK
        /\ asked # <<>> =>
             \E k \in 1 .. Len(Sending), rest \in {EnterIdle, EnterRx} :
                InTx(k, rest) /\ SendOK(Head(todo))

-----------------------------------------------------------------------------
(* Programs                                                                *)

\* One statement further on.
LEMMA FromStep ==
    ASSUME NEW P \in Seq(Names), NEW rest \in Seq(Names), NEW k \in 1 .. Len(P)
    PROVE  /\ From(P, k, rest) \in Seq(Names) /\ From(P, k, rest) # <<>>
           /\ Head(From(P, k, rest)) = P[k]
           /\ Tail(From(P, k, rest)) = From(P, k + 1, rest)
<1> DEFINE n == Len(P)
           s == SubSeq(P, k, n)
           t == SubSeq(P, k + 1, n)
<1>0. n \in Nat /\ k \in Nat /\ 1 <= k /\ k <= n
  OBVIOUS
<1>1. /\ s \in Seq(Names) /\ Len(s) = n - k + 1
      /\ \A i \in 1 .. Len(s) : s[i] = P[k + i - 1]
  BY <1>0
<1>2. /\ t \in Seq(Names) /\ Len(t) = n - k
      /\ \A i \in 1 .. Len(t) : t[i] = P[k + i]
  BY <1>0
<1>3. /\ s \o rest \in Seq(Names) /\ Len(s \o rest) = Len(s) + Len(rest)
      /\ \A i \in 1 .. Len(s \o rest) : (s \o rest)[i] =
           IF i <= Len(s) THEN s[i] ELSE rest[i - Len(s)]
  BY <1>1, ConcatProperties
<1>4. /\ t \o rest \in Seq(Names) /\ Len(t \o rest) = Len(t) + Len(rest)
      /\ \A i \in 1 .. Len(t \o rest) : (t \o rest)[i] =
           IF i <= Len(t) THEN t[i] ELSE rest[i - Len(t)]
  BY <1>2, ConcatProperties
<1>5. s \o rest # <<>> /\ Head(s \o rest) = P[k]
  <2>1. Len(s \o rest) \in Nat \ {0} /\ Len(s) \in Nat \ {0}
    BY <1>0, <1>1, <1>3
  <2>2. (s \o rest)[1] = P[k]
    BY <1>0, <1>1, <1>3, <2>1
  <2>3. \A w \in Seq(Names) : Len(w) # 0 => w # <<>> /\ Head(w) = w[1]
    OBVIOUS
  <2> QED
    BY <1>3, <2>1, <2>2, <2>3
<1>6. Tail(s \o rest) = t \o rest
  <2>1. /\ Tail(s \o rest) \in Seq(Names) /\ Len(Tail(s \o rest)) = Len(s \o rest) - 1
        /\ \A i \in 1 .. Len(Tail(s \o rest)) : Tail(s \o rest)[i] = (s \o rest)[i + 1]
    BY <1>3, <1>5
  <2>2. Len(Tail(s \o rest)) = Len(t \o rest)
    BY <1>0, <1>1, <1>2, <1>3, <1>4, <2>1
  <2>3. ASSUME NEW i \in 1 .. Len(t \o rest) PROVE Tail(s \o rest)[i] = (t \o rest)[i]
    BY <1>0, <1>1, <1>2, <1>3, <1>4, <2>1, <2>2
  <2> QED
    BY <1>4, <2>1, <2>2, <2>3, SeqEqual
<1> QED
  BY <1>3, <1>5, <1>6 DEF From

\* The whole of it, and the end.
LEMMA FromEnds ==
    ASSUME NEW P \in Seq(Names), NEW rest \in Seq(Names)
    PROVE  From(P, 1, rest) = P \o rest /\ From(P, Len(P) + 1, rest) = rest
<1>1. SubSeq(P, 1, Len(P)) = P
  OBVIOUS
<1>2. SubSeq(P, Len(P) + 1, Len(P)) = <<>>
  OBVIOUS
<1>3. <<>> \o rest = rest
  OBVIOUS
<1> QED
  BY <1>1, <1>2, <1>3 DEF From

\* Two programs in a row.
LEMMA InARow ==
    ASSUME NEW s \in Seq(Names), NEW t \in Seq(Names), NEW u \in Seq(Names),
           Len(u) = Len(s) + Len(t),
           \A i \in 1 .. Len(s) : u[i] = s[i],
           \A i \in 1 .. Len(t) : u[Len(s) + i] = t[i]
    PROVE  s \o t = u
<1>1. /\ s \o t \in Seq(Names) /\ Len(s \o t) = Len(u)
      /\ \A i \in 1 .. Len(u) : (s \o t)[i] = IF i <= Len(s) THEN s[i] ELSE t[i - Len(s)]
  BY ConcatProperties
<1>2. ASSUME NEW i \in 1 .. Len(u) PROVE (s \o t)[i] = u[i]
  <2>1. CASE i <= Len(s)
    BY <1>1, <2>1
  <2>2. CASE i > Len(s)
    <3>1. i - Len(s) \in 1 .. Len(t) /\ i = Len(s) + (i - Len(s))
      BY <2>2
    <3> QED
      BY <1>1, <2>2, <3>1
  <2> QED
    BY <2>1, <2>2
<1> QED
  BY <1>1, <1>2, SeqEqual

\* The programs of the boards, written out.
LEMMA ProgramsOfSamd21 ==
    ASSUME board = "samd21"
    PROVE  /\ EnterIdle = <<"timer_off", "irq_off", "detach", "adc_stop", "dir_idle">>
           /\ Sending = <<"detach", "adc_stop", "timer_reset", "dir_tx", "bit_clock",
                          "load", "count_zero", "arm", "spin", "led_off">>
           /\ SendByte = <<"load", "count_zero", "arm", "spin">>
           /\ EnterRx = IF cfg.mode = "analog"
                        THEN <<"reset_rx", "timer_reset", "dir_rx", "adc_start", "sample_clock">>
                        ELSE <<"reset_rx", "timer_reset", "dir_rx", "free_run", "attach">>
<1>1. Program = Samd21 /\ board # "esp32c3"
  BY DEF Program
<1>2. EnterTx = <<"detach", "adc_stop", "timer_reset", "dir_tx", "bit_clock">>
  BY <1>1 DEF EnterTx, Samd21
<1>3. SendByte = <<"load", "count_zero", "arm", "spin">>
  BY DEF SendByte
<1>4. SendBlob = <<"load", "count_zero", "arm", "spin", "led_off">>
  <2> DEFINE s == <<"load", "count_zero", "arm", "spin">>
             t == <<"led_off">>
             u == <<"load", "count_zero", "arm", "spin", "led_off">>
  <2>1. s \in Seq(Names) /\ t \in Seq(Names) /\ u \in Seq(Names)
    BY DEF Names
  <2>2. /\ Len(u) = Len(s) + Len(t)
        /\ \A i \in 1 .. Len(s) : u[i] = s[i]
        /\ \A i \in 1 .. Len(t) : u[Len(s) + i] = t[i]
    OBVIOUS
  <2>3. SendBlob = s \o t
    BY <1>1, <1>3 DEF SendBlob
  <2> HIDE DEF s, t, u
  <2>4. s \o t = u
    BY <2>1, <2>2, InARow
  <2> QED
    BY <2>3, <2>4 DEF u
<1>5. Sending = <<"detach", "adc_stop", "timer_reset", "dir_tx", "bit_clock",
                  "load", "count_zero", "arm", "spin", "led_off">>
  <2> DEFINE s == <<"detach", "adc_stop", "timer_reset", "dir_tx", "bit_clock">>
             t == <<"load", "count_zero", "arm", "spin", "led_off">>
             u == <<"detach", "adc_stop", "timer_reset", "dir_tx", "bit_clock",
                    "load", "count_zero", "arm", "spin", "led_off">>
  <2>1. s \in Seq(Names) /\ t \in Seq(Names) /\ u \in Seq(Names)
    BY DEF Names
  <2>2. /\ Len(u) = Len(s) + Len(t)
        /\ \A i \in 1 .. Len(s) : u[i] = s[i]
        /\ \A i \in 1 .. Len(t) : u[Len(s) + i] = t[i]
    OBVIOUS
  <2>3. Sending = s \o t
    BY <1>2, <1>4 DEF Sending
  <2> HIDE DEF s, t, u
  <2>4. s \o t = u
    BY <2>1, <2>2, InARow
  <2> QED
    BY <2>3, <2>4 DEF u
<1>6. EnterIdle = <<"timer_off", "irq_off", "detach", "adc_stop", "dir_idle">>
  BY <1>1 DEF EnterIdle, Samd21
<1> QED
  BY <1>1, <1>3, <1>5, <1>6 DEF EnterRx, Samd21

LEMMA ProgramsOfUno ==
    ASSUME board = "uno"
    PROVE  /\ EnterIdle = <<"adc_stop", "dir_idle">>
           /\ Sending = <<"adc_stop", "dir_tx", "load", "spin", "led_off">>
           /\ SendByte = <<"load", "spin">>
           /\ EnterRx = IF cfg.mode = "analog"
                        THEN <<"reset_rx", "irq_off", "adc_start", "dir_rx">>
                        ELSE <<"adc_stop", "dir_rx">>
<1>1. Program = Uno /\ board # "esp32c3" /\ board # "samd21"
  BY DEF Program
<1>2. EnterTx = <<"adc_stop", "dir_tx">>
  BY <1>1 DEF EnterTx, Uno
<1>3. SendByte = <<"load", "spin">>
  BY <1>1 DEF SendByte
<1>4. SendBlob = <<"load", "spin", "led_off">>
  <2> DEFINE s == <<"load", "spin">>
             t == <<"led_off">>
             u == <<"load", "spin", "led_off">>
  <2>1. s \in Seq(Names) /\ t \in Seq(Names) /\ u \in Seq(Names)
    BY DEF Names
  <2>2. /\ Len(u) = Len(s) + Len(t)
        /\ \A i \in 1 .. Len(s) : u[i] = s[i]
        /\ \A i \in 1 .. Len(t) : u[Len(s) + i] = t[i]
    OBVIOUS
  <2>3. SendBlob = s \o t
    BY <1>1, <1>3 DEF SendBlob
  <2> HIDE DEF s, t, u
  <2>4. s \o t = u
    BY <2>1, <2>2, InARow
  <2> QED
    BY <2>3, <2>4 DEF u
<1>5. Sending = <<"adc_stop", "dir_tx", "load", "spin", "led_off">>
  <2> DEFINE s == <<"adc_stop", "dir_tx">>
             t == <<"load", "spin", "led_off">>
             u == <<"adc_stop", "dir_tx", "load", "spin", "led_off">>
  <2>1. s \in Seq(Names) /\ t \in Seq(Names) /\ u \in Seq(Names)
    BY DEF Names
  <2>2. /\ Len(u) = Len(s) + Len(t)
        /\ \A i \in 1 .. Len(s) : u[i] = s[i]
        /\ \A i \in 1 .. Len(t) : u[Len(s) + i] = t[i]
    OBVIOUS
  <2>3. Sending = s \o t
    BY <1>2, <1>4 DEF Sending
  <2> HIDE DEF s, t, u
  <2>4. s \o t = u
    BY <2>1, <2>2, InARow
  <2> QED
    BY <2>3, <2>4 DEF u
<1>6. EnterIdle = <<"adc_stop", "dir_idle">>
  BY <1>1 DEF EnterIdle, Uno
<1> QED
  BY <1>1, <1>3, <1>5, <1>6 DEF EnterRx, Uno

LEMMA ProgramsOfEsp32c3 ==
    ASSUME ~Interrupts
    PROVE  /\ EnterIdle = <<"adc_stop", "dir_idle">>
           /\ Sending = <<"adc_stop", "dir_tx", "rmt_write", "led_off">>
           /\ EnterRx = IF cfg.mode = "analog" THEN <<"dir_rx", "reset_rx", "adc_start">>
                        ELSE <<"dir_rx", "reset_rx">>
<1>1. Program = Esp32c3 /\ board = "esp32c3"
  BY DEF Interrupts, Program
<1>2. EnterTx = <<"adc_stop", "dir_tx">>
  BY <1>1 DEF EnterTx, Esp32c3
<1>4. SendBlob = <<"rmt_write", "led_off">>
  <2> DEFINE s == <<"rmt_write">>
             t == <<"led_off">>
             u == <<"rmt_write", "led_off">>
  <2>1. s \in Seq(Names) /\ t \in Seq(Names) /\ u \in Seq(Names)
    BY DEF Names
  <2>2. /\ Len(u) = Len(s) + Len(t)
        /\ \A i \in 1 .. Len(s) : u[i] = s[i]
        /\ \A i \in 1 .. Len(t) : u[Len(s) + i] = t[i]
    OBVIOUS
  <2>3. SendBlob = s \o t
    BY <1>1 DEF SendBlob
  <2> HIDE DEF s, t, u
  <2>4. s \o t = u
    BY <2>1, <2>2, InARow
  <2> QED
    BY <2>3, <2>4 DEF u
<1>5. Sending = <<"adc_stop", "dir_tx", "rmt_write", "led_off">>
  <2> DEFINE s == <<"adc_stop", "dir_tx">>
             t == <<"rmt_write", "led_off">>
             u == <<"adc_stop", "dir_tx", "rmt_write", "led_off">>
  <2>1. s \in Seq(Names) /\ t \in Seq(Names) /\ u \in Seq(Names)
    BY DEF Names
  <2>2. /\ Len(u) = Len(s) + Len(t)
        /\ \A i \in 1 .. Len(s) : u[i] = s[i]
        /\ \A i \in 1 .. Len(t) : u[Len(s) + i] = t[i]
    OBVIOUS
  <2>3. Sending = s \o t
    BY <1>2, <1>4 DEF Sending
  <2> HIDE DEF s, t, u
  <2>4. s \o t = u
    BY <2>1, <2>2, InARow
  <2> QED
    BY <2>3, <2>4 DEF u
<1>6. EnterIdle = <<"adc_stop", "dir_idle">>
  BY <1>1 DEF EnterIdle, Esp32c3
<1> QED
  BY <1>1, <1>5, <1>6 DEF EnterRx, Esp32c3

\* Every program is made of statements.
LEMMA TextTypes ==
    /\ <<"detach", "adc_stop", "timer_reset", "dir_tx", "bit_clock",
          "load", "count_zero", "arm", "spin", "led_off">> \in Seq(Names)
    /\ <<"timer_off", "irq_off", "detach", "adc_stop", "dir_idle">> \in Seq(Names)
    /\ <<"reset_rx", "timer_reset", "dir_rx", "adc_start", "sample_clock">> \in Seq(Names)
    /\ <<"reset_rx", "timer_reset", "dir_rx", "free_run", "attach">> \in Seq(Names)
    /\ <<"adc_stop", "dir_idle">> \in Seq(Names)
    /\ <<"adc_stop", "dir_tx", "load", "spin", "led_off">> \in Seq(Names)
    /\ <<"reset_rx", "irq_off", "adc_start", "dir_rx">> \in Seq(Names)
    /\ <<"adc_stop", "dir_rx">> \in Seq(Names)
    /\ <<"adc_stop", "dir_tx", "rmt_write", "led_off">> \in Seq(Names)
    /\ <<"dir_rx", "reset_rx", "adc_start">> \in Seq(Names)
    /\ <<"dir_rx", "reset_rx">> \in Seq(Names)
    /\ <<"set_enc", "set_mode">> \in Seq(Names)
BY DEF Names

\* So are those of the board.
LEMMA ProgramTypes ==
    ASSUME board \in Boards
    PROVE  /\ EnterIdle \in Seq(Names) /\ EnterRx \in Seq(Names) /\ Sending \in Seq(Names)
           /\ Configuring \in Seq(Names)
<1>1. CASE board = "samd21"
  BY <1>1, ProgramsOfSamd21, TextTypes, Zenon DEF Configuring
<1>2. CASE board = "uno"
  BY <1>2, ProgramsOfUno, TextTypes, Zenon DEF Configuring
<1>3. CASE ~Interrupts
  BY <1>3, ProgramsOfEsp32c3, TextTypes, Zenon DEF Configuring
<1> QED
  BY <1>1, <1>2, <1>3, ClockAssumption DEF Interrupts

\* They are the board's, and enter_rx's that of the configured mode: nothing else
\* changes them.
LEMMA SamePrograms ==
    ASSUME board' = board, cfg'.mode = cfg.mode
    PROVE  EnterIdle' = EnterIdle /\ EnterRx' = EnterRx /\ Sending' = Sending
BY DEF EnterIdle, EnterRx, Sending, EnterTx, SendBlob, SendByte, Program

-----------------------------------------------------------------------------
(* Types                                                                   *)

\* A frame is a start bit, the data and a stop bit.
LEMMA FrameType == \A b \in Byte : Frame(b) \in Seq({0, 1}) /\ Len(Frame(b)) = FrameBits
<1> SUFFICES ASSUME NEW b \in Byte PROVE Frame(b) \in Seq({0, 1}) /\ Len(Frame(b)) = FrameBits
  OBVIOUS
<1>1. DataBits \in Nat
  BY ClockAssumption
<1>2. b \in Seq({0, 1}) /\ Len(b) = DataBits
  BY <1>1 DEF Byte
<1>3. <<0>> \in Seq({0, 1}) /\ <<1>> \in Seq({0, 1}) /\ Len(<<0>>) = 1 /\ Len(<<1>>) = 1
  OBVIOUS
<1>4. <<0>> \o b \in Seq({0, 1}) /\ Len(<<0>> \o b) = DataBits + 1
  BY <1>1, <1>2, <1>3, ConcatProperties
<1>5. (<<0>> \o b) \o <<1>> \in Seq({0, 1}) /\ Len((<<0>> \o b) \o <<1>>) = DataBits + 2
  BY <1>1, <1>3, <1>4, ConcatProperties
<1> QED
  BY <1>5 DEF Frame, FrameBits

\* The constants as the proofs use them.
LEMMA Constants ==
    /\ BitTicks \in Nat \ {0} /\ Latency \in Nat /\ AgeCap \in Nat /\ RingCap \in Nat
    /\ 2 * Latency < BitTicks /\ AgeCap = BitTicks + Latency + 1
    /\ FrameBits \in 3 .. 255
BY ClockAssumption DEF AgeCap, FrameBits

LEMMA TypedIsTypeOK == Typed => TypeOK
<1> SUFFICES ASSUME Typed PROVE TypeOK
  OBVIOUS
<1>1. Range(ring) \subseteq Kinds
  BY DEF Typed, Range
<1> QED
  BY <1>1 DEF Typed, TypeOK, Timers, Configurations, Commands, Receivers

\* The initial values.
LEMMA ValueTypes ==
    /\ Unconfigured \in Configurations /\ NoCommand \in Commands /\ NoByte \in Receivers
    /\ Stopped \in Timers
    /\ \A use \in Uses, irq \in BOOLEAN : Running(use, irq) \in Timers
    /\ "none" \in Uses /\ "bits" \in Uses /\ "free" \in Uses /\ "samples" \in Uses
    /\ 0 \in 0 .. Latency /\ AgeCap \in 0 .. AgeCap /\ 0 \in 0 .. AgeCap /\ 0 \in 0 .. 255
    /\ Len(<<>>) <= FrameBits /\ <<>> \in Seq({0, 1}) /\ <<>> \in Seq(Kinds)
BY Constants
DEF Unconfigured, Configurations, NoCommand, Commands, NoByte, Receivers, Stopped, Running, Timers,
    Encodings, Modes, Uses

\* What the code writes to a timer leaves it one.
LEMMA TimerEdits ==
    ASSUME NEW t \in Timers, NEW irq \in BOOLEAN
    PROVE  /\ [t EXCEPT !.on = FALSE] \in Timers
           /\ [t EXCEPT !.irq = irq] \in Timers
           /\ [t EXCEPT !.flag = TRUE] \in Timers
           /\ [t EXCEPT !.flag = FALSE, !.irq = irq] \in Timers
           /\ [t EXCEPT !.irq = irq, !.flag = FALSE] \in Timers
           /\ [t EXCEPT !.count = 0] \in Timers
           /\ [t EXCEPT !.irq = irq, !.count = 0] \in Timers
           /\ [t EXCEPT !.irq = irq, !.flag = FALSE, !.count = 0] \in Timers
<1>1. 0 \in 0 .. (BitTicks - 1)
  BY Constants
<1> QED
  BY <1>1 DEF Timers

\* The initial state.
LEMMA TypesInit == Init => Typed
BY ValueTypes DEF Init, Typed

\* A byte is loaded only while there is one.
LoadReady == At("load") => cbuf.blob # <<>>

\* The statements keep the types.
LEMMA TypesStatement == ASSUME Typed, LoadReady, Statement PROVE Typed'
<1>1. CASE SetEncoding
  <2>1. cfg' \in Configurations
    BY <1>1 DEF SetEncoding, Typed, Configurations, Commands
  <2> QED
    BY <1>1, <2>1 DEF SetEncoding, KeepTx, Typed, hwVars, txVars, airVars, rxVars
<1>2. CASE SetMode
  <2>1. cfg' \in Configurations
    BY <1>2 DEF SetMode, Typed, Configurations, Commands
  <2> QED
    BY <1>2, <2>1, ValueTypes DEF SetMode, KeepTx, Typed, hwVars, txVars, airVars, rxVars
<1>3. ASSUME NEW s, NEW t \in Timers, NEW e \in BOOLEAN, NEW a \in BOOLEAN, Hardware(s, t, e, a)
      PROVE  Typed'
  BY <1>3, ValueTypes DEF Hardware, KeepTx, Typed, txVars, airVars, rxVars
<1>4. CASE TimerOff \/ IrqOff \/ Detach \/ AdcStop \/ TimerReset \/ BitClock \/ CountZero \/ Arm
           \/ FreeRun \/ Attach \/ SampleClock \/ AdcStart
  <2>1. /\ timer \in Timers /\ edges \in BOOLEAN /\ adc \in BOOLEAN
        /\ [timer EXCEPT !.on = FALSE] \in Timers /\ [timer EXCEPT !.irq = FALSE] \in Timers
        /\ [timer EXCEPT !.count = 0] \in Timers
        /\ [timer EXCEPT !.irq = TRUE, !.flag = FALSE] \in Timers
    BY TimerEdits DEF Typed
  <2>2. /\ Stopped \in Timers /\ Running("free", FALSE) \in Timers
        /\ Running("samples", TRUE) \in Timers /\ Running("bits", FALSE) \in Timers
    BY ValueTypes
  <2>6. CASE IrqOff
    <3>1. PICK e \in BOOLEAN : Hardware("irq_off", [timer EXCEPT !.irq = FALSE], e, adc)
      BY <2>6 DEF IrqOff
    <3> QED
      BY <1>3, <2>1, <3>1
  <2>3. CASE TimerOff \/ Detach \/ AdcStop
    BY <1>3, <2>1, <2>3 DEF TimerOff, Detach, AdcStop
  <2>4. CASE TimerReset \/ BitClock \/ CountZero \/ Arm
    BY <1>3, <2>1, <2>2, <2>4 DEF TimerReset, BitClock, CountZero, Arm
  <2>5. CASE FreeRun \/ Attach \/ SampleClock \/ AdcStart
    BY <1>3, <2>1, <2>2, <2>5 DEF FreeRun, Attach, SampleClock, AdcStart
  <2> QED
    BY <1>4, <2>3, <2>4, <2>5, <2>6
<1>5. Orphan \in Receivers /\ Orphans \in Seq(Kinds) /\ FreshReceiver \in Receivers
  <2>1. Orphan \in Receivers
    BY DEF Typed, Orphan, Receivers, Kinds
  <2>2. Orphans \in Seq(Kinds)
    BY DEF Typed, Orphans, Kinds
  <2>3. FreshReceiver \in Receivers
    BY DEF Typed, FreshReceiver, Receivers
  <2> QED
    BY <2>1, <2>2, <2>3
<1>6. CASE DirIdle
  <2>1. timer' \in Timers /\ edges' \in BOOLEAN
    BY <1>6, TimerEdits DEF DirIdle, Typed
  <2>2. rx' \in Receivers /\ ring' \in Seq(Kinds) /\ setup' \in Configurations /\ host' = host
    BY <1>5, <1>6, ValueTypes DEF DirIdle, LeaveRx
  <2> QED
    BY <1>6, <2>1, <2>2, ValueTypes DEF DirIdle, Typed, airVars
<1>7. CASE DirTx
  <2>1. timer' \in Timers /\ edges' \in BOOLEAN
    BY <1>7, ValueTypes DEF DirTx, Typed
  <2>2. rx' \in Receivers /\ ring' \in Seq(Kinds) /\ setup' \in Configurations /\ host' = host
    BY <1>5, <1>7, ValueTypes DEF DirTx, LeaveRx
  <2> QED
    BY <1>7, <2>1, <2>2, ValueTypes DEF DirTx, Typed, airVars
<1>8. CASE Load
  <2>1. cbuf.blob \in Seq(Byte) /\ cbuf.blob # <<>>
    BY <1>8 DEF Load, Do, LoadReady, Typed, Commands
  <2>2. Head(cbuf.blob) \in Byte /\ Tail(cbuf.blob) \in Seq(Byte)
    BY <2>1
  <2>3. cbuf' \in Commands
    BY <1>8, <2>2 DEF Load, Typed, Commands
  <2>4. bits' \in Seq({0, 1}) /\ Len(bits') = FrameBits /\ left' \in 0 .. 255 /\ FrameBits \in Nat
    BY <1>8, <2>2, FrameType, Constants DEF Load
  <2>5. timer' \in Timers /\ late' \in 0 .. Latency
    BY <1>8, TimerEdits, ValueTypes DEF Load, Typed
  <2> QED
    BY <1>8, <2>3, <2>4, <2>5 DEF Load, Typed, airVars, rxVars
<1>9. CASE Spin
  BY <1>9 DEF Spin, Typed, hwVars, txVars, airVars, rxVars
<1>10. CASE LedOff
  BY <1>10 DEF LedOff, Typed, hwVars, rxVars
<1>11. CASE RmtWrite
  <2>1. cbuf' \in Commands
    <3>1. cbuf' = [cbuf EXCEPT !.blob = <<>>] /\ <<>> \in Seq(Byte)
      BY <1>11 DEF RmtWrite
    <3> QED
      BY <3>1 DEF Typed, Commands
  <2> QED
    BY <1>11, <2>1 DEF RmtWrite, Typed, hwVars, txVars, rxVars
<1>12. CASE ResetRx
  BY <1>5, <1>12, ValueTypes
  DEF ResetRx, FreshRing, KeepTx, Typed, hwVars, txVars, airVars
<1>13. CASE DirRx
  <2>1. timer' \in Timers /\ edges' \in BOOLEAN /\ rx' \in Receivers /\ ring' \in Seq(Kinds)
    BY <1>5, <1>13, ValueTypes DEF DirRx, FreshRing, Typed
  <2> QED
    BY <1>13, <2>1, ValueTypes DEF DirRx, KeepTx, Typed, txVars, airVars
<1> QED
  BY <1>1, <1>2, <1>4, <1>6, <1>7, <1>8, <1>9, <1>10, <1>11, <1>12, <1>13 DEF Statement

\* What a receiver makes of its byte has a kind.
LEMMA ReceiverTypes ==
    ASSUME Typed, NEW m \in Modes
    PROVE  /\ Begin(m) => rx' \in Receivers /\ ring' \in Seq(Kinds)
           /\ GoOn(m) => rx' \in Receivers /\ ring' \in Seq(Kinds)
           /\ Finish(m) => rx' \in Receivers /\ ring' \in Seq(Kinds)
           /\ ByteReceived(rx[m]) => ring' \in Seq(Kinds)
           /\ [rx EXCEPT ![m] = Mixed("own")] \in Receivers
<1>0. /\ rx \in Receivers /\ ring \in Seq(Kinds)
      /\ Mixed("own") \in Kinds /\ Mixed(rx[m]) \in Kinds
  BY DEF Typed, Mixed, Kinds
<1>1. [rx EXCEPT ![m] = Mixed("own")] \in Receivers /\ [rx EXCEPT ![m] = Mixed(@)] \in Receivers
      /\ [rx EXCEPT ![m] = "idle"] \in Receivers
  BY <1>0 DEF Receivers
<1>2. ByteReceived(rx[m]) => ring' \in Seq(Kinds)
  BY <1>0 DEF ByteReceived
<1> QED
  BY <1>0, <1>1, <1>2 DEF Begin, GoOn, Finish

\* The interrupts, time and the poll keep the types.
LEMMA TypesInterrupt == ASSUME Typed, EdgeIsr \/ TimerIsr \/ Poll \/ Tick PROVE Typed'
<1>0. "digital" \in Modes /\ "analog" \in Modes /\ timer \in Timers
  BY DEF Modes, Typed
<1>1. CASE EdgeIsr
  <2>1. timer' \in Timers /\ late' \in 0 .. Latency
    BY <1>1, TimerEdits, ValueTypes DEF EdgeIsr, Typed
  <2>2. rx' \in Receivers /\ ring' \in Seq(Kinds)
    BY <1>0, <1>1, ReceiverTypes DEF EdgeIsr
  <2> QED
    BY <1>1, <2>1, <2>2 DEF EdgeIsr, KeepLoop, KeepTx, Typed, txVars, airVars
<1>2. CASE BitIsr
  <2>1. timer' \in Timers /\ late' \in 0 .. Latency
    BY <1>2, TimerEdits, ValueTypes DEF BitIsr, Served, UnlessDone, Typed
  <2>2. bits' \in Seq({0, 1}) /\ Len(bits') <= FrameBits
    BY <1>2, Constants DEF BitIsr, Typed
  <2>3. left' \in 0 .. 255
    BY <1>2 DEF BitIsr, Typed
  <2>4. age' \in 0 .. AgeCap
    BY <1>2, ValueTypes DEF BitIsr, CellBegins
  <2>5. led' \in BOOLEAN
    BY <1>2 DEF BitIsr
  <2> QED
    BY <1>2, <2>1, <2>2, <2>3, <2>4, <2>5 DEF BitIsr, KeepLoop, Quiet, Typed
<1>3. CASE SampleIsr
  <2>1. timer.irq \in BOOLEAN
    BY <1>0 DEF Timers
  <2>2. timer' \in Timers /\ late' \in 0 .. Latency
    BY <1>3, <2>1, TimerEdits, ValueTypes DEF SampleIsr, Served, Typed
  <2>3. rx' \in Receivers /\ ring' \in Seq(Kinds)
    BY <1>0, <1>3, ReceiverTypes DEF SampleIsr, Quiet, Typed
  <2> QED
    BY <1>3, <2>2, <2>3 DEF SampleIsr, KeepLoop, KeepTx, Typed, txVars, airVars
<1>4. CASE CompareIsr
  <2>1. timer.irq \in BOOLEAN
    BY <1>0 DEF Timers
  <2>2. timer' \in Timers /\ late' \in 0 .. Latency
    BY <1>4, <2>1, TimerEdits, ValueTypes DEF CompareIsr, Served, Typed
  <2>3. rx' \in Receivers /\ ring' \in Seq(Kinds)
    BY <1>0, <1>4, ReceiverTypes DEF CompareIsr
  <2> QED
    BY <1>4, <2>2, <2>3 DEF CompareIsr, KeepLoop, KeepTx, Typed, txVars, airVars
<1>5. CASE Poll
  <2>1. rx' \in Receivers /\ ring' \in Seq(Kinds)
    BY <1>0, <1>5, ReceiverTypes DEF Poll
  <2> QED
    BY <1>5, <2>1 DEF Poll, KeepLoop, KeepTx, Typed, txVars, airVars
<1>6. CASE Tick
  <2>1. late' \in 0 .. Latency /\ age' \in 0 .. AgeCap
    BY <1>6, Constants, ValueTypes DEF Tick, Typed
  <2>2. \A t \in Match : t \in Timers
    <3>1. /\ timer.count + 1 \in Nat
          /\ (timer.count + 1) % BitTicks \in 0 .. (BitTicks - 1)
          /\ timer.flag \in BOOLEAN
      BY <1>0, Constants DEF Timers
    <3>2. [timer EXCEPT !.count = (@ + 1) % BitTicks,
                        !.flag = @ \/ timer.count + 1 = BitTicks] \in Timers
      BY <1>0, <3>1 DEF Timers
    <3> QED
      BY <1>0, <3>2, TimerEdits DEF Match
  <2>3. timer' \in Timers
    BY <1>0, <1>6, <2>2 DEF Tick
  <2> QED
    BY <1>6, <2>1, <2>3 DEF Tick, KeepLoop, Quiet, Typed, txVars
<1> QED
  BY <1>1, <1>2, <1>3, <1>4, <1>5, <1>6 DEF TimerIsr

\* So do the commands and the forwarding.
LEMMA TypesLoop == ASSUME Typed, Host \/ Forward PROVE Typed'
<1>1. ASSUME NEW e \in Encodings, NEW m \in Modes, Config(e, m) PROVE Typed'
  <2>1. cbuf' \in Commands
    BY <1>1 DEF Config, Typed, Commands
  <2> QED
    BY <1>1, <2>1 DEF Config, Command, Typed, hwVars, txVars, rxVars
<1>2. ASSUME NEW blob \in Blobs, NEW auto \in BOOLEAN, Transmit(blob, auto) PROVE Typed'
  <2>1. blob \in Seq(Byte)
    BY ClockAssumption DEF Byte
  <2>2. cbuf' \in Commands
    BY <1>2, <2>1 DEF Transmit, Typed, Commands
  <2> QED
    BY <1>2, <2>2 DEF Transmit, Command, Typed, hwVars, txVars, rxVars
<1>3. CASE Listen \/ Stop
  <2>1. /\ UNCHANGED <<board, cfg, dir, hwVars, late, txVars, line, age, rxVars>>
        /\ UNCHANGED <<cbuf, asked>>
    BY <1>3 DEF Listen, Stop, Command
  <2> QED
    BY <2>1 DEF Typed, hwVars, txVars, rxVars
<1>4. CASE Forward
  <2>1. ring' \in Seq(Kinds) /\ host' \subseteq Kinds
    BY <1>4 DEF Forward, Typed, Range
  <2> QED
    BY <1>4, <2>1 DEF Forward, Typed, hwVars, txVars, airVars
<1> QED
  BY <1>1, <1>2, <1>3, <1>4 DEF Host

-----------------------------------------------------------------------------
(* Where a statement leads                                                 *)

\* The statement executed is the one at the head of what remains.
LEMMA StatementAt ==
    ASSUME Statement
    PROVE  /\ todo # <<>>
           /\ Head(todo) = "set_enc" => SetEncoding
           /\ Head(todo) = "set_mode" => SetMode
           /\ Head(todo) = "timer_off" => TimerOff
           /\ Head(todo) = "irq_off" => IrqOff
           /\ Head(todo) = "detach" => Detach
           /\ Head(todo) = "adc_stop" => AdcStop
           /\ Head(todo) = "timer_reset" => TimerReset
           /\ Head(todo) = "dir_idle" => DirIdle
           /\ Head(todo) = "dir_tx" => DirTx
           /\ Head(todo) = "bit_clock" => BitClock
           /\ Head(todo) = "load" => Load
           /\ Head(todo) = "count_zero" => CountZero
           /\ Head(todo) = "arm" => Arm
           /\ Head(todo) = "spin" => Spin
           /\ Head(todo) = "led_off" => LedOff
           /\ Head(todo) = "rmt_write" => RmtWrite
           /\ Head(todo) = "reset_rx" => ResetRx
           /\ Head(todo) = "dir_rx" => DirRx
           /\ Head(todo) = "free_run" => FreeRun
           /\ Head(todo) = "attach" => Attach
           /\ Head(todo) = "adc_start" => AdcStart
           /\ Head(todo) = "sample_clock" => SampleClock
<1>1. /\ SetEncoding => At("set_enc")
      /\ SetMode => At("set_mode")
      /\ TimerOff => At("timer_off")
      /\ IrqOff => At("irq_off")
      /\ Detach => At("detach")
      /\ AdcStop => At("adc_stop")
      /\ TimerReset => At("timer_reset")
      /\ DirIdle => At("dir_idle")
      /\ DirTx => At("dir_tx")
      /\ BitClock => At("bit_clock")
      /\ Load => At("load")
      /\ CountZero => At("count_zero")
      /\ Arm => At("arm")
      /\ Spin => At("spin")
      /\ LedOff => At("led_off")
      /\ RmtWrite => At("rmt_write")
      /\ ResetRx => At("reset_rx")
      /\ DirRx => At("dir_rx")
      /\ FreeRun => At("free_run")
      /\ Attach => At("attach")
      /\ AdcStart => At("adc_start")
      /\ SampleClock => At("sample_clock")
  BY DEF Do, At, Hardware, SetEncoding, SetMode, TimerOff, IrqOff, Detach, AdcStop, TimerReset,
      DirIdle, DirTx, BitClock, Load, CountZero, Arm, Spin, LedOff, RmtWrite, ResetRx, DirRx,
      FreeRun, Attach, AdcStart, SampleClock
<1> QED
  BY <1>1 DEF Statement, At

\* It goes on by one, but for the loop of send_blob, and touches neither the board nor
\* what the host has; only a configuration touches the configuration.
LEMMA StatementMoves ==
    ASSUME Statement
    PROVE  /\ board' = board /\ host' = host
           /\ Head(todo) # "spin" => todo' = Tail(todo)
           /\ Head(todo) \notin {"set_enc", "set_mode"} => cfg' = cfg
<1>1. CASE \/ TimerOff \/ IrqOff \/ Detach \/ AdcStop \/ TimerReset \/ BitClock \/ CountZero
           \/ Arm \/ FreeRun \/ Attach \/ SampleClock \/ AdcStart
  BY <1>1
  DEF Hardware, Do, rxVars, TimerOff, IrqOff, Detach, AdcStop, TimerReset, BitClock, CountZero,
      Arm, FreeRun, Attach, SampleClock, AdcStart
<1>2. CASE SetEncoding \/ SetMode
  BY <1>2 DEF SetEncoding, SetMode, Do, At, rxVars
<1>3. CASE DirIdle \/ DirTx \/ DirRx \/ ResetRx
  BY <1>3 DEF DirIdle, DirTx, DirRx, ResetRx, LeaveRx, Do
<1>4. CASE Load \/ Spin \/ LedOff \/ RmtWrite
  BY <1>4 DEF Load, Spin, LedOff, RmtWrite, Do, At, rxVars
<1> QED
  BY <1>1, <1>2, <1>3, <1>4 DEF Statement

\* The statement at each place, and what remains after it.
LEMMA PlaceStep ==
    ASSUME board \in Boards
    PROVE  /\ From(EnterIdle, 1, <<>>) = EnterIdle
           /\ From(EnterRx, 1, <<>>) = EnterRx
           /\ \A k \in 1 .. Len(Configuring) : InConfig(k) =>
                /\ ~AtEase /\ Head(todo) = Configuring[k]
                /\ Tail(todo) = From(Configuring, k + 1, EnterIdle)
           /\ \A k \in 1 .. Len(EnterIdle) : InIdle(k) =>
                /\ ~AtEase /\ Head(todo) = EnterIdle[k]
                /\ Tail(todo) = From(EnterIdle, k + 1, <<>>)
           /\ \A k \in 1 .. Len(EnterRx) : InRx(k) =>
                /\ ~AtEase /\ Head(todo) = EnterRx[k]
                /\ Tail(todo) = From(EnterRx, k + 1, <<>>)
           /\ \A k \in 1 .. Len(Sending), rest \in {EnterIdle, EnterRx} : InTx(k, rest) =>
                /\ ~AtEase /\ Head(todo) = Sending[k]
                /\ Tail(todo) = From(Sending, k + 1, rest)
           /\ \A P \in {EnterIdle, EnterRx} : From(P, Len(P) + 1, <<>>) = <<>>
           /\ \A rest \in {EnterIdle, EnterRx} :
                /\ From(Sending, 1, rest) = Sending \o rest
                /\ From(Sending, Len(Sending) + 1, rest) = rest
                /\ From(Configuring, 1, rest) = Configuring \o rest
                /\ From(Configuring, Len(Configuring) + 1, rest) = rest
<1>1. /\ EnterIdle \in Seq(Names) /\ EnterRx \in Seq(Names) /\ Sending \in Seq(Names)
      /\ Configuring \in Seq(Names) /\ <<>> \in Seq(Names)
  BY ProgramTypes
<1>2. EnterIdle \o <<>> = EnterIdle /\ EnterRx \o <<>> = EnterRx
  BY <1>1, ConcatEmptySeq
<1>3. /\ \A P \in {EnterIdle, EnterRx} : From(P, 1, <<>>) = P /\ From(P, Len(P) + 1, <<>>) = <<>>
      /\ \A rest \in {EnterIdle, EnterRx} :
           /\ From(Sending, 1, rest) = Sending \o rest
           /\ From(Sending, Len(Sending) + 1, rest) = rest
           /\ From(Configuring, 1, rest) = Configuring \o rest
           /\ From(Configuring, Len(Configuring) + 1, rest) = rest
  <2>1. \A P \in Seq(Names), rest \in Seq(Names) :
          From(P, 1, rest) = P \o rest /\ From(P, Len(P) + 1, rest) = rest
    BY FromEnds
  <2>2. ASSUME NEW P \in {EnterIdle, EnterRx}
        PROVE  From(P, 1, <<>>) = P /\ From(P, Len(P) + 1, <<>>) = <<>>
    <3>1. P \in Seq(Names) /\ P \o <<>> = P
      BY <1>1, <1>2
    <3> QED
      BY <1>1, <2>1, <3>1, Zenon
  <2>3. ASSUME NEW rest \in {EnterIdle, EnterRx}
        PROVE  /\ From(Sending, 1, rest) = Sending \o rest
               /\ From(Sending, Len(Sending) + 1, rest) = rest
               /\ From(Configuring, 1, rest) = Configuring \o rest
               /\ From(Configuring, Len(Configuring) + 1, rest) = rest
    <3>1. rest \in Seq(Names)
      BY <1>1
    <3> QED
      BY <1>1, <2>1, <3>1, Zenon
  <2> QED
    BY <2>2, <2>3
<1>4. ASSUME NEW k \in 1 .. Len(Configuring), InConfig(k)
      PROVE  /\ ~AtEase /\ Head(todo) = Configuring[k]
             /\ Tail(todo) = From(Configuring, k + 1, EnterIdle)
  BY <1>1, <1>4, FromStep DEF InConfig, AtEase
<1>5. ASSUME NEW k \in 1 .. Len(EnterIdle), InIdle(k)
      PROVE  /\ ~AtEase /\ Head(todo) = EnterIdle[k]
             /\ Tail(todo) = From(EnterIdle, k + 1, <<>>)
  BY <1>1, <1>5, FromStep DEF InIdle, AtEase
<1>6. ASSUME NEW k \in 1 .. Len(EnterRx), InRx(k)
      PROVE  /\ ~AtEase /\ Head(todo) = EnterRx[k]
             /\ Tail(todo) = From(EnterRx, k + 1, <<>>)
  BY <1>1, <1>6, FromStep DEF InRx, AtEase
<1>7. ASSUME NEW k \in 1 .. Len(Sending), NEW rest \in {EnterIdle, EnterRx}, InTx(k, rest)
      PROVE  /\ ~AtEase /\ Head(todo) = Sending[k]
             /\ Tail(todo) = From(Sending, k + 1, rest)
  BY <1>1, <1>7, FromStep DEF InTx, AtEase
<1> QED
  BY <1>3, <1>4, <1>5, <1>6, <1>7, Zenon

\* The programs statement by statement.
LEMMA IdleText ==
    ASSUME board \in Boards
    PROVE  /\ board = "samd21" =>
                /\ Len(EnterIdle) = 5
                /\ EnterIdle[1] = "timer_off" /\ EnterIdle[2] = "irq_off" /\ EnterIdle[3] = "detach"
                /\ EnterIdle[4] = "adc_stop" /\ EnterIdle[5] = "dir_idle"
           /\ board # "samd21" =>
                Len(EnterIdle) = 2 /\ EnterIdle[1] = "adc_stop" /\ EnterIdle[2] = "dir_idle"
BY ProgramsOfSamd21, ProgramsOfUno, ProgramsOfEsp32c3, ClockAssumption DEF Interrupts

LEMMA TxText ==
    ASSUME board \in Boards
    PROVE  /\ board = "samd21" =>
                /\ Len(Sending) = 10
                /\ Sending[1] = "detach" /\ Sending[2] = "adc_stop" /\ Sending[3] = "timer_reset"
                /\ Sending[4] = "dir_tx" /\ Sending[5] = "bit_clock" /\ Sending[6] = "load"
                /\ Sending[7] = "count_zero" /\ Sending[8] = "arm" /\ Sending[9] = "spin"
                /\ Sending[10] = "led_off"
           /\ board = "uno" =>
                /\ Len(Sending) = 5
                /\ Sending[1] = "adc_stop" /\ Sending[2] = "dir_tx" /\ Sending[3] = "load"
                /\ Sending[4] = "spin" /\ Sending[5] = "led_off"
           /\ ~Interrupts =>
                /\ Len(Sending) = 4
                /\ Sending[1] = "adc_stop" /\ Sending[2] = "dir_tx" /\ Sending[3] = "rmt_write"
                /\ Sending[4] = "led_off"
BY ProgramsOfSamd21, ProgramsOfUno, ProgramsOfEsp32c3

LEMMA RxText ==
    ASSUME board \in Boards
    PROVE  /\ board = "samd21" =>
                /\ Len(EnterRx) = 5
                /\ EnterRx[1] = "reset_rx" /\ EnterRx[2] = "timer_reset" /\ EnterRx[3] = "dir_rx"
                /\ cfg.mode = "analog" => EnterRx[4] = "adc_start" /\ EnterRx[5] = "sample_clock"
                /\ cfg.mode # "analog" => EnterRx[4] = "free_run" /\ EnterRx[5] = "attach"
           /\ board = "uno" /\ cfg.mode = "analog" =>
                /\ Len(EnterRx) = 4
                /\ EnterRx[1] = "reset_rx" /\ EnterRx[2] = "irq_off" /\ EnterRx[3] = "adc_start"
                /\ EnterRx[4] = "dir_rx"
           /\ board = "uno" /\ cfg.mode # "analog" =>
                Len(EnterRx) = 2 /\ EnterRx[1] = "adc_stop" /\ EnterRx[2] = "dir_rx"
           /\ ~Interrupts =>
                /\ Len(EnterRx) = IF cfg.mode = "analog" THEN 3 ELSE 2
                /\ EnterRx[1] = "dir_rx" /\ EnterRx[2] = "reset_rx"
                /\ cfg.mode = "analog" => EnterRx[3] = "adc_start"
BY ProgramsOfSamd21, ProgramsOfUno, ProgramsOfEsp32c3

-----------------------------------------------------------------------------
(* The outline                                                             *)

\* From a place to the next.
LEMMA IdleOn ==
    ASSUME board \in Boards, board' = board, cfg'.mode = cfg.mode, todo' = Tail(todo),
           NEW k \in 1 .. Len(EnterIdle), InIdle(k)
    PROVE  /\ k < Len(EnterIdle) /\ IdleOK(k + 1)' => CommandOK'
           /\ k = Len(EnterIdle) /\ EaseOK' => CommandOK'
<1>1. todo' = From(EnterIdle, k + 1, <<>>) /\ EnterIdle' = EnterIdle
  BY PlaceStep, SamePrograms
<1>2. CASE k < Len(EnterIdle)
  <2>1. k + 1 \in 1 .. Len(EnterIdle') /\ InIdle(k + 1)'
    BY <1>1, <1>2 DEF InIdle
  <2> QED
    BY <1>2, <2>1 DEF CommandOK
<1>3. CASE k = Len(EnterIdle)
  BY <1>1, <1>3, PlaceStep DEF CommandOK, AtEase
<1> QED
  BY <1>2, <1>3

LEMMA RxOn ==
    ASSUME board \in Boards, board' = board, cfg'.mode = cfg.mode, todo' = Tail(todo),
           NEW k \in 1 .. Len(EnterRx), InRx(k)
    PROVE  /\ k < Len(EnterRx) /\ RxOK(k + 1)' => CommandOK'
           /\ k = Len(EnterRx) /\ EaseOK' => CommandOK'
<1>1. todo' = From(EnterRx, k + 1, <<>>) /\ EnterRx' = EnterRx
  BY PlaceStep, SamePrograms
<1>2. CASE k < Len(EnterRx)
  <2>1. k + 1 \in 1 .. Len(EnterRx') /\ InRx(k + 1)'
    BY <1>1, <1>2 DEF InRx
  <2> QED
    BY <1>2, <2>1 DEF CommandOK
<1>3. CASE k = Len(EnterRx)
  BY <1>1, <1>3, PlaceStep DEF CommandOK, AtEase
<1> QED
  BY <1>2, <1>3

LEMMA TxOn ==
    ASSUME board \in Boards, board' = board, cfg'.mode = cfg.mode, todo' = Tail(todo),
           NEW k \in 1 .. Len(Sending), NEW rest \in {EnterIdle, EnterRx}, InTx(k, rest)
    PROVE  /\ k < Len(Sending) /\ TxOK(k + 1)' => CommandOK'
           /\ k = Len(Sending) /\ IdleOK(1)' /\ RxOK(1)' => CommandOK'
<1>1. /\ todo' = From(Sending, k + 1, rest)
      /\ Sending' = Sending /\ EnterIdle' = EnterIdle /\ EnterRx' = EnterRx
  BY PlaceStep, SamePrograms
<1>2. CASE k < Len(Sending)
  <2>1. k + 1 \in 1 .. Len(Sending') /\ rest \in {EnterIdle', EnterRx'} /\ InTx(k + 1, rest)'
    BY <1>1, <1>2 DEF InTx
  <2> QED
    BY <1>2, <2>1 DEF CommandOK
<1>3. CASE k = Len(Sending) /\ IdleOK(1)' /\ RxOK(1)'
  <2>1. todo' = rest
    BY <1>1, <1>3, PlaceStep
  <2>2. 1 \in 1 .. Len(EnterIdle') /\ 1 \in 1 .. Len(EnterRx')
    BY <1>1, IdleText, RxText, ClockAssumption DEF Interrupts
  <2>3. InIdle(1)' \/ InRx(1)'
    BY <1>1, <2>1, <2>2, PlaceStep DEF InIdle, InRx
  <2> QED
    BY <1>3, <2>2, <2>3 DEF CommandOK
<1> QED
  BY <1>2, <1>3

\* The records as the outline reads them.
LEMMA Fields ==
    ASSUME Typed
    PROVE  /\ timer = [on |-> timer.on, irq |-> timer.irq, flag |-> timer.flag,
                       count |-> timer.count, use |-> timer.use]
           /\ timer.on \in BOOLEAN /\ timer.irq \in BOOLEAN /\ timer.flag \in BOOLEAN
           /\ cfg.mode \in Modes /\ edges \in BOOLEAN /\ left \in 0 .. 255
           /\ rx \in [Modes -> {"idle"} \cup Kinds]
           /\ board \in Boards
           /\ board = "samd21" \/ board = "uno" \/ ~Interrupts
BY ClockAssumption DEF Typed, Timers, Configurations, Receivers, Interrupts

\* enter_idle.
LEMMA IdleStep ==
    ASSUME Typed, Quietness, NEW k \in 1 .. Len(EnterIdle), InIdle(k), IdleOK(k), Statement
    PROVE  Quietness' /\ CommandOK'
<1>0. /\ board \in Boards /\ Head(todo) = EnterIdle[k]
      /\ board = "samd21" \/ board = "uno" \/ ~Interrupts
  BY Fields, PlaceStep
<1>1. /\ board' = board /\ cfg' = cfg /\ todo' = Tail(todo)
      /\ Interrupts' = Interrupts
  <2>1. EnterIdle[k] \notin {"set_enc", "set_mode", "spin"}
    BY <1>0, IdleText DEF Interrupts
  <2> QED
    BY <1>0, <2>1, StatementMoves DEF Interrupts
<1>2. /\ k < Len(EnterIdle) /\ IdleOK(k + 1)' => CommandOK'
      /\ k = Len(EnterIdle) /\ EaseOK' => CommandOK'
  BY <1>0, <1>1, IdleOn
<1>3. CASE board = "samd21"
  <2>0. k \in 1 .. 5 /\ Len(EnterIdle) = 5 /\ Interrupts
    BY <1>0, <1>3, IdleText DEF Interrupts
  <2>1. CASE k = 1
    <3>1. TimerOff
      BY <1>0, <1>3, <2>1, IdleText, StatementAt
    <3> QED
      BY <1>1, <1>2, <1>3, <2>0, <2>1, <3>1, Fields
      DEF TimerOff, Hardware, KeepTx, txVars, IdleOK, Drained, Quietness, Silent
  <2>2. CASE k = 2
    <3>1. IrqOff
      BY <1>0, <1>3, <2>2, IdleText, StatementAt
    <3> QED
      BY <1>1, <1>2, <1>3, <2>0, <2>2, <3>1, Fields
      DEF IrqOff, Hardware, KeepTx, txVars, IdleOK, Drained, Quietness, Silent
  <2>3. CASE k = 3
    <3>1. Detach
      BY <1>0, <1>3, <2>3, IdleText, StatementAt
    <3> QED
      BY <1>1, <1>2, <1>3, <2>0, <2>3, <3>1, Fields
      DEF Detach, Hardware, KeepTx, txVars, IdleOK, Drained, Quietness, Silent
  <2>4. CASE k = 4
    <3>1. AdcStop
      BY <1>0, <1>3, <2>4, IdleText, StatementAt
    <3> QED
      BY <1>1, <1>2, <1>3, <2>0, <2>4, <3>1, Fields
      DEF AdcStop, Hardware, KeepTx, txVars, IdleOK, Drained, Quietness, Silent
  <2>5. CASE k = 5
    <3>1. DirIdle
      BY <1>0, <1>3, <2>5, IdleText, StatementAt
    <3> QED
      BY <1>1, <1>2, <1>3, <2>0, <2>5, <3>1, Fields
      DEF DirIdle, IdleOK, EaseOK, Quietness, Silent
  <2> QED
    BY <2>0, <2>1, <2>2, <2>3, <2>4, <2>5
<1>4. CASE board # "samd21"
  <2>0. k \in 1 .. 2 /\ Len(EnterIdle) = 2
    BY <1>0, <1>4, IdleText
  <2>1. CASE k = 1
    <3>1. AdcStop
      BY <1>0, <1>4, <2>1, IdleText, StatementAt
    <3> QED
      BY <1>1, <1>2, <1>4, <2>0, <2>1, <3>1, Fields
      DEF AdcStop, Hardware, KeepTx, txVars, IdleOK, Drained, Quietness, Silent
  <2>2. CASE k = 2
    <3>1. DirIdle
      BY <1>0, <1>4, <2>2, IdleText, StatementAt
    <3>2. EaseOK' /\ dir' = "idle"
      BY <3>1 DEF DirIdle, EaseOK
    <3>3. CASE board = "uno"
      BY <1>1, <1>2, <2>0, <2>2, <3>1, <3>2, <3>3, Fields
      DEF DirIdle, Quietness, Silent, Interrupts
    <3>4. CASE ~Interrupts
      BY <1>1, <1>2, <2>0, <2>2, <3>1, <3>2, <3>4
      DEF DirIdle, Quietness, Silent, Stopped, Interrupts
    <3> QED
      BY <1>0, <1>4, <3>3, <3>4
  <2> QED
    BY <2>0, <2>1, <2>2
<1> QED
  BY <1>3, <1>4

\* CMD_CONFIG.
LEMMA ConfigStep ==
    ASSUME Typed, Quietness, NEW k \in 1 .. Len(Configuring), InConfig(k), dir # "tx", Statement
    PROVE  Quietness' /\ CommandOK'
<1>0. /\ board \in Boards /\ Head(todo) = Configuring[k]
      /\ Tail(todo) = From(Configuring, k + 1, EnterIdle)
  BY Fields, PlaceStep
<1>1. /\ Len(Configuring) = 2 /\ Configuring[1] = "set_enc"
      /\ Configuring[2] = "set_mode" /\ k \in 1 .. 2
  BY DEF Configuring
<1>2. CASE k = 1
  <2>1. SetEncoding
    BY <1>0, <1>1, <1>2, StatementAt
  <2>2. /\ todo' = Tail(todo) /\ board' = board /\ cfg'.mode = cfg.mode /\ dir' = dir
        /\ UNCHANGED <<timer, edges, left>>
    BY <2>1 DEF SetEncoding, Do, KeepTx, Typed, Configurations, hwVars, txVars
  <2>3. EnterIdle' = EnterIdle /\ 2 \in 1 .. Len(Configuring')
    BY <1>1, <2>2, SamePrograms DEF Configuring
  <2>4. InConfig(2)'
    BY <1>0, <1>2, <2>2, <2>3 DEF InConfig, Configuring
  <2> QED
    BY <2>2, <2>3, <2>4 DEF CommandOK, Quietness, Silent, Interrupts
<1>3. CASE k = 2
  <2>1. SetMode
    BY <1>0, <1>1, <1>3, StatementAt
  <2>2. /\ todo' = Tail(todo) /\ board' = board /\ dir' = dir
        /\ UNCHANGED <<timer, edges, left>>
    BY <2>1 DEF SetMode, Do, KeepTx, hwVars, txVars
  <2>3. todo' = EnterIdle /\ EnterIdle' = EnterIdle
    BY <1>0, <1>1, <1>3, <2>2, PlaceStep DEF EnterIdle, Program
  <2>4. /\ 1 \in 1 .. Len(EnterIdle') /\ From(EnterIdle, 1, <<>>) = EnterIdle
    BY <1>0, <2>3, IdleText, PlaceStep
  <2>5. InIdle(1)' /\ IdleOK(1)'
    BY <2>2, <2>3, <2>4 DEF InIdle, IdleOK, Drained
  <2> QED
    BY <2>2, <2>4, <2>5 DEF CommandOK, Quietness, Silent, Interrupts
<1> QED
  BY <1>1, <1>2, <1>3

\* A piece of a program and what remains after it.
LEMMA FromJoin ==
    ASSUME NEW P \in Seq(Names), NEW rest \in Seq(Names),
           NEW j \in 1 .. Len(P), NEW k \in j .. Len(P)
    PROVE  SubSeq(P, j, k) \o From(P, k + 1, rest) = From(P, j, rest)
<1> DEFINE n == Len(P)
           a == SubSeq(P, j, k)
           b == SubSeq(P, k + 1, n)
<1>0. n \in Nat /\ j \in 1 .. n + 1 /\ k \in j - 1 .. n /\ n \in k .. n
  OBVIOUS
<1>1. a \o b = SubSeq(P, j, n)
  BY <1>0, ConcatAdjacentSubSeq
<1>2. a \in Seq(Names) /\ b \in Seq(Names)
  BY <1>0
<1> HIDE DEF a, b, n
<1>3. (a \o b) \o rest = a \o (b \o rest)
  BY <1>2, ConcatAssociative
<1> QED
  BY <1>1, <1>3 DEF From, a, b, n

\* The loop of send_blob goes back to the load of the next byte.
LEMMA SpinBack ==
    ASSUME board \in Boards, NEW rest \in {EnterIdle, EnterRx}
    PROVE  /\ board = "samd21" => SendByte \o From(Sending, 10, rest) = From(Sending, 6, rest)
           /\ board = "uno" => SendByte \o From(Sending, 5, rest) = From(Sending, 3, rest)
<1>0. Sending \in Seq(Names) /\ rest \in Seq(Names)
  BY ProgramTypes
<1>1. ASSUME board = "samd21"
      PROVE  SendByte \o From(Sending, 10, rest) = From(Sending, 6, rest)
  <2> DEFINE t == <<"load", "count_zero", "arm", "spin">>
  <2>1. /\ SendByte = t
        /\ Len(Sending) = 10 /\ Sending[6] = "load" /\ Sending[7] = "count_zero"
        /\ Sending[8] = "arm" /\ Sending[9] = "spin"
    BY <1>1, ProgramsOfSamd21, TxText
  <2>2. /\ t \in Seq(Names) /\ Len(t) = 4
        /\ t[1] = "load" /\ t[2] = "count_zero" /\ t[3] = "arm" /\ t[4] = "spin"
    BY DEF Names
  <2> HIDE DEF t
  <2>3. t = SubSeq(Sending, 6, 9)
    <3>1. 6 \in 1 .. Len(Sending) /\ 9 \in 1 .. Len(Sending)
      BY <2>1
    <3>2. /\ SubSeq(Sending, 6, 9) \in Seq(Names)
          /\ Len(SubSeq(Sending, 6, 9)) = 9 - 6 + 1
          /\ \A i \in 1 .. 9 - 6 + 1 : SubSeq(Sending, 6, 9)[i] = Sending[6 + i - 1]
      BY <1>0, <3>1, SubSeqProperties
    <3>3. ASSUME NEW i \in 1 .. Len(t) PROVE t[i] = SubSeq(Sending, 6, 9)[i]
      <4>1. i = 1 \/ i = 2 \/ i = 3 \/ i = 4
        BY <2>2
      <4> QED
        BY <2>1, <2>2, <3>2, <4>1
    <3> QED
      BY <2>2, <3>2, <3>3, SeqEqual
  <2>4. 6 \in 1 .. Len(Sending) /\ 9 \in 6 .. Len(Sending) /\ 9 + 1 = 10
    BY <2>1
  <2> QED
    BY <1>0, <2>1, <2>3, <2>4, FromJoin
<1>2. ASSUME board = "uno"
      PROVE  SendByte \o From(Sending, 5, rest) = From(Sending, 3, rest)
  <2> DEFINE t == <<"load", "spin">>
  <2>1. SendByte = t /\ Len(Sending) = 5 /\ Sending[3] = "load" /\ Sending[4] = "spin"
    BY <1>2, ProgramsOfUno, TxText
  <2>2. t \in Seq(Names) /\ Len(t) = 2 /\ t[1] = "load" /\ t[2] = "spin"
    BY DEF Names
  <2> HIDE DEF t
  <2>3. t = SubSeq(Sending, 3, 4)
    <3>1. 3 \in 1 .. Len(Sending) /\ 4 \in 1 .. Len(Sending)
      BY <2>1
    <3>2. /\ SubSeq(Sending, 3, 4) \in Seq(Names)
          /\ Len(SubSeq(Sending, 3, 4)) = 4 - 3 + 1
          /\ \A i \in 1 .. 4 - 3 + 1 : SubSeq(Sending, 3, 4)[i] = Sending[3 + i - 1]
      BY <1>0, <3>1, SubSeqProperties
    <3>3. ASSUME NEW i \in 1 .. Len(t) PROVE t[i] = SubSeq(Sending, 3, 4)[i]
      <4>1. i = 1 \/ i = 2
        BY <2>2
      <4> QED
        BY <2>1, <2>2, <3>2, <4>1
    <3> QED
      BY <2>2, <3>2, <3>3, SeqEqual
  <2>4. 3 \in 1 .. Len(Sending) /\ 4 \in 3 .. Len(Sending) /\ 4 + 1 = 5
    BY <2>1
  <2> QED
    BY <1>0, <2>1, <2>3, <2>4, FromJoin
<1> QED
  BY <1>1, <1>2

\* enter_idle neither sends a byte nor goes near the ring.
LEMMA IdleWhere ==
    ASSUME board \in Boards, NEW k \in 1 .. Len(EnterIdle)
    PROVE  EnterIdle[k] \notin {"load", "reset_rx", "dir_rx", "rmt_write"}
<1>1. CASE board = "samd21"
  <2>1. Len(EnterIdle) = 5
    BY <1>1, IdleText
  <2>2. k = 1 \/ k = 2 \/ k = 3 \/ k = 4 \/ k = 5
    BY <2>1
  <2> QED
    BY <1>1, <2>2, IdleText
<1>2. CASE board # "samd21"
  <2>1. Len(EnterIdle) = 2
    BY <1>2, IdleText
  <2>2. k = 1 \/ k = 2
    BY <2>1
  <2> QED
    BY <1>2, <2>2, IdleText
<1> QED
  BY <1>1, <1>2

\* Where send_blob loads and where it waits; nothing here touches the configuration or
\* the ring.
LEMMA TxWhere ==
    ASSUME board \in Boards, NEW k \in 1 .. Len(Sending)
    PROVE  /\ Sending[k] \notin {"set_enc", "set_mode", "reset_rx", "dir_rx"}
           /\ Sending[k] = "load" => (board = "samd21" /\ k = 6) \/ (board = "uno" /\ k = 3)
           /\ Sending[k] = "spin" => \/ board = "samd21" /\ k = 9 /\ Len(Sending) = 10
                                     \/ board = "uno" /\ k = 4 /\ Len(Sending) = 5
<1>1. CASE board = "samd21"
  <2>1. Len(Sending) = 10
    BY <1>1, TxText
  <2>2. \/ k = 1 \/ k = 2 \/ k = 3 \/ k = 4 \/ k = 5 \/ k = 6 \/ k = 7 \/ k = 8 \/ k = 9
        \/ k = 10
    BY <2>1
  <2> QED
    BY <1>1, <2>1, <2>2, TxText
<1>2. CASE board = "uno"
  <2>1. Len(Sending) = 5
    BY <1>2, TxText
  <2>2. k = 1 \/ k = 2 \/ k = 3 \/ k = 4 \/ k = 5
    BY <2>1
  <2> QED
    BY <1>2, <2>1, <2>2, TxText
<1>3. CASE ~Interrupts
  <2>1. Len(Sending) = 4
    BY <1>3, TxText
  <2>2. k = 1 \/ k = 2 \/ k = 3 \/ k = 4
    BY <2>1
  <2> QED
    BY <1>3, <2>1, <2>2, TxText
<1> QED
  BY <1>1, <1>2, <1>3, ClockAssumption DEF Interrupts

\* Either the bytes are out or the next one is loaded.
LEMMA SpinStep ==
    ASSUME Typed, Quietness, NEW k \in 1 .. Len(Sending), NEW rest \in {EnterIdle, EnterRx},
           InTx(k, rest), TxOK(k), Spin
    PROVE  Quietness' /\ CommandOK'
<1>0. /\ board \in Boards /\ Head(todo) = Sending[k] /\ Tail(todo) = From(Sending, k + 1, rest)
      /\ board = "samd21" \/ board = "uno" \/ ~Interrupts
  BY Fields, PlaceStep
<1>1. /\ board' = board /\ cfg' = cfg /\ dir' = dir /\ left' = left /\ left = 0 /\ cbuf' = cbuf
      /\ timer' = timer /\ edges' = edges /\ Head(todo) = "spin"
      /\ todo' = IF cbuf.blob = <<>> THEN Tail(todo) ELSE SendByte \o Tail(todo)
      /\ Sending' = Sending /\ EnterIdle' = EnterIdle /\ EnterRx' = EnterRx
  <2>1. /\ board' = board /\ cfg' = cfg /\ dir' = dir /\ left' = left /\ left = 0 /\ cbuf' = cbuf
        /\ timer' = timer /\ edges' = edges /\ Head(todo) = "spin"
        /\ todo' = IF cbuf.blob = <<>> THEN Tail(todo) ELSE SendByte \o Tail(todo)
    BY DEF Spin, At, hwVars, txVars
  <2> QED
    BY <2>1, SamePrograms
<1>2. Quietness'
  BY <1>1 DEF Quietness, Silent, Interrupts
<1>3. \/ board = "samd21" /\ k = 9 /\ Len(Sending) = 10
      \/ board = "uno" /\ k = 4 /\ Len(Sending) = 5
  BY <1>0, <1>1, TxWhere
<1>4. CASE cbuf.blob = <<>>
  <2>1. TxOK(k + 1)'
    BY <1>1, <1>3, <1>4 DEF TxOK
  <2>2. todo' = Tail(todo) /\ cfg'.mode = cfg.mode
    BY <1>1, <1>4
  <2>3. k < Len(Sending)
    BY <1>3
  <2>4. CommandOK'
    BY <1>0, <1>1, <2>1, <2>2, <2>3, TxOn
  <2> QED
    BY <1>2, <2>4
<1>5. CASE cbuf.blob # <<>>
  <2>1. CASE board = "samd21"
    <3>0. k + 1 = 10 /\ 6 \in 1 .. Len(Sending)
      BY <1>3, <2>1
    <3>1. todo' = From(Sending, 6, rest)
      BY <1>0, <1>1, <1>5, <2>1, <3>0, SpinBack
    <3>2. InTx(6, rest)'
      BY <1>1, <3>0, <3>1 DEF InTx
    <3>3. TxOK(6)'
      BY <1>1, <1>3, <1>5, <2>1, <3>0 DEF TxOK
    <3> QED
      BY <1>1, <1>2, <3>0, <3>2, <3>3 DEF CommandOK
  <2>2. CASE board = "uno"
    <3>0. k + 1 = 5 /\ 3 \in 1 .. Len(Sending)
      BY <1>3, <2>2
    <3>1. todo' = From(Sending, 3, rest)
      BY <1>0, <1>1, <1>5, <2>2, <3>0, SpinBack
    <3>2. InTx(3, rest)'
      BY <1>1, <3>0, <3>1 DEF InTx
    <3>3. TxOK(3)'
      BY <1>1, <1>3, <1>5, <2>2, <3>0 DEF TxOK
    <3> QED
      BY <1>1, <1>2, <3>0, <3>2, <3>3 DEF CommandOK
  <2> QED
    BY <1>3, <2>1, <2>2
<1> QED
  BY <1>4, <1>5

\* enter_tx and send_blob.
LEMMA TxStep ==
    ASSUME Typed, Quietness, NEW k \in 1 .. Len(Sending), NEW rest \in {EnterIdle, EnterRx},
           InTx(k, rest), TxOK(k), Statement
    PROVE  Quietness' /\ CommandOK'
<1>0. /\ board \in Boards /\ Head(todo) = Sending[k] /\ Tail(todo) = From(Sending, k + 1, rest)
      /\ board = "samd21" \/ board = "uno" \/ ~Interrupts
  BY Fields, PlaceStep
<1>1. /\ board' = board /\ cfg' = cfg /\ Interrupts' = Interrupts
      /\ Head(todo) # "spin" => todo' = Tail(todo)
  <2>1. Sending[k] \notin {"set_enc", "set_mode"}
    BY <1>0, TxWhere
  <2> QED
    BY <1>0, <2>1, StatementMoves DEF Interrupts
<1>2. ASSUME Head(todo) # "spin"
      PROVE  /\ k < Len(Sending) /\ TxOK(k + 1)' => CommandOK'
             /\ k = Len(Sending) /\ IdleOK(1)' /\ RxOK(1)' => CommandOK'
  BY <1>0, <1>1, <1>2, TxOn
<1>3. CASE board = "samd21"
  <2>0. k \in 1 .. 10 /\ Len(Sending) = 10 /\ Interrupts
    BY <1>0, <1>3, TxText DEF Interrupts
  <2>1. CASE k \in {1, 2, 3, 5, 7, 8}
    <3>1. /\ k = 1 => Detach /\ Head(todo) # "spin"
          /\ k = 2 => AdcStop /\ Head(todo) # "spin"
          /\ k = 3 => TimerReset /\ Head(todo) # "spin"
          /\ k = 5 => BitClock /\ Head(todo) # "spin"
          /\ k = 7 => CountZero /\ Head(todo) # "spin"
          /\ k = 8 => Arm /\ Head(todo) # "spin"
      BY <1>0, <1>3, <2>1, TxText, StatementAt
    <3>2. /\ dir' = dir /\ left' = left /\ cbuf' = cbuf
          /\ k = 1 => timer' = timer /\ edges' = FALSE
          /\ k = 2 => timer' = timer /\ edges' = edges
          /\ k = 3 => timer' = Stopped /\ edges' = edges
          /\ k = 5 => timer' = Running("bits", FALSE) /\ edges' = edges
          /\ k = 7 => timer' = [timer EXCEPT !.count = 0] /\ edges' = edges
          /\ k = 8 => timer' = [timer EXCEPT !.irq = TRUE, !.flag = FALSE] /\ edges' = edges
      BY <2>1, <3>1
      DEF Detach, AdcStop, TimerReset, BitClock, CountZero, Arm, Hardware, KeepTx, txVars
    <3>3. TxOK(k + 1)'
      BY <1>1, <1>3, <2>1, <3>2, Fields DEF TxOK, Running
    <3>4. Quietness'
      BY <1>1, <1>3, <2>0, <2>1, <3>2, Fields DEF TxOK, Quietness, Silent, Stopped, Running
    <3> QED
      BY <1>2, <2>0, <2>1, <3>1, <3>3, <3>4
  <2>2. CASE k = 4
    <3>1. DirTx /\ Head(todo) # "spin"
      BY <1>0, <1>3, <2>2, TxText, StatementAt
    <3>2. dir' = "tx" /\ left' = 0 /\ cbuf' = cbuf /\ timer' = timer /\ edges' = edges
      BY <1>3, <3>1 DEF DirTx
    <3>3. TxOK(5)' /\ Quietness'
      BY <1>1, <1>3, <2>0, <2>2, <3>2 DEF TxOK, Quietness, Stopped
    <3> QED
      BY <1>2, <2>0, <2>2, <3>1, <3>3
  <2>3. CASE k = 6
    <3>1. Load /\ Head(todo) # "spin"
      BY <1>0, <1>3, <2>3, TxText, StatementAt
    <3>2. dir' = dir /\ left' = FrameBits /\ timer' = timer /\ edges' = edges /\ FrameBits > 0
      <4>1. FrameBits > 0
        BY Constants
      <4>2. board # "uno"
        BY <1>3
      <4> QED
        BY <3>1, <4>1, <4>2 DEF Load
    <3>3. TxOK(7)' /\ Quietness'
      BY <1>1, <1>3, <2>0, <2>3, <3>2 DEF TxOK, Quietness
    <3> QED
      BY <1>2, <2>0, <2>3, <3>1, <3>3
  <2>4. CASE k = 9
    <3>1. Spin
      BY <1>0, <1>3, <2>4, TxText, StatementAt
    <3> QED
      BY <3>1, SpinStep
  <2>5. CASE k = 10
    <3>1. LedOff /\ Head(todo) # "spin"
      BY <1>0, <1>3, <2>5, TxText, StatementAt
    <3>2. dir' = dir /\ left' = left /\ timer' = timer /\ edges' = edges
      BY <3>1 DEF LedOff, hwVars
    <3>3. IdleOK(1)' /\ RxOK(1)' /\ Quietness'
      BY <1>1, <1>3, <2>0, <2>5, <3>2 DEF TxOK, IdleOK, RxOK, Drained, Quietness
    <3> QED
      BY <1>2, <2>0, <2>5, <3>1, <3>3
  <2> QED
    BY <2>0, <2>1, <2>2, <2>3, <2>4, <2>5
<1>4. CASE board = "uno"
  <2>0. k \in 1 .. 5 /\ Len(Sending) = 5 /\ Interrupts
    BY <1>0, <1>4, TxText DEF Interrupts
  <2>1. CASE k = 1
    <3>1. AdcStop /\ Head(todo) # "spin"
      BY <1>0, <1>4, <2>1, TxText, StatementAt
    <3>2. dir' = dir /\ left' = left /\ cbuf' = cbuf /\ timer' = timer /\ edges' = edges
      BY <3>1 DEF AdcStop, Hardware, KeepTx, txVars
    <3>3. TxOK(2)' /\ Quietness'
      BY <1>1, <1>4, <2>0, <2>1, <3>2 DEF TxOK, Quietness, Silent
    <3> QED
      BY <1>2, <2>0, <2>1, <3>1, <3>3
  <2>2. CASE k = 2
    <3>1. DirTx /\ Head(todo) # "spin"
      BY <1>0, <1>4, <2>2, TxText, StatementAt
    <3>2. /\ dir' = "tx" /\ left' = 0 /\ cbuf' = cbuf
          /\ timer' = Running("bits", FALSE) /\ edges' = FALSE
      BY <1>4, <3>1 DEF DirTx
    <3>3. TxOK(3)' /\ Quietness'
      BY <1>1, <1>4, <2>0, <2>2, <3>2 DEF TxOK, Quietness, Running
    <3> QED
      BY <1>2, <2>0, <2>2, <3>1, <3>3
  <2>3. CASE k = 3
    <3>1. Load /\ Head(todo) # "spin"
      BY <1>0, <1>4, <2>3, TxText, StatementAt
    <3>2. dir' = dir /\ left' = FrameBits /\ edges' = edges /\ FrameBits > 0
      <4>1. FrameBits > 0
        BY Constants
      <4> QED
        BY <3>1, <4>1 DEF Load
    <3>3. TxOK(4)' /\ Quietness'
      BY <1>1, <1>4, <2>0, <2>3, <3>2 DEF TxOK, Quietness
    <3> QED
      BY <1>2, <2>0, <2>3, <3>1, <3>3
  <2>4. CASE k = 4
    <3>1. Spin
      BY <1>0, <1>4, <2>4, TxText, StatementAt
    <3> QED
      BY <3>1, SpinStep
  <2>5. CASE k = 5
    <3>1. LedOff /\ Head(todo) # "spin"
      BY <1>0, <1>4, <2>5, TxText, StatementAt
    <3>2. dir' = dir /\ left' = left /\ timer' = timer /\ edges' = edges
      BY <3>1 DEF LedOff, hwVars
    <3>3. IdleOK(1)' /\ RxOK(1)' /\ Quietness'
      BY <1>1, <1>4, <2>0, <2>5, <3>2 DEF TxOK, IdleOK, RxOK, Drained, Quietness
    <3> QED
      BY <1>2, <2>0, <2>5, <3>1, <3>3
  <2> QED
    BY <2>0, <2>1, <2>2, <2>3, <2>4, <2>5
<1>5. CASE ~Interrupts
  <2>0. k \in 1 .. 4 /\ Len(Sending) = 4 /\ board # "samd21" /\ board # "uno"
    BY <1>0, <1>5, TxText DEF Interrupts
  <2>1. /\ k = 1 => AdcStop /\ Head(todo) # "spin"
        /\ k = 2 => DirTx /\ Head(todo) # "spin"
        /\ k = 3 => RmtWrite /\ Head(todo) # "spin"
        /\ k = 4 => LedOff /\ Head(todo) # "spin"
    BY <1>0, <1>5, TxText, StatementAt
  <2>2. /\ timer' = timer /\ edges' = edges
        /\ IF k = 2 THEN dir' = "tx" /\ left' = 0 ELSE dir' = dir /\ left' = left
    BY <2>0, <2>1 DEF AdcStop, DirTx, RmtWrite, LedOff, Hardware, KeepTx, txVars, hwVars
  <2>3. Quietness'
    BY <1>1, <1>5, <2>0, <2>2 DEF TxOK, Quietness, Silent, Stopped
  <2>4. CASE k < 4
    <3>1. TxOK(k + 1)'
      BY <1>1, <2>0, <2>2, <2>4 DEF TxOK
    <3> QED
      BY <1>2, <2>0, <2>1, <2>3, <2>4, <3>1
  <2>5. CASE k = 4
    <3>1. IdleOK(1)' /\ RxOK(1)'
      BY <1>1, <2>0, <2>2, <2>5 DEF TxOK, IdleOK, RxOK, Drained
    <3> QED
      BY <1>2, <2>0, <2>1, <2>3, <2>5, <3>1
  <2> QED
    BY <2>0, <2>4, <2>5
<1> QED
  BY <1>0, <1>3, <1>4, <1>5

\* enter_rx neither waits nor sends nor touches the configuration.
LEMMA RxWhere ==
    ASSUME board \in Boards, cfg.mode \in Modes, NEW k \in 1 .. Len(EnterRx)
    PROVE  EnterRx[k] \notin {"set_enc", "set_mode", "spin", "load", "rmt_write"}
<1>1. CASE board = "samd21"
  <2>1. Len(EnterRx) = 5
    BY <1>1, RxText
  <2>2. k = 1 \/ k = 2 \/ k = 3 \/ k = 4 \/ k = 5
    BY <2>1
  <2> QED
    BY <1>1, <2>2, RxText
<1>2. CASE board = "uno" /\ cfg.mode = "analog"
  <2>1. Len(EnterRx) = 4
    BY <1>2, RxText
  <2>2. k = 1 \/ k = 2 \/ k = 3 \/ k = 4
    BY <2>1
  <2> QED
    BY <1>2, <2>2, RxText
<1>3. CASE board = "uno" /\ cfg.mode # "analog"
  <2>1. Len(EnterRx) = 2
    BY <1>3, RxText
  <2>2. k = 1 \/ k = 2
    BY <2>1
  <2> QED
    BY <1>3, <2>2, RxText
<1>4. CASE ~Interrupts
  <2>1. Len(EnterRx) = IF cfg.mode = "analog" THEN 3 ELSE 2
    BY <1>4, RxText
  <2>2. k = 1 \/ k = 2 \/ (k = 3 /\ cfg.mode = "analog")
    BY <2>1
  <2> QED
    BY <1>4, <2>2, RxText
<1> QED
  BY <1>1, <1>2, <1>3, <1>4, ClockAssumption DEF Interrupts

\* A receiver started afresh has nothing of an earlier session.
LEMMA StartsAfresh ==
    ASSUME Typed, cfg' = cfg, board' = board
    PROVE  /\ rx' = FreshReceiver /\ ring' = FreshRing => Fresh'
           /\ Fresh /\ rx' = rx /\ ring' = ring => Fresh'
           /\ Fresh' => "mixed" \notin Range(ring)' /\ rx[Slot(cfg.mode)]' # "mixed"
           /\ Fresh' /\ Interrupts /\ cfg.mode = "digital" => rx["digital"]' = "idle"
<1>1. Slot(cfg.mode) \in Modes /\ Slot(cfg.mode)' = Slot(cfg.mode)
  BY Fields DEF Slot, Modes
<1>2. rx \in [Modes -> {"idle"} \cup Kinds]
  BY Fields
<1>3. rx' = FreshReceiver /\ ring' = FreshRing => Fresh'
  BY <1>1, <1>2 DEF FreshReceiver, FreshRing, Fresh
<1>4. Fresh /\ rx' = rx /\ ring' = ring => Fresh'
  BY <1>1 DEF Fresh
<1>5. Fresh' => "mixed" \notin Range(ring)' /\ rx[Slot(cfg.mode)]' # "mixed"
  BY DEF Fresh, Range
<1>6. Fresh' /\ Interrupts /\ cfg.mode = "digital" => rx["digital"]' = "idle"
  BY DEF Fresh, Slot, Interrupts
<1> QED
  BY <1>3, <1>4, <1>5, <1>6

\* enter_rx: what each of its statements leaves.
LEMMA RxStep ==
    ASSUME Typed, Quietness, NEW k \in 1 .. Len(EnterRx), InRx(k), RxOK(k), Statement
    PROVE  Quietness' /\ CommandOK'
<1>0. /\ board \in Boards /\ cfg.mode \in Modes /\ Head(todo) = EnterRx[k]
      /\ Tail(todo) = From(EnterRx, k + 1, <<>>)
      /\ board = "samd21" \/ board = "uno" \/ ~Interrupts
  BY Fields, PlaceStep
<1>1. /\ board' = board /\ cfg' = cfg /\ Interrupts' = Interrupts /\ todo' = Tail(todo)
  BY <1>0, RxWhere, StatementMoves DEF Interrupts
<1>2. /\ k < Len(EnterRx) /\ RxOK(k + 1)' => CommandOK'
      /\ k = Len(EnterRx) /\ EaseOK' => CommandOK'
  BY <1>0, <1>1, RxOn
<1>3. CASE board = "samd21"
  <2>0. k \in 1 .. 5 /\ Len(EnterRx) = 5 /\ Interrupts
    BY <1>0, <1>3, RxText DEF Interrupts
  <2>1. CASE k = 1
    <3>1. ResetRx
      BY <1>0, <1>3, <2>1, RxText, StatementAt
    <3>2. /\ dir' = dir /\ left' = left /\ timer' = timer /\ edges' = edges
          /\ rx' = FreshReceiver /\ ring' = FreshRing
      BY <3>1 DEF ResetRx, KeepTx, txVars, hwVars
    <3>3. Fresh'
      BY <1>1, <3>2, StartsAfresh
    <3>4. RxOK(2)'
      BY <1>1, <1>3, <2>1, <3>2, <3>3 DEF RxOK, Drained
    <3>5. Quietness'
      BY <1>1, <3>2 DEF Quietness, Silent
    <3> QED
      BY <1>2, <2>0, <2>1, <3>4, <3>5
  <2>2. CASE k = 2
    <3>1. TimerReset
      BY <1>0, <1>3, <2>2, RxText, StatementAt
    <3>2. /\ dir' = dir /\ left' = left /\ timer' = Stopped /\ edges' = edges
          /\ rx' = rx /\ ring' = ring
      BY <3>1 DEF TimerReset, Hardware, KeepTx, txVars, rxVars
    <3>3. Fresh'
      BY <1>1, <1>3, <2>2, <3>2, StartsAfresh DEF RxOK
    <3>4. dir \in {"idle", "tx"} /\ ~edges
      BY <1>3, <2>2 DEF RxOK, Quietness, Silent, Typed
    <3>5. RxOK(3)'
      BY <1>1, <1>3, <2>2, <3>2, <3>3, <3>4 DEF RxOK, Drained
    <3>6. Quietness'
      BY <1>1, <2>0, <3>2, <3>4 DEF Quietness, Silent, Stopped
    <3> QED
      BY <1>2, <2>0, <2>2, <3>5, <3>6
  <2>3. CASE k = 3
    <3>1. DirRx
      BY <1>0, <1>3, <2>3, RxText, StatementAt
    <3>2. /\ dir' = "rx" /\ setup' = cfg /\ timer' = timer /\ edges' = edges
          /\ rx' = rx /\ ring' = ring
      BY <1>3, <3>1 DEF DirRx
    <3>3. Fresh'
      BY <1>1, <1>3, <2>3, <3>2, StartsAfresh DEF RxOK
    <3>4. RxOK(4)'
      BY <1>1, <1>3, <2>3, <3>2, <3>3 DEF RxOK, Entered
    <3>5. Quietness'
      BY <1>1, <2>0, <3>2 DEF Quietness
    <3> QED
      BY <1>2, <2>0, <2>3, <3>4, <3>5
  <2>4. CASE k = 4
    <3>1. IF cfg.mode = "analog" THEN AdcStart ELSE FreeRun
      BY <1>0, <1>3, <2>4, RxText, StatementAt
    <3>2. /\ dir' = dir /\ setup' = setup /\ edges' = edges /\ rx' = rx /\ ring' = ring
          /\ IF cfg.mode = "analog" THEN timer' = timer /\ adc' = TRUE
             ELSE timer' = Running("free", FALSE)
      BY <1>3, <3>1 DEF AdcStart, FreeRun, Hardware, rxVars
    <3>3. Fresh'
      BY <1>1, <1>3, <2>4, <3>2, StartsAfresh DEF RxOK
    <3>4. RxOK(5)'
      BY <1>0, <1>1, <1>3, <2>4, <3>2, <3>3 DEF RxOK, Entered, Running, Modes
    <3>5. Quietness'
      BY <1>1, <1>3, <2>0, <2>4, <3>2 DEF Quietness, RxOK, Entered
    <3> QED
      BY <1>2, <2>0, <2>4, <3>4, <3>5
  <2>5. CASE k = 5
    <3>1. IF cfg.mode = "analog" THEN SampleClock ELSE Attach
      BY <1>0, <1>3, <2>5, RxText, StatementAt
    <3>2. /\ dir' = dir /\ setup' = setup /\ adc' = adc /\ rx' = rx /\ ring' = ring
          /\ IF cfg.mode = "analog" THEN timer' = Running("samples", TRUE)
             ELSE timer' = timer /\ edges' = TRUE
      BY <1>3, <3>1 DEF Attach, SampleClock, Hardware, rxVars
    <3>3. Fresh'
      BY <1>1, <1>3, <2>5, <3>2, StartsAfresh DEF RxOK
    <3>4. Entered' /\ Entered
      BY <1>1, <1>3, <2>5, <3>2 DEF RxOK, Entered
    <3>5. cfg.mode = "digital" => timer.irq' = FALSE
      BY <1>0, <1>1, <1>3, <2>5, <3>2, <3>4, Fields DEF RxOK, Entered, Modes
    <3>6. FrontEndReady'
      <4>1. CASE cfg.mode = "analog"
        BY <1>1, <1>3, <2>5, <3>2, <3>4, <4>1
        DEF FrontEndReady, RxOK, Entered, Serves, Running
      <4>2. CASE cfg.mode = "digital"
        BY <1>1, <1>3, <2>5, <3>2, <3>3, <3>4, <4>2, StartsAfresh
        DEF FrontEndReady, RxOK, Entered, Serves, Interrupts
      <4> QED
        BY <1>0, <4>1, <4>2 DEF Modes
    <3>7. EaseOK'
      BY <1>1, <3>3, <3>4, <3>5, <3>6, StartsAfresh DEF EaseOK, Entered
    <3>8. Quietness'
      BY <1>1, <2>0, <3>4 DEF Quietness, Entered
    <3> QED
      BY <1>2, <2>0, <2>5, <3>7, <3>8
  <2> QED
    BY <2>0, <2>1, <2>2, <2>3, <2>4, <2>5
<1>4. CASE board = "uno" /\ cfg.mode = "analog"
  <2>0. k \in 1 .. 4 /\ Len(EnterRx) = 4 /\ Interrupts
    BY <1>0, <1>4, RxText DEF Interrupts
  <2>1. CASE k = 1
    <3>1. ResetRx
      BY <1>0, <1>4, <2>1, RxText, StatementAt
    <3>2. /\ dir' = dir /\ left' = left /\ timer' = timer /\ edges' = edges
          /\ rx' = FreshReceiver /\ ring' = FreshRing
      BY <3>1 DEF ResetRx, KeepTx, txVars, hwVars
    <3>3. Fresh'
      BY <1>1, <3>2, StartsAfresh
    <3>4. RxOK(2)'
      BY <1>1, <1>4, <2>1, <3>2, <3>3 DEF RxOK, Drained
    <3>5. Quietness'
      BY <1>1, <3>2 DEF Quietness, Silent
    <3> QED
      BY <1>2, <2>0, <2>1, <3>4, <3>5
  <2>2. CASE k = 2
    <3>1. IrqOff
      BY <1>0, <1>4, <2>2, RxText, StatementAt
    <3>2. /\ dir' = dir /\ left' = left /\ timer' = [timer EXCEPT !.irq = FALSE]
          /\ edges' = FALSE /\ rx' = rx /\ ring' = ring
      BY <1>4, <3>1 DEF IrqOff, Hardware, KeepTx, txVars, rxVars
    <3>3. Fresh'
      BY <1>1, <1>4, <2>2, <3>2, StartsAfresh DEF RxOK
    <3>4. RxOK(3)'
      BY <1>1, <1>4, <2>2, <3>2, <3>3 DEF RxOK, Drained
    <3>5. Quietness'
      BY <1>1, <2>0, <3>2, Fields DEF Quietness, Silent
    <3> QED
      BY <1>2, <2>0, <2>2, <3>4, <3>5
  <2>3. CASE k = 3
    <3>1. AdcStart
      BY <1>0, <1>4, <2>3, RxText, StatementAt
    <3>2. /\ dir' = dir /\ left' = left /\ timer' = timer /\ edges' = edges
          /\ adc' = TRUE /\ rx' = rx /\ ring' = ring
      BY <1>4, <3>1 DEF AdcStart, Hardware, KeepTx, txVars, rxVars
    <3>3. Fresh'
      BY <1>1, <1>4, <2>3, <3>2, StartsAfresh DEF RxOK
    <3>4. RxOK(4)'
      BY <1>1, <1>4, <2>3, <3>2, <3>3 DEF RxOK, Drained
    <3>5. Quietness'
      BY <1>1, <2>0, <3>2 DEF Quietness, Silent
    <3> QED
      BY <1>2, <2>0, <2>3, <3>4, <3>5
  <2>4. CASE k = 4
    <3>1. DirRx
      BY <1>0, <1>4, <2>4, RxText, StatementAt
    <3>2. /\ dir' = "rx" /\ setup' = cfg /\ adc' = adc /\ rx' = rx /\ ring' = ring
          /\ timer' = Running("samples", TRUE)
      BY <1>4, <3>1 DEF DirRx
    <3>3. Fresh'
      BY <1>1, <1>4, <2>4, <3>2, StartsAfresh DEF RxOK
    <3>4. FrontEndReady'
      BY <1>1, <1>4, <2>4, <3>2 DEF FrontEndReady, RxOK, Serves, Running
    <3>5. EaseOK'
      BY <1>1, <1>4, <3>2, <3>3, <3>4, StartsAfresh DEF EaseOK
    <3>6. Quietness'
      BY <1>1, <2>0, <3>2 DEF Quietness
    <3> QED
      BY <1>2, <2>0, <2>4, <3>5, <3>6
  <2> QED
    BY <2>0, <2>1, <2>2, <2>3, <2>4
<1>5. CASE board = "uno" /\ cfg.mode # "analog"
  <2>0. k \in 1 .. 2 /\ Len(EnterRx) = 2 /\ Interrupts /\ cfg.mode = "digital"
    BY <1>0, <1>5, RxText DEF Interrupts, Modes
  <2>1. CASE k = 1
    <3>1. AdcStop
      BY <1>0, <1>5, <2>1, RxText, StatementAt
    <3>2. dir' = dir /\ left' = left /\ timer' = timer /\ edges' = edges
      BY <3>1 DEF AdcStop, Hardware, KeepTx, txVars
    <3>3. RxOK(2)'
      BY <1>1, <1>5, <2>0, <2>1, <3>2 DEF RxOK, Drained
    <3>4. Quietness'
      BY <1>1, <2>0, <3>2 DEF Quietness, Silent
    <3> QED
      BY <1>2, <2>0, <2>1, <3>3, <3>4
  <2>2. CASE k = 2
    <3>1. DirRx
      BY <1>0, <1>5, <2>2, RxText, StatementAt
    <3>2. /\ dir' = "rx" /\ setup' = cfg /\ timer' = Running("free", FALSE) /\ edges' = TRUE
          /\ rx' = FreshReceiver /\ ring' = FreshRing
      BY <1>5, <2>0, <3>1 DEF DirRx
    <3>3. Fresh'
      BY <1>1, <3>2, StartsAfresh
    <3>4. FrontEndReady'
      BY <1>1, <2>0, <3>2, <3>3, StartsAfresh DEF FrontEndReady, Serves, Running
    <3>5. EaseOK'
      BY <1>1, <3>2, <3>3, <3>4, StartsAfresh DEF EaseOK, Running
    <3>6. Quietness'
      BY <1>1, <2>0, <3>2 DEF Quietness
    <3> QED
      BY <1>2, <2>0, <2>2, <3>5, <3>6
  <2> QED
    BY <2>0, <2>1, <2>2
<1>6. CASE ~Interrupts
  <2>0. /\ board # "samd21" /\ board # "uno"
        /\ Len(EnterRx) = IF cfg.mode = "analog" THEN 3 ELSE 2
        /\ k = 1 \/ k = 2 \/ (k = 3 /\ cfg.mode = "analog")
    BY <1>0, <1>6, RxText DEF Interrupts
  <2>1. CASE k = 1
    <3>1. DirRx
      BY <1>0, <1>6, <2>1, RxText, StatementAt
    <3>2. dir' = "rx" /\ setup' = cfg /\ timer' = timer /\ edges' = edges
      BY <2>0, <3>1 DEF DirRx
    <3>3. RxOK(2)'
      BY <1>1, <2>0, <2>1, <3>2 DEF RxOK, Entered
    <3>4. Quietness'
      BY <1>1, <1>6, <3>2 DEF Quietness
    <3> QED
      BY <1>2, <2>0, <2>1, <3>3, <3>4
  <2>2. CASE k = 2
    <3>1. ResetRx
      BY <1>0, <1>6, <2>2, RxText, StatementAt
    <3>2. /\ dir' = dir /\ setup' = setup /\ timer' = timer /\ edges' = edges
          /\ rx' = FreshReceiver /\ ring' = FreshRing
      BY <3>1 DEF ResetRx, hwVars
    <3>3. Fresh' /\ Entered' /\ Entered
      BY <1>1, <2>0, <2>2, <3>2, StartsAfresh DEF RxOK, Entered
    <3>4. Quietness'
      BY <1>1, <1>6, <3>2, <3>3 DEF Quietness, Entered
    <3>5. CASE cfg.mode = "analog"
      <4>1. RxOK(3)'
        BY <1>1, <2>0, <3>3 DEF RxOK
      <4> QED
        BY <1>2, <2>0, <2>2, <3>4, <3>5, <4>1
    <3>6. CASE cfg.mode # "analog"
      <4>1. EaseOK'
        BY <1>1, <1>6, <3>3, StartsAfresh DEF EaseOK, FrontEndReady, Entered
      <4> QED
        BY <1>2, <2>0, <2>2, <3>4, <3>6, <4>1
    <3> QED
      BY <3>5, <3>6
  <2>3. CASE k = 3
    <3>1. AdcStart
      BY <1>0, <1>6, <2>0, <2>3, RxText, StatementAt
    <3>2. /\ dir' = dir /\ setup' = setup /\ timer' = timer /\ edges' = edges
          /\ rx' = rx /\ ring' = ring
      BY <3>1 DEF AdcStart, Hardware, rxVars
    <3>3. Fresh' /\ Entered' /\ Entered
      BY <1>1, <2>0, <2>3, <3>2, StartsAfresh DEF RxOK, Entered
    <3>4. Quietness'
      BY <1>1, <1>6, <3>2, <3>3 DEF Quietness, Entered
    <3>5. EaseOK'
      BY <1>1, <1>6, <3>3, StartsAfresh DEF EaseOK, FrontEndReady, Entered
    <3> QED
      BY <1>2, <2>0, <2>3, <3>4, <3>5
  <2> QED
    BY <2>0, <2>1, <2>2, <2>3
<1> QED
  BY <1>0, <1>3, <1>4, <1>5, <1>6

-----------------------------------------------------------------------------
(* What an interrupt can do                                                *)

\* Interrupts, the poll and time stay within the direction: an idle modem's receiver
\* and a silenced timer are left alone, a bit is clocked out only of those there are.
LEMMA InterruptStays ==
    ASSUME Typed, Quietness, EdgeIsr \/ TimerIsr \/ Poll \/ Tick
    PROVE  /\ UNCHANGED <<board, cfg, cbuf, todo, dir, adc, setup, host, edges>>
           /\ timer.on' = timer.on /\ timer.use' = timer.use
           /\ Silent /\ dir # "tx" => Silent'
           /\ dir # "rx" => rx' = rx /\ ring' = ring
           /\ dir # "tx" => left' = left
           /\ dir = "tx" => /\ left = 0 => left' = 0
                            /\ timer.irq' => left' > 0
                            /\ ~timer.irq => left' = left /\ ~timer.irq'
           /\ ~edges /\ ~timer.irq /\ (Interrupts \/ ~AtEase) =>
                ~timer.irq' /\ rx' = rx /\ ring' = ring
           /\ timer = Stopped /\ ~edges => timer' = timer
           /\ ~timer.on /\ ~(timer.irq /\ timer.flag) => ~(timer.irq' /\ timer.flag')
<1>0. Interrupts => board # "esp32c3"
  BY DEF Interrupts
<1>1. CASE EdgeIsr
  BY <1>1, Fields
  DEF EdgeIsr, KeepLoop, KeepTx, txVars, Quietness, Silent, Stopped, AtEase
<1>2. CASE BitIsr
  <2>1. /\ UNCHANGED <<board, cfg, cbuf, todo, dir, adc, setup, host, edges, rx, ring>>
        /\ dir = "tx" /\ timer.irq /\ timer.flag /\ left' = (left + 255) % 256
        /\ timer' = [timer EXCEPT !.flag = FALSE, !.irq = (left # 1)]
    BY <1>2 DEF BitIsr, KeepLoop, Quiet, Pending, Served, UnlessDone
  <2>2. left \in 1 .. 255
    BY <2>1, Fields DEF Quietness
  <2>3. left' = left - 1
    BY <2>1, <2>2
  <2>4. timer.on' = timer.on /\ timer.use' = timer.use /\ timer.flag' = FALSE
    BY <2>1, Fields
  <2>5. timer.irq' => left' > 0
    <3>1. PICK irq \in BOOLEAN : irq <=> left # 1
      OBVIOUS
    <3>2. timer' = [timer EXCEPT !.flag = FALSE, !.irq = irq]
      BY <2>1, <3>1, Zenon
    <3>3. timer.irq' = irq
      BY <3>2, Fields
    <3> QED
      BY <2>2, <2>3, <3>1, <3>3
  <2> QED
    BY <2>1, <2>2, <2>3, <2>4, <2>5 DEF Stopped, Silent
<1>3. CASE SampleIsr \/ CompareIsr
  <2>1. /\ UNCHANGED <<board, cfg, cbuf, todo, dir, adc, setup, host, edges, left>>
        /\ dir # "tx" /\ timer.irq /\ timer.flag
        /\ \E irq \in {timer.irq, FALSE} : timer' = [timer EXCEPT !.flag = FALSE, !.irq = irq]
    BY <1>3 DEF SampleIsr, CompareIsr, KeepLoop, KeepTx, txVars, Pending, Served
  <2>2. dir = "rx"
    BY <2>1 DEF Quietness, Silent, Typed
  <2>3. timer.on' = timer.on /\ timer.use' = timer.use /\ timer.flag' = FALSE
    BY <2>1, Fields
  <2> QED
    BY <2>1, <2>2, <2>3 DEF Stopped, Silent
<1>4. CASE Poll
  BY <1>4 DEF Poll, KeepLoop, KeepTx, txVars, Silent
<1>5. CASE Tick
  <2>1. /\ UNCHANGED <<board, cfg, cbuf, todo, dir, adc, setup, host, edges, left, rx, ring>>
        /\ timer' \in IF timer.on THEN Match ELSE {timer}
    BY <1>5 DEF Tick, KeepLoop, txVars, Quiet
  <2>2. /\ timer.on' = timer.on /\ timer.use' = timer.use /\ timer.irq' = timer.irq
        /\ ~timer.on => timer' = timer
    <3>1. CASE timer.on
      <4>1. \/ timer' = timer
            \/ timer' = [timer EXCEPT !.flag = TRUE]
            \/ \E c \in {(timer.count + 1) % BitTicks},
                  f \in {timer.flag \/ timer.count + 1 = BitTicks} :
                 timer' = [timer EXCEPT !.count = c, !.flag = f]
        BY <2>1, <3>1 DEF Match
      <4> QED
        BY <3>1, <4>1, Fields
    <3>2. CASE ~timer.on
      BY <2>1, <3>2
    <3> QED
      BY <3>1, <3>2
  <2> QED
    BY <2>1, <2>2 DEF Quietness, Silent, Stopped
<1> QED
  BY <1>1, <1>2, <1>3, <1>4, <1>5 DEF TimerIsr

\* A byte received at ease, in RX, is the session's own, and a compare will end it.
LEMMA InterruptAtEase ==
    ASSUME Typed, Quietness, AtEase, EaseOK, EdgeIsr \/ TimerIsr \/ Poll \/ Tick
    PROVE  EaseOK'
<1>1. /\ UNCHANGED <<board, cfg, cbuf, todo, dir, adc, setup, host, edges>>
      /\ timer.on' = timer.on /\ timer.use' = timer.use
      /\ dir # "rx" => rx' = rx /\ ring' = ring
  BY InterruptStays
<1>2. CASE dir # "rx"
  BY <1>1, <1>2 DEF EaseOK
<1>3. CASE dir = "rx"
  <2> DEFINE s == Slot(cfg.mode)
  <2>0. /\ s \in Modes /\ s' = s /\ cfg.mode \in Modes /\ (Interrupts => s = cfg.mode)
        /\ (~Interrupts => s = "digital") /\ Interrupts' = Interrupts
    BY <1>1, Fields DEF Slot, Modes, Interrupts
  <2>1. /\ setup = cfg /\ "mixed" \notin Range(ring) /\ rx[s] # "mixed"
        /\ Interrupts => /\ timer.on /\ Serves
                         /\ cfg.mode = "analog" => timer.irq
                         /\ cfg.mode = "digital" => edges /\ (timer.irq <=> rx["digital"] # "idle")
    BY <1>3 DEF EaseOK, FrontEndReady
  <2>2. Interrupts => Serves'
    BY <1>1, <2>0, <2>1 DEF Serves
  <2>3. SUFFICES /\ "mixed" \notin Range(ring)' /\ rx'[s] # "mixed"
                 /\ Interrupts /\ cfg.mode = "analog" => timer.irq'
                 /\ Interrupts /\ cfg.mode = "digital" => (timer.irq' <=> rx'["digital"] # "idle")
    BY <1>1, <1>3, <2>0, <2>1, <2>2 DEF EaseOK, FrontEndReady
  <2>4. rx \in [Modes -> {"idle", "own", "mixed"}] /\ ring \in Seq(Kinds)
    BY Fields DEF Typed, Kinds
  <2>5. ASSUME Serves
        PROVE  /\ Mixed("own") = "own"
               /\ ByteReceived("own") => "mixed" \notin Range(ring)'
    <3>1. Mixed("own") = "own"
      BY <1>3, <2>1, <2>5 DEF Mixed, Honest
    <3>2. ASSUME ByteReceived("own") PROVE "mixed" \notin Range(ring)'
      <4>1. ring' = ring \/ ring' = Append(ring, "own")
        BY <3>1, <3>2 DEF ByteReceived
      <4> QED
        BY <2>1, <2>4, <4>1 DEF Range
    <3> QED
      BY <3>1, <3>2
  <2>6. CASE EdgeIsr
    <3>1. /\ Interrupts /\ cfg.mode = "digital" /\ s = "digital" /\ Serves
          /\ rx["digital"] \in {"idle", "own"}
      BY <2>0, <2>1, <2>4, <2>6 DEF EdgeIsr
    <3>2. CASE /\ Begin("digital") /\ timer' = [timer EXCEPT !.irq = TRUE, !.flag = FALSE]
      BY <2>1, <2>4, <2>5, <3>1, <3>2, Fields DEF Begin, Modes
    <3>3. CASE GoOn("digital") /\ UNCHANGED timer
      BY <2>1, <2>4, <2>5, <3>1, <3>3 DEF GoOn, Modes
    <3>4. CASE /\ rx["digital"] # "idle" /\ ByteReceived(rx["digital"])
               /\ rx' = [rx EXCEPT !["digital"] = Mixed("own")] /\ UNCHANGED timer
      BY <2>1, <2>4, <2>5, <3>1, <3>4 DEF Modes
    <3> QED
      BY <2>6, <3>2, <3>3, <3>4 DEF EdgeIsr
  <2>7. CASE SampleIsr
    <3>1. /\ Interrupts /\ cfg.mode = "analog" /\ s = "analog" /\ Serves /\ timer.irq
          /\ rx["analog"] \in {"idle", "own"} /\ timer.irq'
      BY <2>0, <2>1, <2>4, <2>7, Fields DEF SampleIsr, Pending, Served, Samples
    <3>2. CASE Quiet
      BY <2>1, <3>1, <3>2 DEF Quiet
    <3>3. CASE Begin("analog")
      BY <2>1, <2>4, <2>5, <3>1, <3>3 DEF Begin, Modes
    <3>4. CASE GoOn("analog")
      BY <2>1, <2>4, <2>5, <3>1, <3>4 DEF GoOn, Modes
    <3>5. CASE rx["analog"] # "idle" /\ Finish("analog")
      BY <2>1, <2>4, <2>5, <3>1, <3>5 DEF Finish, Modes
    <3> QED
      BY <2>7, <3>2, <3>3, <3>4, <3>5 DEF SampleIsr
  <2>8. CASE CompareIsr
    <3>1. /\ Interrupts /\ cfg.mode = "digital" /\ s = "digital" /\ Serves /\ timer.irq
          /\ rx["digital"] = "own"
      BY <2>0, <2>1, <2>4, <2>8 DEF CompareIsr, Pending, Compares, Modes
    <3>2. CASE GoOn("digital") /\ Served(timer.irq)
      BY <2>1, <2>4, <2>5, <3>1, <3>2, Fields DEF GoOn, Served, Modes
    <3>3. CASE Finish("digital") /\ Served(FALSE)
      BY <2>1, <2>4, <2>5, <3>1, <3>3, Fields DEF Finish, Served, Modes
    <3> QED
      BY <2>8, <3>2, <3>3 DEF CompareIsr
  <2>9. CASE BitIsr
    BY <1>3, <2>9 DEF BitIsr
  <2>10. CASE Poll
    <3>1. ~Interrupts /\ s = "digital" /\ Serves /\ rx["digital"] \in {"idle", "own"}
      BY <2>0, <2>1, <2>4, <2>10 DEF Poll, Serves, Modes
    <3>2. CASE Begin("digital")
      BY <2>1, <2>4, <2>5, <3>1, <3>2 DEF Begin, Modes
    <3>3. CASE GoOn("digital")
      BY <2>1, <2>4, <2>5, <3>1, <3>3 DEF GoOn, Modes
    <3>4. CASE rx["digital"] # "idle" /\ Finish("digital")
      BY <2>1, <2>4, <2>5, <3>1, <3>4 DEF Finish, Modes
    <3> QED
      BY <2>10, <3>2, <3>3, <3>4 DEF Poll
  <2>11. CASE Tick
    <3>1. rx' = rx /\ ring' = ring /\ timer.irq' = timer.irq
      <4>1. rx' = rx /\ ring' = ring /\ timer' \in IF timer.on THEN Match ELSE {timer}
        BY <2>11 DEF Tick, Quiet
      <4>2. \/ timer' = timer
            \/ timer' = [timer EXCEPT !.flag = TRUE]
            \/ \E c \in {(timer.count + 1) % BitTicks},
                  f \in {timer.flag \/ timer.count + 1 = BitTicks} :
                 timer' = [timer EXCEPT !.count = c, !.flag = f]
        BY <4>1 DEF Match
      <4> QED
        BY <4>1, <4>2, Fields
    <3> QED
      BY <2>1, <3>1
  <2> QED
    BY <2>6, <2>7, <2>8, <2>9, <2>10, <2>11 DEF TimerIsr
<1> QED
  BY <1>2, <1>3

\* Between two statements they take nothing back that the command has achieved.
LEMMA InterruptStep ==
    ASSUME Typed, Quietness, CommandOK, EdgeIsr \/ TimerIsr \/ Poll \/ Tick
    PROVE  Quietness' /\ CommandOK'
<1>1. /\ UNCHANGED <<board, cfg, cbuf, todo, dir, adc, setup, host, edges>>
      /\ timer.on' = timer.on /\ timer.use' = timer.use
      /\ Silent /\ dir # "tx" => Silent'
      /\ dir # "rx" => rx' = rx /\ ring' = ring
      /\ dir # "tx" => left' = left
      /\ dir = "tx" => /\ left = 0 => left' = 0
                       /\ timer.irq' => left' > 0
                       /\ ~timer.irq => left' = left /\ ~timer.irq'
      /\ ~edges /\ ~timer.irq /\ (Interrupts \/ ~AtEase) =>
           ~timer.irq' /\ rx' = rx /\ ring' = ring
      /\ timer = Stopped /\ ~edges => timer' = timer
      /\ ~timer.on /\ ~(timer.irq /\ timer.flag) => ~(timer.irq' /\ timer.flag')
  BY InterruptStays
<1>2. /\ Interrupts' = Interrupts /\ AtEase' = AtEase /\ EnterIdle' = EnterIdle
      /\ EnterRx' = EnterRx /\ Sending' = Sending
      /\ left \in 0 .. 255 /\ board \in Boards /\ cfg.mode \in Modes
      /\ board = "samd21" \/ board = "uno" \/ ~Interrupts
  BY <1>1, SamePrograms, Fields DEF Interrupts, AtEase
<1>3. Quietness'
  BY <1>1, <1>2 DEF Quietness
<1>4. CASE AtEase /\ EaseOK
  BY <1>1, <1>3, <1>4, InterruptAtEase DEF CommandOK, AtEase
<1>5. CASE \E k \in 1 .. Len(Configuring) : InConfig(k) /\ dir # "tx"
  BY <1>1, <1>2, <1>3, <1>5 DEF CommandOK, InConfig, Configuring
<1>6. ASSUME NEW k \in 1 .. Len(EnterIdle), InIdle(k), IdleOK(k)
      PROVE  CommandOK'
  <2>1. InIdle(k)'
    BY <1>1, <1>2, <1>6 DEF InIdle
  <2>2. IdleOK(k)'
    BY <1>1, <1>6 DEF IdleOK, Drained
  <2> QED
    BY <1>2, <2>1, <2>2 DEF CommandOK
<1>7. ASSUME NEW k \in 1 .. Len(Sending), NEW rest \in {EnterIdle, EnterRx},
             InTx(k, rest), TxOK(k)
      PROVE  CommandOK'
  <2>1. InTx(k, rest)'
    BY <1>1, <1>2, <1>7 DEF InTx
  <2>2. TxOK(k)'
    <3>1. CASE board = "samd21"
      BY <1>1, <1>2, <1>7, <3>1 DEF TxOK
    <3>2. CASE board = "uno"
      BY <1>1, <1>2, <1>7, <3>2 DEF TxOK
    <3>3. CASE ~Interrupts
      <4>1. board # "samd21" /\ board # "uno"
        BY <3>3 DEF Interrupts
      <4> QED
        BY <1>1, <1>7, <4>1 DEF TxOK
    <3> QED
      BY <1>2, <3>1, <3>2, <3>3
  <2> QED
    BY <1>2, <2>1, <2>2 DEF CommandOK
<1>8. ASSUME NEW k \in 1 .. Len(EnterRx), InRx(k), RxOK(k)
      PROVE  CommandOK'
  <2>0. ~AtEase
    BY <1>2, <1>8, PlaceStep
  <2>1. InRx(k)'
    BY <1>1, <1>2, <1>8 DEF InRx
  <2>2. Fresh /\ rx' = rx /\ ring' = ring => Fresh'
    BY <1>1, StartsAfresh
  <2>3. RxOK(k)'
    <3>1. CASE board = "samd21"
      <4>1. k \in 1 .. 5
        BY <1>2, <3>1, RxText
      <4>2. CASE k <= 3
        BY <1>1, <1>8, <2>2, <3>1, <4>1, <4>2 DEF RxOK, Drained
      <4>3. CASE k \in 4 .. 5
        BY <1>1, <1>8, <2>0, <2>2, <3>1, <4>3 DEF RxOK, Entered, Stopped
      <4> QED
        BY <4>1, <4>2, <4>3
    <3>2. CASE board = "uno"
      BY <1>1, <1>8, <2>2, <3>2 DEF RxOK, Drained
    <3>3. CASE ~Interrupts
      <4>1. board # "samd21" /\ board # "uno" /\ ~edges /\ ~timer.irq
        BY <3>3 DEF Interrupts, Quietness, Stopped
      <4> QED
        BY <1>1, <1>8, <2>0, <2>2, <4>1 DEF RxOK, Entered, Drained
    <3> QED
      BY <1>2, <3>1, <3>2, <3>3
  <2> QED
    BY <1>2, <2>1, <2>3 DEF CommandOK
<1> QED
  BY <1>3, <1>4, <1>5, <1>6, <1>7, <1>8 DEF CommandOK

-----------------------------------------------------------------------------
(* The main loop                                                           *)

\* A command starts its program with the modem at ease.
LEMMA HostStep ==
    ASSUME Typed, Quietness, CommandOK, Host
    PROVE  Quietness' /\ CommandOK' /\ host' = host
<1>1. /\ AtEase /\ UNCHANGED <<board, cfg, dir, timer, edges, adc, left, rx, ring, setup, host>>
  BY DEF Host, Config, Transmit, Listen, Stop, Command, hwVars, txVars, rxVars
<1>2. /\ Interrupts' = Interrupts /\ EnterIdle' = EnterIdle /\ EnterRx' = EnterRx
      /\ Sending' = Sending /\ board \in Boards /\ cfg.mode \in Modes
  BY <1>1, SamePrograms, Fields DEF Interrupts
<1>3. Quietness'
  BY <1>1, <1>2 DEF Quietness, Silent
<1>4. EaseOK
  <2>1. ASSUME ~EaseOK PROVE ~AtEase
    BY <1>2, <2>1, PlaceStep DEF CommandOK
  <2> QED
    BY <1>1, <2>1
<1>5. dir # "tx"
  BY <1>4 DEF EaseOK
<1>6. CASE \E e \in Encodings, m \in Modes : Config(e, m)
  <2>1. todo' = Configuring \o EnterIdle
    BY <1>6 DEF Config, Command, Reconfigure, Configuring
  <2>2. 1 \in 1 .. Len(Configuring) /\ Configuring' = Configuring
    BY DEF Configuring
  <2>3. InConfig(1)'
    BY <1>2, <2>1, <2>2, PlaceStep DEF InConfig
  <2> QED
    BY <1>1, <1>3, <1>5, <2>2, <2>3 DEF CommandOK
<1>7. ASSUME NEW blob \in Blobs, NEW auto \in BOOLEAN, Transmit(blob, auto)
      PROVE  CommandOK'
  <2>1. PICK rest \in {EnterIdle, EnterRx} : todo' = Sending \o rest
    <3>1. CASE auto
      BY <1>7, <3>1 DEF Transmit, Command, Sending
    <3>2. CASE ~auto
      BY <1>7, <3>2 DEF Transmit, Command, Sending
    <3> QED
      BY <3>1, <3>2
  <2>2. 1 \in 1 .. Len(Sending)
    BY <1>2, TxText, ClockAssumption DEF Interrupts
  <2>3. InTx(1, rest)'
    BY <1>2, <2>1, <2>2, PlaceStep DEF InTx
  <2>4. cbuf'.blob # <<>>
    BY <1>7, ClockAssumption DEF Transmit, Typed, Commands
  <2>5. TxOK(1)'
    BY <1>1, <1>5, <2>4 DEF TxOK
  <2> QED
    BY <1>2, <2>2, <2>3, <2>5 DEF CommandOK
<1>8. CASE Listen
  <2>1. todo' = EnterRx /\ dir # "rx"
    BY <1>8 DEF Listen, Command
  <2>2. 1 \in 1 .. Len(EnterRx)
    BY <1>2, RxText, ClockAssumption DEF Interrupts
  <2>3. InRx(1)'
    BY <1>2, <2>1, <2>2, PlaceStep DEF InRx
  <2>4. RxOK(1)'
    BY <1>1, <1>5, <2>1 DEF RxOK, Drained
  <2> QED
    BY <1>2, <1>3, <1>1, <2>2, <2>3, <2>4 DEF CommandOK
<1>9. CASE Stop
  <2>1. todo' = EnterIdle
    BY <1>9 DEF Stop, Command
  <2>2. 1 \in 1 .. Len(EnterIdle)
    BY <1>2, IdleText
  <2>3. InIdle(1)'
    BY <1>2, <2>1, <2>2, PlaceStep DEF InIdle
  <2>4. IdleOK(1)'
    BY <1>1, <1>5 DEF IdleOK, Drained
  <2> QED
    BY <1>2, <1>3, <1>1, <2>2, <2>3, <2>4 DEF CommandOK
<1> QED
  BY <1>1, <1>3, <1>6, <1>7, <1>8, <1>9 DEF Host

\* What is forwarded is the session's own.
LEMMA ForwardStep ==
    ASSUME Typed, Quietness, CommandOK, NoMixedByte, Forward
    PROVE  Quietness' /\ CommandOK' /\ NoMixedByte'
<1>1. /\ AtEase /\ dir = "rx" /\ host' = host \cup Range(ring) /\ ring' = <<>>
      /\ UNCHANGED <<board, cfg, todo, dir, timer, edges, adc, left, rx, setup>>
  BY DEF Forward, hwVars, txVars
<1>2. Interrupts' = Interrupts /\ board \in Boards /\ Slot(cfg.mode)' = Slot(cfg.mode)
  BY <1>1, Fields DEF Interrupts, Slot
<1>3. EaseOK
  <2>1. ASSUME ~EaseOK PROVE ~AtEase
    BY <1>2, <2>1, PlaceStep DEF CommandOK
  <2> QED
    BY <1>1, <2>1
<1>4. Quietness'
  BY <1>1, <1>2 DEF Quietness, Silent
<1>5. "mixed" \notin Range(ring)'
  BY <1>1 DEF Range
<1>6. EaseOK'
  <2>1. FrontEndReady'
    BY <1>1, <1>2, <1>3 DEF EaseOK, FrontEndReady, Serves, AtEase
  <2> QED
    BY <1>1, <1>2, <1>3, <1>5, <2>1 DEF EaseOK
<1>7. NoMixedByte'
  BY <1>1, <1>3 DEF EaseOK, NoMixedByte
<1> QED
  BY <1>1, <1>4, <1>6, <1>7 DEF CommandOK, AtEase

\* A statement of a command under way.
LEMMA StatementStep ==
    ASSUME Typed, Quietness, CommandOK, Statement
    PROVE  Quietness' /\ CommandOK'
<1>1. ~AtEase
  BY StatementAt DEF AtEase
<1> QED
  BY <1>1, ConfigStep, IdleStep, TxStep, RxStep DEF CommandOK

\* A byte is loaded only in send_blob's loop, which is entered with bytes to send.
LEMMA LoadIsReady == ASSUME Typed, CommandOK PROVE LoadReady
<1> SUFFICES ASSUME At("load") PROVE cbuf.blob # <<>>
  BY DEF LoadReady
<1>0. /\ board \in Boards /\ cfg.mode \in Modes /\ ~AtEase /\ Head(todo) = "load"
      /\ board = "samd21" \/ board = "uno" \/ ~Interrupts
  BY Fields DEF At, AtEase
<1>1. ASSUME NEW k \in 1 .. Len(Configuring), InConfig(k) PROVE FALSE
  <2>1. Head(todo) = Configuring[k] /\ (k = 1 \/ k = 2)
    BY <1>0, <1>1, PlaceStep DEF Configuring
  <2> QED
    BY <1>0, <2>1 DEF Configuring
<1>2. ASSUME NEW k \in 1 .. Len(EnterIdle), InIdle(k) PROVE FALSE
  <2>1. Head(todo) = EnterIdle[k]
    BY <1>0, <1>2, PlaceStep
  <2> QED
    BY <1>0, <2>1, IdleWhere
<1>3. ASSUME NEW k \in 1 .. Len(EnterRx), InRx(k) PROVE FALSE
  <2>1. Head(todo) = EnterRx[k]
    BY <1>0, <1>3, PlaceStep
  <2> QED
    BY <1>0, <2>1, RxWhere
<1>4. ASSUME NEW k \in 1 .. Len(Sending), NEW rest \in {EnterIdle, EnterRx},
             InTx(k, rest), TxOK(k)
      PROVE  cbuf.blob # <<>>
  <2>1. Head(todo) = Sending[k]
    BY <1>0, <1>4, PlaceStep
  <2>2. (board = "samd21" /\ k = 6) \/ (board = "uno" /\ k = 3)
    BY <1>0, <2>1, TxWhere
  <2> QED
    BY <1>4, <2>2 DEF TxOK
<1> QED
  BY <1>0, <1>1, <1>2, <1>3, <1>4 DEF CommandOK

-----------------------------------------------------------------------------
(* The invariant and what follows from it                                  *)

\* It holds when the modem has started,
LEMMA Starts == Init => Typed /\ DirectionOK
<1> SUFFICES ASSUME Init PROVE DirectionOK
  BY TypesInit
<1>1. Quietness /\ NoMixedByte
  BY DEF Init, Quietness, Silent, Stopped, NoMixedByte
<1>2. AtEase /\ EaseOK
  BY DEF Init, AtEase, EaseOK
<1> QED
  BY <1>1, <1>2 DEF DirectionOK, CommandOK

\* and every step keeps it.
LEMMA Keeps == Typed /\ DirectionOK /\ [Next]_vars => (Typed /\ DirectionOK)'
<1> SUFFICES ASSUME Typed, DirectionOK, [Next]_vars PROVE (Typed /\ DirectionOK)'
  OBVIOUS
<1>0. Quietness /\ CommandOK /\ NoMixedByte
  BY DEF DirectionOK
<1>1. CASE Statement
  <2>1. Typed'
    BY <1>0, <1>1, LoadIsReady, TypesStatement
  <2>2. NoMixedByte'
    BY <1>0, <1>1, StatementMoves DEF NoMixedByte
  <2> QED
    BY <1>0, <1>1, <2>1, <2>2, StatementStep DEF DirectionOK
<1>2. CASE Host
  <2>1. Typed'
    BY <1>2, TypesLoop
  <2> QED
    BY <1>0, <1>2, <2>1, HostStep DEF DirectionOK, NoMixedByte
<1>3. CASE Forward
  <2>1. Typed'
    BY <1>3, TypesLoop
  <2> QED
    BY <1>0, <1>3, <2>1, ForwardStep DEF DirectionOK
<1>4. CASE EdgeIsr \/ TimerIsr \/ Poll \/ Tick
  <2>1. Typed'
    BY <1>4, TypesInterrupt
  <2>2. host' = host
    BY <1>0, <1>4, InterruptStays
  <2>3. Quietness' /\ CommandOK'
    BY <1>0, <1>4, InterruptStep
  <2> QED
    BY <1>0, <2>1, <2>2, <2>3 DEF DirectionOK, NoMixedByte
<1>5. CASE UNCHANGED vars
  <2>1. UNCHANGED <<board, cfg, cbuf, todo, dir, timer, edges, adc, late, bits, left, led, asked,
                    line, age, rx, ring, setup, host>>
    BY <1>5 DEF vars, hwVars, txVars, airVars, rxVars
  <2>2. /\ EnterIdle' = EnterIdle /\ EnterRx' = EnterRx /\ Sending' = Sending
        /\ Configuring' = Configuring
    BY <2>1, SamePrograms DEF Configuring
  <2>3. \A k : InConfig(k)' = InConfig(k) /\ InIdle(k)' = InIdle(k) /\ InRx(k)' = InRx(k)
    BY <2>1, <2>2 DEF InConfig, InIdle, InRx
  <2>4. \A k, rest : InTx(k, rest)' = InTx(k, rest)
    BY <2>1, <2>2 DEF InTx
  <2>5. \A k : IdleOK(k)' = IdleOK(k) /\ TxOK(k)' = TxOK(k) /\ RxOK(k)' = RxOK(k)
    BY <2>1 DEF IdleOK, TxOK, RxOK, Drained, Fresh, Entered, Slot
  <2>6. AtEase' = AtEase /\ EaseOK' = EaseOK
    BY <2>1 DEF AtEase, EaseOK, FrontEndReady, Serves, Interrupts, Slot
  <2>7. CommandOK'
    BY <1>0, <2>1, <2>2, <2>3, <2>4, <2>5, <2>6 DEF CommandOK
  <2> QED
    BY <1>0, <2>1, <2>7 DEF Typed, DirectionOK, Quietness, Silent, Interrupts, NoMixedByte
<1> QED
  BY <1>1, <1>2, <1>3, <1>4, <1>5 DEF Next

LEMMA Always == Spec => [](Typed /\ DirectionOK)
BY Starts, Keeps, PTL DEF Spec

\* The registers, flags and buffers of the modem keep to their types; the timer counts
\* within a bit and its interrupt waits no longer than it may.
THEOREM TypeCorrect == Spec => []TypeOK
<1>1. Typed /\ DirectionOK => TypeOK
  BY TypedIsTypeOK
<1> QED
  BY <1>1, Always, PTL

\* Whatever the interrupts do between the statements of a change of direction, the host
\* is given only bytes received from beginning to end in one session (forward_rx_bytes,
\* enter_rx, enter_idle, pt_edge_isr, TC4_Handler, TIMER1_COMPA_vect, poll_rx).
THEOREM NoByteIsMixed == Spec => []NoMixedByte
<1>1. Typed /\ DirectionOK => NoMixedByte
  BY DEF DirectionOK
<1> QED
  BY <1>1, Always, PTL

\* When the answer to a command is out and the modem listens, the front end of its mode
\* runs with the session's configuration, and a byte under way will be ended (enter_rx).
THEOREM FrontEndIsReady == Spec => []FrontEndReady
<1>1. ASSUME Typed, DirectionOK PROVE FrontEndReady
  <2> SUFFICES ASSUME AtEase, dir = "rx" PROVE FrontEndReady
    BY DEF FrontEndReady
  <2>1. board \in Boards
    BY <1>1, Fields
  <2>2. EaseOK
    <3>1. ASSUME ~EaseOK PROVE ~AtEase
      BY <1>1, <2>1, <3>1, PlaceStep DEF DirectionOK, CommandOK
    <3> QED
      BY <3>1
  <2> QED
    BY <2>2 DEF EaseOK
<1>2. Typed /\ DirectionOK => FrontEndReady
  BY <1>1
<1> QED
  BY <1>2, Always, PTL

\* The two writes that reset the ring need no lock: no interrupt that could append to
\* it comes between them (rx_ring_reset in enter_rx).
THEOREM RingIsResetAlone == Spec => []RingResetAlone
<1>1. ASSUME Typed, DirectionOK PROVE RingResetAlone
  <2>0. /\ board \in Boards /\ cfg.mode \in Modes /\ Quietness /\ CommandOK
        /\ board = "samd21" \/ board = "uno" \/ ~Interrupts
    BY <1>1, Fields DEF DirectionOK
  <2> SUFFICES ASSUME At("reset_rx") \/ (At("dir_rx") /\ board # "samd21")
               PROVE  ~edges /\ ~(timer.on /\ timer.irq)
    BY DEF RingResetAlone
  <2>1. ~AtEase /\ Head(todo) \in {"reset_rx", "dir_rx"}
    BY DEF At, AtEase
  <2>2. CASE ~Interrupts
    BY <2>0, <2>2 DEF Quietness, Stopped
  <2>3. ASSUME Interrupts, NEW k \in 1 .. Len(EnterRx), InRx(k), RxOK(k)
        PROVE  dir # "rx" /\ Drained
    <3>1. Head(todo) = EnterRx[k]
      BY <2>0, <2>3, PlaceStep
    <3>2. CASE board = "samd21"
      <4>0. Len(EnterRx) = 5
        BY <2>0, <3>2, RxText
      <4>1. k = 1 \/ k = 2 \/ k = 3 \/ k = 4 \/ k = 5
        BY <4>0
      <4>2. EnterRx[k] = "reset_rx"
        BY <2>1, <3>1, <3>2 DEF At
      <4>3. k = 1
        BY <2>0, <3>2, <4>1, <4>2, RxText DEF Modes
      <4> QED
        BY <2>3, <3>2, <4>3 DEF RxOK
    <3>3. CASE board = "uno"
      BY <2>3, <3>3 DEF RxOK
    <3> QED
      BY <2>0, <2>3, <3>2, <3>3
  <2>4. ASSUME Interrupts, NEW k \in 1 .. Len(Configuring), InConfig(k) PROVE FALSE
    <3>1. Head(todo) = Configuring[k]
      BY <2>0, <2>4, PlaceStep
    <3>2. k = 1 \/ k = 2
      BY DEF Configuring
    <3> QED
      BY <2>1, <3>1, <3>2 DEF Configuring
  <2>5. ASSUME Interrupts, NEW k \in 1 .. Len(EnterIdle), InIdle(k) PROVE FALSE
    <3>1. Head(todo) = EnterIdle[k]
      BY <2>0, <2>5, PlaceStep
    <3> QED
      BY <2>0, <2>1, <3>1, IdleWhere
  <2>6. ASSUME Interrupts, NEW k \in 1 .. Len(Sending), NEW rest \in {EnterIdle, EnterRx},
               InTx(k, rest)
        PROVE  FALSE
    <3>1. Head(todo) = Sending[k]
      BY <2>0, <2>6, PlaceStep
    <3> QED
      BY <2>0, <2>1, <3>1, TxWhere
  <2>7. CASE Interrupts
    <3>1. dir # "rx" /\ Drained
      BY <2>0, <2>1, <2>3, <2>4, <2>5, <2>6, <2>7 DEF CommandOK
    <3>2. dir = "idle" \/ dir = "tx"
      BY <1>1, <3>1 DEF Typed
    <3> QED
      BY <1>1, <2>0, <3>1, <3>2 DEF Quietness, Silent, Drained
  <2> QED
    BY <2>2, <2>7
<1>2. Typed /\ DirectionOK => RingResetAlone
  BY <1>1
<1> QED
  BY <1>2, Always, PTL

-----------------------------------------------------------------------------
(* The light: cells                                                        *)

\* The j-th cell of the frame after n frames.
LEMMA CellPlace ==
    ASSUME NEW n \in Nat, NEW j \in 1 .. FrameBits
    PROVE  /\ n * FrameBits + j \in Nat \ {0}
           /\ (n * FrameBits + j - 1) % FrameBits = j - 1
           /\ (n * FrameBits + j - 1) \div FrameBits = n
<1> DEFINE F == FrameBits
           m == n * F
           x == m + j - 1
           q == x \div F
           r == x % F
<1>0. F \in Nat /\ F >= 3 /\ j \in Nat /\ 1 <= j /\ j <= F
  BY Constants
<1>1. m \in Nat
  BY <1>0
<1>2. x \in Nat
  BY <1>0, <1>1
<1>3. q \in Int /\ r \in 0 .. F - 1 /\ x = F * q + r
  BY <1>0, <1>2
<1> HIDE DEF q, r, x
<1>4. q = n
  <2>1. ASSUME q > n PROVE FALSE
    <3>1. PICK d \in Nat : q = n + 1 + d
      <4>1. q - n - 1 \in Nat /\ q = n + 1 + (q - n - 1)
        BY <1>3, <2>1
      <4> QED
        BY <4>1
    <3>2. F * q = m + F + F * d /\ F * d \in Nat
      BY <1>0, <3>1
    <3> QED
      BY <1>0, <1>1, <1>3, <3>2 DEF x
  <2>2. ASSUME q < n PROVE FALSE
    <3>1. PICK d \in Nat : n = q + 1 + d
      <4>1. n - q - 1 \in Nat /\ n = q + 1 + (n - q - 1)
        BY <1>3, <2>2
      <4> QED
        BY <4>1
    <3>2. m = F * q + F + F * d /\ F * d \in Nat /\ F * q \in Int
      BY <1>0, <1>3, <3>1
    <3> QED
      BY <1>0, <1>3, <3>2 DEF x
  <2> QED
    BY <1>3, <2>1, <2>2
<1>5. r = j - 1
  <2>1. F * q = m
    BY <1>0, <1>4
  <2> QED
    BY <1>0, <1>1, <1>3, <2>1 DEF x
<1> QED
  BY <1>0, <1>1, <1>4, <1>5 DEF q, r, x

\* A frame, bit by bit.
LEMMA FrameAt ==
    ASSUME NEW b \in Byte, NEW j \in 1 .. FrameBits
    PROVE  Frame(b)[j] = IF j = 1 THEN 0 ELSE IF j - 1 > DataBits THEN 1 ELSE b[j - 1]
<1>1. DataBits \in Nat /\ FrameBits = DataBits + 2
  BY ClockAssumption DEF FrameBits
<1>2. b \in Seq({0, 1}) /\ Len(b) = DataBits
  BY <1>1 DEF Byte
<1>3. <<0>> \in Seq({0, 1}) /\ <<1>> \in Seq({0, 1}) /\ Len(<<0>>) = 1 /\ Len(<<1>>) = 1
      /\ <<0>>[1] = 0 /\ <<1>>[1] = 1
  OBVIOUS
<1> DEFINE s == <<0>> \o b
<1>4. /\ s \in Seq({0, 1}) /\ Len(s) = DataBits + 1
      /\ \A i \in 1 .. Len(s) : s[i] = IF i <= 1 THEN <<0>>[i] ELSE b[i - 1]
  BY <1>1, <1>2, <1>3, ConcatProperties
<1> HIDE DEF s
<1>5. /\ Len(s \o <<1>>) = DataBits + 2
      /\ \A i \in 1 .. Len(s \o <<1>>) :
            (s \o <<1>>)[i] = IF i <= Len(s) THEN s[i] ELSE <<1>>[i - Len(s)]
  BY <1>1, <1>3, <1>4, ConcatProperties
<1>6. Frame(b) = s \o <<1>>
  BY DEF Frame, s
<1>7. CASE j <= DataBits + 1
  BY <1>1, <1>3, <1>4, <1>5, <1>6, <1>7
<1>8. CASE j = DataBits + 2
  BY <1>1, <1>3, <1>4, <1>5, <1>6, <1>8
<1> QED
  BY <1>1, <1>7, <1>8

\* The cells of some bytes are their frames, one after the other.
LEMMA CellsAreFrames ==
    ASSUME NEW blob \in Seq(Byte)
    PROVE  /\ Len(Cells(blob)) = Len(blob) * FrameBits /\ Len(blob) * FrameBits \in Nat
           /\ \A n \in Nat, j \in 1 .. FrameBits : n < Len(blob) =>
                /\ n * FrameBits + j \in 1 .. Len(blob) * FrameBits
                /\ Cells(blob)[n * FrameBits + j] = Frame(blob[n + 1])[j]
<1>0. Len(blob) \in Nat /\ FrameBits \in Nat /\ FrameBits >= 3
  BY Constants
<1>1. Len(blob) * FrameBits \in Nat
  BY <1>0
<1> DEFINE N == Len(blob) * FrameBits
           c(i) == LET k == (i - 1) % FrameBits
                   IN  IF k = 0 THEN 0 ELSE IF k > DataBits THEN 1
                       ELSE blob[(i - 1) \div FrameBits + 1][k]
<1>2. Cells(blob) = [i \in 1 .. N |-> c(i)]
  BY DEF Cells
<1>3. Len(Cells(blob)) = N
  <2> HIDE DEF N, c
  <2> QED
    BY <1>1, <1>2 DEF N
<1>4. ASSUME NEW n \in Nat, NEW j \in 1 .. FrameBits, n < Len(blob)
      PROVE  /\ n * FrameBits + j \in 1 .. Len(blob) * FrameBits
             /\ Cells(blob)[n * FrameBits + j] = Frame(blob[n + 1])[j]
  <2> DEFINE i == n * FrameBits + j
  <2>1. i \in Nat \ {0} /\ (i - 1) % FrameBits = j - 1 /\ (i - 1) \div FrameBits = n
    <3>1. /\ n * FrameBits + j \in Nat \ {0}
          /\ (n * FrameBits + j - 1) % FrameBits = j - 1
          /\ (n * FrameBits + j - 1) \div FrameBits = n
      BY CellPlace, Zenon
    <3>2. i - 1 = n * FrameBits + j - 1
      <4>1. n * FrameBits \in Nat
        BY <1>0
      <4> QED
        BY <4>1
    <3> QED
      BY <3>1, <3>2, Zenon
  <2>2. i <= N
    <3>1. PICK d \in Nat : Len(blob) = n + 1 + d
      <4>1. Len(blob) - n - 1 \in Nat /\ Len(blob) = n + 1 + (Len(blob) - n - 1)
        BY <1>0, <1>4
      <4> QED
        BY <4>1
    <3>2. N = n * FrameBits + FrameBits + d * FrameBits /\ d * FrameBits \in Nat
          /\ n * FrameBits \in Nat
      BY <1>0, <3>1
    <3> QED
      BY <1>0, <3>2
  <2>3. Cells(blob)[i] = c(i)
    BY <1>1, <1>2, <2>1, <2>2
  <2>4. blob[n + 1] \in Byte
    BY <1>0, <1>4
  <2>5. c(i) = IF j = 1 THEN 0 ELSE IF j - 1 > DataBits THEN 1 ELSE blob[n + 1][j - 1]
    <3> HIDE DEF i
    <3>1. c(i) = IF j - 1 = 0 THEN 0 ELSE IF j - 1 > DataBits THEN 1 ELSE blob[n + 1][j - 1]
      BY <2>1
    <3>2. j - 1 = 0 <=> j = 1
      BY <1>0
    <3> QED
      BY <3>1, <3>2
  <2>6. Cells(blob)[i] = Frame(blob[n + 1])[j]
    BY <2>3, <2>4, <2>5, FrameAt
  <2> QED
    BY <1>1, <2>1, <2>2, <2>6
<1> QED
  BY <1>1, <1>3, <1>4

-----------------------------------------------------------------------------
(* The light: statements                                                   *)

\* What follows a statement of send_blob or of the enter_tx before it.
Follow(s, t) ==
    /\ s \in {"detach", "adc_stop", "timer_reset"} => t \in {"adc_stop", "timer_reset", "dir_tx"}
    /\ s = "dir_tx" => t = IF board = "samd21" THEN "bit_clock" ELSE "load"
    /\ s = "bit_clock" => t = "load"
    /\ s = "load" => t = IF board = "samd21" THEN "count_zero" ELSE "spin"
    /\ s = "count_zero" => t = "arm"
    /\ s = "arm" => t = "spin"
    /\ s = "spin" => t = "led_off"

LEMMA SendingFollows ==
    ASSUME board \in Boards, Interrupts, NEW k \in 1 .. Len(Sending)
    PROVE  /\ Sending[k] \in {"detach", "adc_stop", "timer_reset", "dir_tx", "bit_clock", "load",
                              "count_zero", "arm", "spin", "led_off"}
           /\ Sending[k] = "led_off" <=> k = Len(Sending)
           /\ k < Len(Sending) => Follow(Sending[k], Sending[k + 1])
<1>1. CASE board = "samd21"
  <2>1. Len(Sending) = 10
    BY <1>1, TxText
  <2>2. \/ k = 1 \/ k = 2 \/ k = 3 \/ k = 4 \/ k = 5 \/ k = 6 \/ k = 7 \/ k = 8 \/ k = 9
        \/ k = 10
    BY <2>1
  <2> QED
    BY <1>1, <2>1, <2>2, TxText DEF Follow
<1>2. CASE board = "uno"
  <2>1. Len(Sending) = 5
    BY <1>2, TxText
  <2>2. k = 1 \/ k = 2 \/ k = 3 \/ k = 4 \/ k = 5
    BY <2>1
  <2> QED
    BY <1>2, <2>1, <2>2, TxText DEF Follow
<1> QED
  BY <1>1, <1>2, ClockAssumption DEF Interrupts

\* From a place of a transmission to the next: on by one, or back to the next byte.
LEMMA SendingStep ==
    ASSUME Typed, Interrupts, NEW k \in 1 .. Len(Sending), NEW rest \in {EnterIdle, EnterRx},
           InTx(k, rest), Statement
    PROVE  /\ Head(todo) \in {"detach", "adc_stop", "timer_reset", "dir_tx", "bit_clock", "load",
                              "count_zero", "arm", "spin", "led_off"}
           /\ board' = board /\ cfg' = cfg
           /\ Head(todo) # "led_off" =>
                \E t \in Names :
                   /\ IF Head(todo) = "spin" /\ cbuf.blob # <<>> THEN t = "load"
                      ELSE Follow(Head(todo), t)
                   /\ Head(todo)' = t
                   /\ \E j \in 1 .. Len(Sending'), next \in {EnterIdle', EnterRx'} : InTx(j, next)'
<1>0. /\ board \in Boards /\ Head(todo) = Sending[k] /\ Tail(todo) = From(Sending, k + 1, rest)
      /\ Sending \in Seq(Names) /\ rest \in Seq(Names)
  BY Fields, PlaceStep, ProgramTypes
<1>1. /\ Sending[k] \in {"detach", "adc_stop", "timer_reset", "dir_tx", "bit_clock", "load",
                         "count_zero", "arm", "spin", "led_off"}
      /\ Sending[k] = "led_off" <=> k = Len(Sending)
      /\ k < Len(Sending) => Follow(Sending[k], Sending[k + 1])
  BY <1>0, SendingFollows
<1>2. board' = board /\ cfg' = cfg /\ (Head(todo) # "spin" => todo' = Tail(todo))
  BY <1>0, <1>1, StatementMoves
<1>3. Sending' = Sending /\ EnterIdle' = EnterIdle /\ EnterRx' = EnterRx
  BY <1>2, SamePrograms
<1>4. ASSUME NEW j \in 1 .. Len(Sending), todo' = From(Sending, j, rest)
      PROVE  /\ Head(todo)' = Sending[j] /\ Sending[j] \in Names
             /\ \E i \in 1 .. Len(Sending'), next \in {EnterIdle', EnterRx'} : InTx(i, next)'
  <2>1. Head(todo)' = Sending[j]
    BY <1>0, <1>4, FromStep
  <2>2. InTx(j, rest)'
    BY <1>3, <1>4 DEF InTx
  <2> QED
    BY <1>0, <1>3, <2>1, <2>2
<1>5. ASSUME todo' = Tail(todo), Head(todo) # "led_off"
      PROVE  \E t \in Names :
                /\ Follow(Head(todo), t)
                /\ Head(todo)' = t
                /\ \E j \in 1 .. Len(Sending'), next \in {EnterIdle', EnterRx'} : InTx(j, next)'
  <2>1. k + 1 \in 1 .. Len(Sending) /\ k < Len(Sending)
    BY <1>0, <1>1, <1>5
  <2>2. /\ Head(todo)' = Sending[k + 1] /\ Sending[k + 1] \in Names
        /\ \E i \in 1 .. Len(Sending'), next \in {EnterIdle', EnterRx'} : InTx(i, next)'
    BY <1>0, <1>4, <1>5, <2>1
  <2>3. Follow(Head(todo), Sending[k + 1])
    BY <1>0, <1>1, <2>1
  <2> QED
    BY <2>2, <2>3
<1>6. CASE Head(todo) = "spin"
  <2>1. Spin
    BY <1>6, StatementAt
  <2>2. CASE cbuf.blob = <<>>
    <3>1. todo' = Tail(todo)
      BY <2>1, <2>2 DEF Spin
    <3> QED
      BY <1>0, <1>1, <1>2, <1>5, <1>6, <2>2, <3>1
  <2>3. CASE cbuf.blob # <<>>
    <3>1. todo' = SendByte \o Tail(todo)
      BY <2>1, <2>3 DEF Spin
    <3>2. \/ board = "samd21" /\ k = 9 /\ Len(Sending) = 10
          \/ board = "uno" /\ k = 4 /\ Len(Sending) = 5
      BY <1>0, <1>6, TxWhere
    <3>3. CASE board = "samd21"
      <4>1. k + 1 = 10 /\ 6 \in 1 .. Len(Sending) /\ Sending[6] = "load"
        BY <1>0, <3>2, <3>3, TxText
      <4>2. todo' = From(Sending, 6, rest)
        BY <1>0, <3>1, <3>3, <4>1, SpinBack
      <4>3. /\ Head(todo)' = Sending[6] /\ Sending[6] \in Names
            /\ \E i \in 1 .. Len(Sending'), next \in {EnterIdle', EnterRx'} : InTx(i, next)'
        BY <1>4, <4>1, <4>2
      <4> QED
        BY <1>0, <1>1, <1>2, <1>6, <2>3, <4>1, <4>3
    <3>4. CASE board = "uno"
      <4>1. k + 1 = 5 /\ 3 \in 1 .. Len(Sending) /\ Sending[3] = "load"
        BY <1>0, <3>2, <3>4, TxText
      <4>2. todo' = From(Sending, 3, rest)
        BY <1>0, <3>1, <3>4, <4>1, SpinBack
      <4>3. /\ Head(todo)' = Sending[3] /\ Sending[3] \in Names
            /\ \E i \in 1 .. Len(Sending'), next \in {EnterIdle', EnterRx'} : InTx(i, next)'
        BY <1>4, <4>1, <4>2
      <4> QED
        BY <1>0, <1>1, <1>2, <1>6, <2>3, <4>1, <4>3
    <3> QED
      BY <3>2, <3>3, <3>4
  <2> QED
    BY <2>2, <2>3
<1>7. CASE Head(todo) # "spin"
  BY <1>0, <1>1, <1>2, <1>5, <1>7
<1> QED
  BY <1>6, <1>7

\* What a statement prepares for the next one.
LEMMA SendPrepares ==
    ASSUME Typed, Quietness, Interrupts, SendOK(Head(todo)), Statement, NEW t \in Names,
           Head(todo) \in {"detach", "adc_stop", "timer_reset", "dir_tx", "bit_clock", "load",
                           "count_zero", "arm", "spin"},
           IF Head(todo) = "spin" /\ cbuf.blob # <<>> THEN t = "load" ELSE Follow(Head(todo), t)
    PROVE  SendOK(t)'
<1>0. /\ timer.count \in 0 .. (BitTicks - 1) /\ age \in Nat /\ FrameBits > 0
      /\ board = "samd21" \/ board = "uno"
  BY Constants, Fields DEF Typed, Timers
<1>1. CASE Head(todo) \in {"detach", "adc_stop", "timer_reset"}
  <2>1. left' = left /\ left = 0
    <3>1. Detach \/ AdcStop \/ TimerReset
      BY <1>1, StatementAt
    <3>2. left' = left
      BY <3>1 DEF Detach, AdcStop, TimerReset, Hardware, KeepTx, txVars
    <3> QED
      BY <1>1, <3>2 DEF SendOK
  <2>2. t \in {"adc_stop", "timer_reset", "dir_tx"}
    BY <1>1 DEF Follow
  <2> QED
    BY <2>1, <2>2 DEF SendOK
<1>2. CASE Head(todo) = "dir_tx"
  <2>1. /\ dir' = "tx" /\ left' = 0
        /\ board = "uno" => timer' = Running("bits", FALSE)
    BY <1>2, StatementAt DEF DirTx
  <2>2. t = IF board = "samd21" THEN "bit_clock" ELSE "load"
    BY <1>2 DEF Follow
  <2> QED
    BY <1>0, <2>1, <2>2 DEF SendOK, Running
<1>3. CASE Head(todo) = "bit_clock"
  <2>1. dir' = dir /\ dir = "tx" /\ left' = left /\ left = 0 /\ timer' = Running("bits", FALSE)
    <3>1. BitClock
      BY <1>3, StatementAt
    <3> QED
      BY <1>3, <3>1 DEF SendOK, BitClock, Hardware, KeepTx, txVars
  <2>2. t = "load"
    BY <1>3 DEF Follow
  <2> QED
    BY <2>1, <2>2 DEF SendOK, Running
<1>4. CASE Head(todo) = "load"
  <2>1. Load
    BY <1>4, StatementAt
  <2>2. /\ dir' = dir /\ dir = "tx" /\ left' = FrameBits /\ left = 0 /\ age' = age
        /\ timer.on /\ timer.use = "bits" /\ ~timer.irq
    BY <1>4, <2>1 DEF SendOK, Load, airVars, Quietness
  <2>3. CASE board = "samd21"
    <3>1. timer' = timer
      BY <2>1, <2>3 DEF Load
    <3>2. t = "count_zero"
      BY <1>4, <2>3 DEF Follow
    <3> QED
      BY <2>2, <3>1, <3>2 DEF SendOK
  <2>4. CASE board = "uno"
    <3>1. timer' = [timer EXCEPT !.irq = TRUE, !.flag = FALSE, !.count = 0]
      BY <2>1, <2>4 DEF Load
    <3>2. /\ timer'.on = timer.on /\ timer'.use = timer.use
          /\ timer'.irq = TRUE /\ timer'.flag = FALSE /\ timer'.count = 0
      BY <3>1, Fields
    <3>3. t = "spin"
      BY <1>4, <2>4 DEF Follow
    <3> QED
      BY <1>0, <2>2, <3>2, <3>3 DEF SendOK, CellTiming
  <2> QED
    BY <1>0, <2>3, <2>4
<1>5. CASE Head(todo) = "count_zero"
  <2>1. CountZero
    BY <1>5, StatementAt
  <2>2. /\ dir' = dir /\ dir = "tx" /\ left' = left /\ left = FrameBits /\ age' = age
        /\ timer.on /\ timer.use = "bits" /\ ~timer.irq
        /\ timer' = [timer EXCEPT !.count = 0]
    BY <1>5, <2>1 DEF SendOK, CountZero, Hardware, KeepTx, txVars, airVars
  <2>3. /\ timer'.on = timer.on /\ timer'.use = timer.use
        /\ timer'.irq = timer.irq /\ timer'.count = 0
    BY <2>2, Fields
  <2>4. t = "arm"
    BY <1>5 DEF Follow
  <2> QED
    BY <1>0, <2>2, <2>3, <2>4 DEF SendOK
<1>6. CASE Head(todo) = "arm"
  <2>1. Arm
    BY <1>6, StatementAt
  <2>2. /\ dir' = dir /\ dir = "tx" /\ left' = left /\ left = FrameBits /\ age' = age
        /\ timer.on /\ timer.use = "bits" /\ age >= timer.count
        /\ timer' = [timer EXCEPT !.irq = TRUE, !.flag = FALSE]
    BY <1>6, <2>1 DEF SendOK, Arm, Hardware, KeepTx, txVars, airVars
  <2>3. /\ timer'.on = timer.on /\ timer'.use = timer.use
        /\ timer'.irq = TRUE /\ timer'.flag = FALSE /\ timer'.count = timer.count
    BY <2>2, Fields
  <2>4. t = "spin"
    BY <1>6 DEF Follow
  <2> QED
    BY <1>0, <2>2, <2>3, <2>4 DEF SendOK, CellTiming
<1>7. CASE Head(todo) = "spin"
  <2>1. Spin
    BY <1>7, StatementAt
  <2>2. /\ dir' = dir /\ dir = "tx" /\ left' = left /\ left = 0 /\ timer' = timer
        /\ cbuf' = cbuf /\ timer.on /\ timer.use = "bits"
    BY <1>7, <2>1 DEF SendOK, Spin, hwVars, txVars
  <2>3. IF cbuf.blob # <<>> THEN t = "load" ELSE t = "led_off"
    BY <1>7 DEF Follow
  <2> QED
    BY <2>2, <2>3 DEF SendOK
<1> QED
  BY <1>1, <1>2, <1>3, <1>4, <1>5, <1>6, <1>7

\* The next byte's frame comes after those already sent.
LEMMA QueueLoad ==
    ASSUME Typed, QueueOK, left = 0, cbuf.blob # <<>>, Load
    PROVE  QueueOK'
<1>0. /\ asked \in Seq(Byte) /\ cbuf.blob \in Seq(Byte) /\ Len(asked) \in Nat
      /\ FrameBits \in Nat /\ FrameBits >= 3
  <2>1. <<>> \in Seq(Byte) /\ \A blob \in Blobs : blob \in Seq(Byte)
    BY ClockAssumption DEF Byte
  <2>2. asked \in Seq(Byte)
    BY <2>1 DEF Typed
  <2> QED
    BY <2>2, Constants DEF Typed, Commands
<1>1. PICK n \in Nat : n = Loaded
  BY DEF QueueOK
<1>2. PICK m \in Nat \ {0} : m = Len(cbuf.blob)
  BY <1>0
<1>3. n + m = Len(asked) /\ n < Len(asked) /\ n + 1 \in 1 .. Len(asked)
  <2>1. n = Len(asked) - m
    BY <1>1, <1>2 DEF Loaded
  <2> QED
    BY <1>0, <2>1
<1>4. \A i \in 1 .. m : cbuf.blob[i] = asked[n + i]
  BY <1>1, <1>2 DEF QueueOK
<1>5. PICK b \in Byte : b = Head(cbuf.blob) /\ b = asked[n + 1]
  <2>1. Head(cbuf.blob) = cbuf.blob[1] /\ cbuf.blob[1] \in Byte /\ 1 \in 1 .. m
    BY <1>0, <1>2
  <2> QED
    BY <1>4, <2>1
<1>6. /\ bits' = Frame(b) /\ left' = FrameBits /\ cbuf'.blob = Tail(cbuf.blob)
      /\ led' = led /\ asked' = asked /\ line' = line
  BY <1>5 DEF Load, airVars, Typed, Commands
<1>7. /\ Len(Tail(cbuf.blob)) = m - 1
      /\ \A i \in 1 .. m - 1 : Tail(cbuf.blob)[i] = cbuf.blob[i + 1]
  BY <1>0, <1>2
<1>8. Out' = Out /\ Loaded' = n + 1
  <2>1. Out' = Out
    BY <1>6 DEF Out, Cells
  <2>2. Loaded' = Len(asked) - (m - 1)
    BY <1>6, <1>7 DEF Loaded
  <2>3. Len(asked) - (m - 1) = n + 1
    BY <1>3
  <2> QED
    BY <2>1, <2>2, <2>3
<1>9. line \in Seq({0, 1}) /\ Len(line) = n * FrameBits
  <2>1. line \in Seq({0, 1}) /\ Len(line) + 0 = n * FrameBits
    BY <1>1 DEF QueueOK
  <2>2. n * FrameBits \in Nat
    BY <1>0
  <2> QED
    BY <2>1, <2>2
<1>10. \A i \in 1 .. Len(cbuf'.blob) : cbuf'.blob[i] = asked'[Loaded' + i]
  <2> SUFFICES ASSUME NEW i \in 1 .. m - 1 PROVE Tail(cbuf.blob)[i] = asked[n + 1 + i]
    BY <1>6, <1>7, <1>8
  <2>1. i + 1 \in 1 .. m /\ n + (i + 1) = n + 1 + i
    OBVIOUS
  <2> QED
    BY <1>4, <1>7, <2>1
<1>11. Len(bits') = left' /\ Len(line') + left' = Loaded' * FrameBits
  <2>1. (n + 1) * FrameBits = n * FrameBits + FrameBits
    BY <1>0
  <2>2. Len(bits') = FrameBits
    BY <1>6, FrameType
  <2> QED
    BY <1>6, <1>8, <1>9, <2>1, <2>2
<1>12. \A i \in 1 .. left' : bits'[i] = Out'[Len(line') + i]
  <2> SUFFICES ASSUME NEW i \in 1 .. FrameBits PROVE Frame(b)[i] = Out[n * FrameBits + i]
    BY <1>6, <1>8, <1>9
  <2>1. Out[n * FrameBits + i] = Frame(asked[n + 1])[i]
    BY <1>0, <1>3, CellsAreFrames DEF Out
  <2> QED
    BY <1>5, <2>1
<1>13. \A i \in 1 .. Len(line') : line'[i] = Out'[i]
  BY <1>6, <1>8 DEF QueueOK
<1>14. led' => line' # <<>> /\ Last(line') = 0
  BY <1>6 DEF QueueOK, Last
<1>15. Loaded' \in Nat /\ line' \in Seq({0, 1})
  BY <1>6, <1>8, <1>9
<1> QED
  BY <1>10, <1>11, <1>12, <1>13, <1>14, <1>15 DEF QueueOK

\* The next bit of the queue is the next cell on the air.
LEMMA QueueShift ==
    ASSUME Typed, QueueOK, left > 0, ~(Short \/ Long), BitIsr
    PROVE  QueueOK' /\ left' = left - 1
<1>0. /\ left \in 1 .. 255 /\ bits \in Seq({0, 1}) /\ Len(bits) = left /\ bits # <<>>
      /\ line \in Seq({0, 1}) /\ Len(line) \in Nat
  BY DEF Typed, QueueOK
<1>1. /\ bits' = Tail(bits) /\ left' = (left + 255) % 256 /\ NextBit = Head(bits)
      /\ led' => Head(bits) = 0
      /\ line' = Append(line, Head(bits)) /\ asked' = asked /\ cbuf' = cbuf
  BY <1>0 DEF BitIsr, CellBegins, NextBit, KeepLoop
<1>2. left' = left - 1
  <2>1. \A x \in 1 .. 255 : (x + 255) % 256 = x - 1
    OBVIOUS
  <2> QED
    BY <1>0, <1>1, <2>1
<1>3. /\ Head(bits) = bits[1] /\ Head(bits) \in {0, 1}
      /\ Len(Tail(bits)) = left - 1 /\ \A i \in 1 .. left - 1 : Tail(bits)[i] = bits[i + 1]
  BY <1>0
<1>4. /\ Append(line, Head(bits)) \in Seq({0, 1}) /\ Len(Append(line, Head(bits))) = Len(line) + 1
      /\ \A i \in 1 .. Len(line) : Append(line, Head(bits))[i] = line[i]
      /\ Append(line, Head(bits))[Len(line) + 1] = Head(bits)
  BY <1>0, <1>3
<1>5. Out' = Out /\ Loaded' = Loaded
  BY <1>1 DEF Out, Loaded, Cells
<1>6. \A i \in 1 .. left : bits[i] = Out[Len(line) + i]
  BY DEF QueueOK
<1>7. \A i \in 1 .. Len(line') : line'[i] = Out'[i]
  <2> SUFFICES ASSUME NEW i \in 1 .. Len(line) + 1
               PROVE  Append(line, Head(bits))[i] = Out[i]
    BY <1>1, <1>4, <1>5
  <2>1. CASE i <= Len(line)
    BY <1>0, <1>4, <2>1 DEF QueueOK
  <2>2. CASE i = Len(line) + 1
    BY <1>0, <1>3, <1>4, <1>6, <2>2
  <2> QED
    BY <1>0, <2>1, <2>2
<1>8. \A i \in 1 .. left' : bits'[i] = Out'[Len(line') + i]
  <2> SUFFICES ASSUME NEW i \in 1 .. left - 1
               PROVE  Tail(bits)[i] = Out[Len(line) + 1 + i]
    BY <1>1, <1>2, <1>4, <1>5
  <2>1. i + 1 \in 1 .. left /\ Len(line) + (i + 1) = Len(line) + 1 + i
    BY <1>0
  <2> QED
    BY <1>3, <1>6, <2>1
<1>9. led' => line' # <<>> /\ Last(line') = 0
  <2>1. line' # <<>> /\ Last(line') = Head(bits)
    BY <1>0, <1>1, <1>4 DEF Last
  <2> QED
    BY <1>1, <2>1
<1>10. Len(bits') = left' /\ Len(line') + left' = Loaded' * FrameBits
  <2>1. Len(line) + left = Loaded * FrameBits
    BY DEF QueueOK
  <2>2. Len(line') + left' = Len(line) + left
    BY <1>0, <1>1, <1>2, <1>4
  <2> QED
    BY <1>1, <1>2, <1>3, <1>5, <2>1, <2>2
<1>11. Loaded' \in Nat /\ \A i \in 1 .. Len(cbuf'.blob) : cbuf'.blob[i] = asked'[Loaded' + i]
  BY <1>1, <1>5 DEF QueueOK
<1> QED
  BY <1>1, <1>2, <1>4, <1>7, <1>8, <1>9, <1>10, <1>11 DEF QueueOK

\* Nothing asked: nothing to send, nothing in the queue, nothing on the air.
LEMMA QueueIsEmpty ==
    ASSUME Typed, QueueOK, asked = <<>>
    PROVE  cbuf.blob = <<>> /\ line = <<>> /\ left = 0 /\ bits = <<>> /\ ~led
<1>1. cbuf.blob \in Seq(Byte) /\ Len(asked) = 0 /\ FrameBits \in Nat /\ left \in Nat
  BY Constants DEF Typed, Commands
<1>2. Loaded = 0 /\ cbuf.blob = <<>>
  <2>1. Len(cbuf.blob) \in Nat /\ 0 - Len(cbuf.blob) \in Nat
    BY <1>1 DEF QueueOK, Loaded
  <2>2. Len(cbuf.blob) = 0
    BY <2>1
  <2> QED
    BY <1>1, <2>2 DEF Loaded
<1>3. Len(line) = 0 /\ left = 0
  <2>1. Len(line) + left = 0 * FrameBits /\ Len(line) \in Nat
    BY <1>2 DEF QueueOK
  <2> QED
    BY <1>1, <2>1
<1>4. line = <<>> /\ bits = <<>>
  BY <1>3 DEF QueueOK, Typed
<1> QED
  BY <1>2, <1>3, <1>4 DEF QueueOK

LEMMA QueueEmptied ==
    ASSUME asked' = <<>>, cbuf'.blob = <<>>, line' = <<>>, left' = 0, bits' = <<>>, ~led'
    PROVE  QueueOK'
<1>1. Loaded' = 0 /\ FrameBits \in Nat
  BY Constants DEF Loaded
<1>2. 0 * FrameBits = 0
  BY <1>1
<1> QED
  BY <1>1, <1>2 DEF QueueOK

LEMMA QueueSame ==
    ASSUME QueueOK, UNCHANGED <<asked, line, left, bits>>, cbuf'.blob = cbuf.blob,
           led' = led \/ ~led'
    PROVE  QueueOK'
<1>1. Loaded' = Loaded /\ Out' = Out
  BY DEF Loaded, Out, Cells
<1> QED
  BY <1>1 DEF QueueOK, Last

\* The RMT is not there to be written to.
LEMMA NoRmt == ASSUME Typed, CommandOK, Interrupts PROVE ~At("rmt_write")
<1> SUFFICES ASSUME At("rmt_write") PROVE FALSE
  OBVIOUS
<1>0. /\ board \in Boards /\ cfg.mode \in Modes /\ ~AtEase /\ Head(todo) = "rmt_write"
  BY Fields DEF At, AtEase
<1>1. ASSUME NEW k \in 1 .. Len(Configuring), InConfig(k) PROVE FALSE
  <2>1. Head(todo) = Configuring[k] /\ (k = 1 \/ k = 2)
    BY <1>0, <1>1, PlaceStep DEF Configuring
  <2> QED
    BY <1>0, <2>1 DEF Configuring
<1>2. ASSUME NEW k \in 1 .. Len(EnterIdle), InIdle(k) PROVE FALSE
  <2>1. Head(todo) = EnterIdle[k]
    BY <1>0, <1>2, PlaceStep
  <2> QED
    BY <1>0, <2>1, IdleWhere
<1>3. ASSUME NEW k \in 1 .. Len(EnterRx), InRx(k) PROVE FALSE
  <2>1. Head(todo) = EnterRx[k]
    BY <1>0, <1>3, PlaceStep
  <2> QED
    BY <1>0, <2>1, RxWhere
<1>4. ASSUME NEW k \in 1 .. Len(Sending), NEW rest \in {EnterIdle, EnterRx}, InTx(k, rest)
      PROVE  FALSE
  <2>1. Head(todo) = Sending[k]
    BY <1>0, <1>4, PlaceStep
  <2> QED
    BY <1>0, <2>1, SendingFollows
<1> QED
  BY <1>0, <1>1, <1>2, <1>3, <1>4 DEF CommandOK

\* A statement leaves the queue and the air in step.
LEMMA QueueStatement ==
    ASSUME Typed, Quietness, CommandOK, LightOK, Interrupts, Statement
    PROVE  QueueOK' /\ asked' \in {asked, <<>>}
<1>0. QueueOK /\ ~At("rmt_write") /\ LoadReady
  BY NoRmt, LoadIsReady DEF LightOK
<1>1. CASE Load
  <2>1. cbuf.blob # <<>> /\ At("load")
    BY <1>0, <1>1 DEF Load, Do, LoadReady
  <2>2. left = 0 /\ asked' = asked
    <3>1. asked # <<>>
      BY <1>0, <2>1, QueueIsEmpty
    <3>2. SendOK(Head(todo))
      BY <3>1 DEF LightOK
    <3> QED
      BY <1>1, <2>1, <3>2 DEF SendOK, At, Load, airVars
  <2> QED
    BY <1>0, <1>1, <2>1, <2>2, QueueLoad
<1>2. CASE LedOff
  <2>1. /\ asked' = <<>> /\ line' = <<>> /\ led' = FALSE /\ cbuf' = cbuf /\ bits' = bits
        /\ left' = left /\ Head(todo) = "led_off"
    BY <1>2 DEF LedOff, Do, At
  <2>2. left = 0 /\ cbuf.blob = <<>>
    <3>1. CASE asked = <<>>
      BY <1>0, <3>1, QueueIsEmpty
    <3>2. CASE asked # <<>>
      BY <2>1, <3>2 DEF LightOK, SendOK
    <3> QED
      BY <3>1, <3>2
  <2>3. bits = <<>>
    BY <1>0, <2>2 DEF QueueOK, Typed
  <2> QED
    BY <2>1, <2>2, <2>3, QueueEmptied
<1>3. CASE DirTx
  <2>1. /\ asked' = asked /\ line' = line /\ cbuf' = cbuf /\ led' = FALSE
        /\ bits' = <<>> /\ left' = 0 /\ Head(todo) = "dir_tx"
    BY <1>3 DEF DirTx, airVars, Do, At
  <2>2. left = 0
    <3>1. CASE asked = <<>>
      BY <1>0, <3>1, QueueIsEmpty
    <3>2. CASE asked # <<>>
      BY <2>1, <3>2 DEF LightOK, SendOK
    <3> QED
      BY <3>1, <3>2
  <2>3. bits = <<>>
    BY <1>0, <2>2 DEF QueueOK, Typed
  <2> QED
    BY <1>0, <2>1, <2>2, <2>3, QueueSame
<1>4. CASE SetMode
  <2>1. /\ asked' = asked /\ line' = line /\ cbuf' = NoCommand /\ led' = led
        /\ bits' = bits /\ left' = left /\ Head(todo) = "set_mode"
    BY <1>4 DEF SetMode, KeepTx, txVars, airVars, Do, At
  <2>2. asked = <<>>
    <3>1. ASSUME asked # <<>> PROVE FALSE
      <4>1. PICK k \in 1 .. Len(Sending), rest \in {EnterIdle, EnterRx} : InTx(k, rest)
        BY <3>1 DEF LightOK
      <4>2. Head(todo) = Sending[k]
        BY <4>1, PlaceStep, Fields
      <4> QED
        BY <2>1, <4>2, TxWhere, Fields
    <3> QED
      BY <3>1
  <2>3. cbuf.blob = <<>> /\ cbuf'.blob = <<>>
    BY <1>0, <2>1, <2>2, QueueIsEmpty DEF NoCommand
  <2> QED
    BY <1>0, <2>1, <2>3, QueueSame
<1>5. CASE SetEncoding
  BY <1>0, <1>5, QueueSame DEF SetEncoding, KeepTx, txVars, airVars
<1>6. CASE \/ TimerOff \/ IrqOff \/ Detach \/ AdcStop \/ TimerReset \/ BitClock \/ CountZero
           \/ Arm \/ FreeRun \/ Attach \/ SampleClock \/ AdcStart
  BY <1>0, <1>6, QueueSame
  DEF Hardware, KeepTx, txVars, airVars, TimerOff, IrqOff, Detach, AdcStop, TimerReset, BitClock,
      CountZero, Arm, FreeRun, Attach, SampleClock, AdcStart
<1>7. CASE Spin
  BY <1>0, <1>7, QueueSame DEF Spin, txVars, airVars
<1>8. CASE ResetRx \/ DirRx
  BY <1>0, <1>8, QueueSame DEF ResetRx, DirRx, KeepTx, txVars, airVars
<1>9. CASE DirIdle
  BY <1>0, <1>9, QueueSame DEF DirIdle, airVars
<1>10. CASE RmtWrite
  BY <1>0, <1>10 DEF RmtWrite, Do
<1> QED
  BY <1>1, <1>2, <1>3, <1>4, <1>5, <1>6, <1>7, <1>8, <1>9, <1>10 DEF Statement

LEMMA LightStatement ==
    ASSUME Typed, Quietness, CommandOK, LightOK, Statement
    PROVE  LightOK'
<1> SUFFICES ASSUME Interrupts' PROVE LightOK'
  BY DEF LightOK
<1>0. Interrupts
  BY StatementMoves DEF Interrupts
<1>1. QueueOK' /\ asked' \in {asked, <<>>}
  BY <1>0, QueueStatement
<1>2. ASSUME asked' # <<>>
      PROVE  \E k \in 1 .. Len(Sending'), rest \in {EnterIdle', EnterRx'} :
                InTx(k, rest)' /\ SendOK(Head(todo))'
  <2>1. PICK k \in 1 .. Len(Sending), rest \in {EnterIdle, EnterRx} :
          InTx(k, rest) /\ SendOK(Head(todo))
    BY <1>0, <1>1, <1>2 DEF LightOK
  <2>2. /\ Head(todo) \in {"detach", "adc_stop", "timer_reset", "dir_tx", "bit_clock", "load",
                           "count_zero", "arm", "spin", "led_off"}
        /\ Head(todo) # "led_off" =>
             \E t \in Names :
                /\ IF Head(todo) = "spin" /\ cbuf.blob # <<>> THEN t = "load"
                   ELSE Follow(Head(todo), t)
                /\ Head(todo)' = t
                /\ \E j \in 1 .. Len(Sending'), next \in {EnterIdle', EnterRx'} : InTx(j, next)'
    BY <1>0, <2>1, SendingStep
  <2>3. Head(todo) # "led_off"
    BY <1>2, StatementAt DEF LedOff
  <2>4. PICK t \in Names :
          /\ IF Head(todo) = "spin" /\ cbuf.blob # <<>> THEN t = "load"
             ELSE Follow(Head(todo), t)
          /\ Head(todo)' = t
          /\ \E j \in 1 .. Len(Sending'), next \in {EnterIdle', EnterRx'} : InTx(j, next)'
    BY <2>2, <2>3
  <2>5. Head(todo) \in {"detach", "adc_stop", "timer_reset", "dir_tx", "bit_clock", "load",
                        "count_zero", "arm", "spin"}
    BY <2>2, <2>3
  <2>6. SendOK(t)'
    BY <1>0, <2>1, <2>4, <2>5, SendPrepares
  <2>7. SendOK(Head(todo))'
    BY <2>4, <2>6 DEF SendOK
  <2> QED
    BY <2>4, <2>7
<1> QED
  BY <1>1, <1>2 DEF LightOK

-----------------------------------------------------------------------------
(* The light: interrupts                                                   *)

\* A tick of the bit clock.
LEMMA TickOfBits ==
    ASSUME Typed, Tick, timer.on, timer.use = "bits"
    PROVE  /\ timer'.on = timer.on /\ timer'.use = timer.use /\ timer'.irq = timer.irq
           /\ timer'.count = (timer.count + 1) % BitTicks
           /\ timer'.flag <=> timer.flag \/ timer.count + 1 = BitTicks
<1>1. timer' = [timer EXCEPT !.count = (@ + 1) % BitTicks,
                             !.flag = @ \/ timer.count + 1 = BitTicks]
  BY DEF Tick, Match
<1>2. PICK f \in BOOLEAN : f <=> timer.flag \/ timer.count + 1 = BitTicks
  OBVIOUS
<1>3. PICK c : c = (timer.count + 1) % BitTicks
  OBVIOUS
<1>4. timer' = [timer EXCEPT !.count = c, !.flag = f]
  <2>1. (timer.flag \/ timer.count + 1 = BitTicks) = f
    BY <1>2, Fields
  <2> QED
    BY <1>1, <1>3, <2>1, Zenon
<1>5. /\ timer'.on = timer.on /\ timer'.use = timer.use /\ timer'.irq = timer.irq
      /\ timer'.count = c /\ timer'.flag = f
  BY <1>4, Fields
<1> QED
  BY <1>2, <1>3, <1>5

\* The counter goes on or wraps; the age goes on as long as it matters.
LEMMA TickNumbers ==
    ASSUME Typed, Tick
    PROVE  /\ timer.count \in 0 .. (BitTicks - 1) /\ late \in 0 .. Latency
           /\ (timer.count + 1) % BitTicks = IF timer.count + 1 = BitTicks THEN 0
                                             ELSE timer.count + 1
           /\ age \in Nat /\ age' = IF age < AgeCap THEN age + 1 ELSE age
           /\ Pending => late < Latency /\ late' = late + 1
           /\ ~Pending => late' = 0
<1>1. timer.count \in 0 .. (BitTicks - 1) /\ late \in 0 .. Latency /\ age \in Nat
  BY Constants DEF Typed, Timers
<1>2. (timer.count + 1) % BitTicks = IF timer.count + 1 = BitTicks THEN 0 ELSE timer.count + 1
  <2>1. CASE timer.count + 1 = BitTicks
    <3>1. BitTicks % BitTicks = 0
      BY Constants
    <3> QED
      BY <2>1, <3>1
  <2>2. CASE timer.count + 1 # BitTicks
    <3>1. timer.count + 1 \in 0 .. (BitTicks - 1)
      BY <1>1, <2>2, Constants
    <3>2. \A x \in 0 .. (BitTicks - 1) : x % BitTicks = x
      BY Constants
    <3> QED
      BY <2>2, <3>1, <3>2
  <2> QED
    BY <2>1, <2>2
<1> QED
  BY <1>1, <1>2 DEF Tick

\* Time passes between two cells.
LEMMA TickTiming ==
    ASSUME Typed, Tick, timer.on, timer.use = "bits", timer.irq, Interrupts, CellTiming,
           left' = left
    PROVE  CellTiming'
<1>0. /\ timer'.count = (timer.count + 1) % BitTicks
      /\ timer'.flag <=> timer.flag \/ timer.count + 1 = BitTicks
  BY TickOfBits
<1>1. /\ timer.count \in 0 .. (BitTicks - 1) /\ late \in 0 .. Latency
      /\ (timer.count + 1) % BitTicks = IF timer.count + 1 = BitTicks THEN 0
                                        ELSE timer.count + 1
      /\ age \in Nat /\ age' = IF age < AgeCap THEN age + 1 ELSE age
      /\ Pending => late < Latency /\ late' = late + 1
      /\ ~Pending => late' = 0
  BY TickNumbers
<1>2. Pending <=> timer.flag
  BY DEF Pending
<1>3. /\ BitTicks \in Nat \ {0} /\ Latency \in Nat /\ AgeCap = BitTicks + Latency + 1
      /\ 2 * Latency < BitTicks
  BY Constants
<1>4. CASE left = FrameBits
  <2>1. CASE timer.flag
    BY <1>0, <1>1, <1>2, <1>3, <1>4, <2>1 DEF CellTiming
  <2>2. CASE ~timer.flag
    BY <1>0, <1>1, <1>2, <1>3, <1>4, <2>2 DEF CellTiming
  <2> QED
    BY <2>1, <2>2
<1>5. CASE left # FrameBits
  <2>1. CASE timer.flag
    BY <1>0, <1>1, <1>2, <1>3, <1>5, <2>1 DEF CellTiming
  <2>2. CASE ~timer.flag
    BY <1>0, <1>1, <1>2, <1>3, <1>5, <2>2 DEF CellTiming
  <2> QED
    BY <2>1, <2>2
<1> QED
  BY <1>4, <1>5

\* The bit clock's interrupt comes in time for its cell.
LEMMA CellInTime ==
    ASSUME Typed, QueueOK, CellTiming, left > 0, timer.flag
    PROVE  ~(Short \/ Long) /\ timer.count = late
<1>0. /\ age \in Nat /\ late \in 0 .. Latency /\ left \in Nat
      /\ BitTicks \in Nat /\ Latency \in Nat /\ FrameBits \in Nat /\ FrameBits >= 3
      /\ 2 * Latency < BitTicks
  BY Constants DEF Typed
<1>1. CASE left = FrameBits
  <2>1. PICK n \in Nat : n = Loaded
    BY DEF QueueOK
  <2>2. Len(line) \in Nat /\ Len(line) + FrameBits = n * FrameBits
    BY <1>1, <2>1 DEF QueueOK
  <2>3. n # 0
    <3>1. 0 * FrameBits = 0
      BY <1>0
    <3> QED
      BY <1>0, <2>2, <3>1
  <2>4. PICK m \in Nat : n = m + 1
    <3>1. n - 1 \in Nat /\ n = (n - 1) + 1
      BY <2>3
    <3> QED
      BY <3>1
  <2>5. Len(line) = m * FrameBits
    <3>1. (m + 1) * FrameBits = m * FrameBits + FrameBits /\ m * FrameBits \in Nat
      BY <1>0
    <3> QED
      BY <1>0, <2>2, <2>4, <3>1
  <2>6. Len(line) % FrameBits = 0
    <3>1. 1 \in 1 .. FrameBits
      BY <1>0
    <3>2. (m * FrameBits + 1 - 1) % FrameBits = 1 - 1
      BY <3>1, CellPlace
    <3>3. m * FrameBits + 1 - 1 = m * FrameBits
      <4>1. m * FrameBits \in Nat
        BY <1>0
      <4> QED
        BY <4>1
    <3> QED
      BY <2>5, <3>2, <3>3
  <2> QED
    BY <1>0, <1>1, <2>6 DEF Short, Long, CellTiming
<1>2. CASE left # FrameBits
  BY <1>0, <1>2 DEF Short, Long, CellTiming
<1> QED
  BY <1>1, <1>2

\* A cell begins.
LEMMA LightBit ==
    ASSUME Typed, Quietness, LightOK, Interrupts, BitIsr
    PROVE  /\ QueueOK' /\ asked' = asked
           /\ asked # <<>> => SendOK(Head(todo))'
<1>1. /\ timer.irq /\ timer.flag /\ dir = "tx" /\ left > 0 /\ asked' = asked /\ todo' = todo
      /\ timer' = [timer EXCEPT !.flag = FALSE, !.irq = (left # 1)] /\ age' = 0
      /\ dir' = dir
  BY DEF BitIsr, Pending, Served, UnlessDone, CellBegins, KeepLoop, Quietness
<1>2. QueueOK /\ asked # <<>> /\ left \in 1 .. 255
  <2>1. QueueOK
    BY DEF LightOK
  <2>2. left \in 1 .. 255
    BY <1>1 DEF Typed
  <2> QED
    BY <2>1, <2>2, QueueIsEmpty
<1>3. Head(todo) = "spin" /\ CellTiming /\ timer.on /\ timer.use = "bits"
  <2>1. SendOK(Head(todo))
    BY <1>2 DEF LightOK
  <2> QED
    BY <1>1, <1>2, <2>1 DEF SendOK
<1>4. ~(Short \/ Long) /\ timer.count = late
  BY <1>1, <1>2, <1>3, CellInTime
<1>5. QueueOK' /\ left' = left - 1
  BY <1>1, <1>2, <1>4, QueueShift
<1>6. /\ timer'.on = timer.on /\ timer'.use = timer.use /\ timer'.flag = FALSE
      /\ timer'.count = timer.count /\ (left # 1 => timer'.irq)
  <2>1. PICK irq \in BOOLEAN : irq <=> left # 1
    OBVIOUS
  <2>2. (left # 1) = irq
    BY <2>1
  <2>3. timer' = [timer EXCEPT !.flag = FALSE, !.irq = irq]
    BY <1>1, <2>2, Zenon
  <2> QED
    BY <2>1, <2>3, Fields
<1>7. left' # FrameBits
  <2>1. left <= FrameBits
    BY <1>2 DEF QueueOK, Typed
  <2> QED
    BY <1>2, <1>5, <2>1, Constants
<1>8. CellTiming'
  <2>1. late \in 0 .. Latency /\ Latency \in Nat
    BY Constants DEF Typed
  <2> QED
    BY <1>1, <1>4, <1>6, <1>7, <2>1 DEF CellTiming
<1>9. SendOK("spin")'
  <2>1. left' > 0 => left # 1
    BY <1>2, <1>5
  <2> QED
    BY <1>1, <1>3, <1>6, <1>8, <2>1 DEF SendOK
<1>10. SendOK(Head(todo))'
  BY <1>1, <1>3, <1>9 DEF SendOK
<1> QED
  BY <1>1, <1>5, <1>10

\* Time passes at a place of send_blob.
LEMMA SendTick ==
    ASSUME Typed, Interrupts, Tick, NEW s, SendOK(s)
    PROVE  SendOK(s)'
<1>1. left' = left /\ cbuf' = cbuf /\ dir' = dir
  BY DEF Tick, KeepLoop, txVars
<1>2. CASE s \notin {"load", "count_zero", "arm", "spin"}
  BY <1>1, <1>2 DEF SendOK
<1>3. CASE s \in {"load", "count_zero", "arm", "spin"}
  <2>0. timer.on /\ timer.use = "bits"
    BY <1>3 DEF SendOK
  <2>1. /\ timer'.on = timer.on /\ timer'.use = timer.use /\ timer'.irq = timer.irq
        /\ timer'.count = (timer.count + 1) % BitTicks
    BY <2>0, TickOfBits
  <2>2. CASE s \in {"load", "count_zero"}
    BY <1>1, <2>0, <2>1, <2>2 DEF SendOK
  <2>3. CASE s = "arm"
    <3>1. age' >= timer'.count
      <4>1. /\ timer.count \in 0 .. (BitTicks - 1)
            /\ (timer.count + 1) % BitTicks = IF timer.count + 1 = BitTicks THEN 0
                                              ELSE timer.count + 1
            /\ age \in Nat /\ age' = IF age < AgeCap THEN age + 1 ELSE age
        BY TickNumbers
      <4>2. age >= timer.count
        BY <2>3 DEF SendOK
      <4> QED
        BY <2>1, <4>1, <4>2, Constants
    <3> QED
      BY <1>1, <2>0, <2>1, <2>3, <3>1 DEF SendOK
  <2>4. CASE s = "spin"
    <3>1. left > 0 => timer'.irq /\ CellTiming'
      <4>1. left > 0 => timer.irq /\ CellTiming
        BY <2>4 DEF SendOK
      <4> QED
        BY <1>1, <2>0, <2>1, <4>1, TickTiming
    <3> QED
      BY <1>1, <2>0, <2>1, <2>4, <3>1 DEF SendOK
  <2> QED
    BY <1>3, <2>2, <2>3, <2>4
<1> QED
  BY <1>2, <1>3

\* The interrupts of a receiver come only while nothing is sent.
LEMMA LightInterrupt ==
    ASSUME Typed, Quietness, LightOK, EdgeIsr \/ TimerIsr \/ Poll \/ Tick
    PROVE  LightOK'
<1>0. /\ UNCHANGED <<board, cfg, cbuf, todo, dir>>
      /\ EnterIdle' = EnterIdle /\ EnterRx' = EnterRx /\ Sending' = Sending
      /\ Interrupts' = Interrupts
  <2>1. UNCHANGED <<board, cfg, cbuf, todo, dir>>
    BY InterruptStays
  <2> QED
    BY <2>1, SamePrograms DEF Interrupts
<1> SUFFICES ASSUME Interrupts PROVE LightOK'
  BY <1>0 DEF LightOK
<1>1. ASSUME QueueOK', asked' = asked, asked # <<>> => SendOK(Head(todo))'
      PROVE  LightOK'
  <2>1. ASSUME asked # <<>>
        PROVE  \E k \in 1 .. Len(Sending'), rest \in {EnterIdle', EnterRx'} :
                  InTx(k, rest)' /\ SendOK(Head(todo))'
    <3>1. PICK k \in 1 .. Len(Sending), rest \in {EnterIdle, EnterRx} : InTx(k, rest)
      BY <2>1 DEF LightOK
    <3>2. InTx(k, rest)'
      BY <1>0, <3>1 DEF InTx
    <3> QED
      BY <1>0, <1>1, <2>1, <3>2
  <2> QED
    BY <1>1, <2>1 DEF LightOK
<1>2. CASE BitIsr
  BY <1>1, <1>2, LightBit
<1>3. CASE EdgeIsr \/ SampleIsr \/ CompareIsr
  <2>1. dir # "tx" /\ asked' = asked /\ line' = line /\ UNCHANGED <<bits, left, led>>
    BY <1>3 DEF EdgeIsr, SampleIsr, CompareIsr, KeepTx, txVars, airVars
  <2>2. QueueOK'
    BY <1>0, <2>1, QueueSame DEF LightOK
  <2>3. ASSUME asked # <<>> PROVE SendOK(Head(todo))'
    <3>1. SendOK(Head(todo))
      BY <2>3 DEF LightOK
    <3>2. Head(todo) \notin {"bit_clock", "load", "count_zero", "arm", "spin"}
      BY <2>1, <3>1 DEF SendOK
    <3> QED
      BY <1>0, <2>1, <3>1, <3>2 DEF SendOK
  <2> QED
    BY <1>1, <2>1, <2>2, <2>3
<1>4. CASE Poll
  BY <1>4 DEF Poll
<1>5. CASE Tick
  <2>1. asked' = asked /\ line' = line /\ UNCHANGED <<bits, left, led>>
    BY <1>5 DEF Tick, txVars
  <2>2. QueueOK'
    BY <1>0, <2>1, QueueSame DEF LightOK
  <2>3. ASSUME asked # <<>> PROVE SendOK(Head(todo))'
    <3>1. PICK s : s = Head(todo)
      OBVIOUS
    <3>2. SendOK(s)
      BY <2>3, <3>1 DEF LightOK
    <3>3. SendOK(s)'
      BY <1>5, <3>2, SendTick
    <3> QED
      BY <1>0, <3>1, <3>3 DEF SendOK
  <2> QED
    BY <1>1, <2>1, <2>2, <2>3
<1> QED
  BY <1>2, <1>3, <1>4, <1>5 DEF TimerIsr

-----------------------------------------------------------------------------
(* The light: the main loop                                                *)

\* A command starts with nothing asked.
LEMMA NothingAsked == ASSUME Typed, LightOK, Interrupts, AtEase PROVE asked = <<>>
<1> SUFFICES ASSUME asked # <<>> PROVE FALSE
  OBVIOUS
<1>1. PICK k \in 1 .. Len(Sending), rest \in {EnterIdle, EnterRx} : InTx(k, rest)
  BY DEF LightOK
<1> QED
  BY <1>1, PlaceStep, Fields

LEMMA LightHost ==
    ASSUME Typed, LightOK, Host
    PROVE  LightOK'
<1>1. AtEase /\ UNCHANGED <<board, cfg, bits, left, led, line>>
  BY DEF Host, Config, Transmit, Listen, Stop, Command, txVars
<1>2. Interrupts' = Interrupts /\ EnterIdle' = EnterIdle /\ EnterRx' = EnterRx
      /\ Sending' = Sending /\ board \in Boards
  BY <1>1, SamePrograms, Fields DEF Interrupts
<1> SUFFICES ASSUME Interrupts PROVE LightOK'
  BY <1>2 DEF LightOK
<1>3. /\ asked = <<>> /\ QueueOK
      /\ cbuf.blob = <<>> /\ line = <<>> /\ left = 0 /\ bits = <<>> /\ ~led
  BY <1>1, NothingAsked, QueueIsEmpty DEF LightOK
<1>4. CASE asked' = asked /\ cbuf'.blob = cbuf.blob
  BY <1>1, <1>3, <1>4, QueueEmptied DEF LightOK
<1>5. ASSUME NEW blob \in Blobs, NEW auto \in BOOLEAN, Transmit(blob, auto)
      PROVE  LightOK'
  <2>1. PICK rest \in {EnterIdle, EnterRx} : todo' = Sending \o rest
    <3>1. CASE auto
      BY <1>5, <3>1 DEF Transmit, Command, Sending
    <3>2. CASE ~auto
      BY <1>5, <3>2 DEF Transmit, Command, Sending
    <3> QED
      BY <3>1, <3>2
  <2>2. 1 \in 1 .. Len(Sending)
    BY <1>2, TxText, ClockAssumption DEF Interrupts
  <2>3. InTx(1, rest)'
    BY <1>2, <2>1, <2>2, PlaceStep DEF InTx
  <2>4. Head(todo)' = Sending[1] /\ Sending[1] \in {"detach", "adc_stop"}
    <3>1. todo' = From(Sending, 1, rest)
      BY <1>2, <2>1, PlaceStep
    <3>2. Head(todo)' = Sending[1]
      <4>1. Sending \in Seq(Names) /\ rest \in Seq(Names)
        BY <1>2, ProgramTypes
      <4>2. Head(From(Sending, 1, rest)) = Sending[1]
        BY <2>2, <4>1, FromStep
      <4> QED
        BY <3>1, <4>2
    <3>3. Sending[1] \in {"detach", "adc_stop"}
      BY <1>2, TxText, ClockAssumption DEF Interrupts
    <3> QED
      BY <3>2, <3>3
  <2>5. SendOK(Head(todo))'
    BY <1>1, <1>3, <2>4 DEF SendOK
  <2>6. asked' = blob /\ cbuf'.blob = blob
    BY <1>5 DEF Transmit, Typed, Commands
  <2>7. QueueOK'
    <3>1. blob \in Seq(Byte) /\ FrameBits \in Nat
      BY ClockAssumption, Constants DEF Byte
    <3>2. Loaded' = 0 /\ 0 * FrameBits = 0
      BY <2>6, <3>1 DEF Loaded
    <3>3. \A i \in 1 .. Len(cbuf'.blob) : cbuf'.blob[i] = asked'[Loaded' + i]
      BY <2>6, <3>1, <3>2
    <3> QED
      BY <1>1, <1>3, <3>2, <3>3 DEF QueueOK
  <2> QED
    BY <1>2, <2>2, <2>3, <2>5, <2>7 DEF LightOK
<1>6. ASSUME NEW e \in Encodings, NEW m \in Modes, Config(e, m)
      PROVE  asked' = asked /\ cbuf'.blob = cbuf.blob
  BY <1>6 DEF Config, Typed, Commands
<1>7. CASE Listen \/ Stop
  BY <1>4, <1>7 DEF Listen, Stop
<1> QED
  BY <1>4, <1>5, <1>6, <1>7 DEF Host

\* Bytes forwarded, or nothing done.
LEMMA LightSame ==
    ASSUME LightOK, UNCHANGED <<board, cfg, cbuf, todo, dir, timer, late, bits, left, led,
                                asked, line, age>>
    PROVE  LightOK'
<1>1. /\ EnterIdle' = EnterIdle /\ EnterRx' = EnterRx /\ Sending' = Sending
      /\ Interrupts' = Interrupts
  BY SamePrograms DEF Interrupts
<1>2. \A k, rest : InTx(k, rest)' = InTx(k, rest)
  BY <1>1 DEF InTx
<1>3. SendOK(Head(todo))' = SendOK(Head(todo))
  BY DEF SendOK, CellTiming
<1>4. QueueOK' = QueueOK
  BY DEF QueueOK, Loaded, Out, Cells, Last
<1> QED
  BY <1>1, <1>2, <1>3, <1>4 DEF LightOK

-----------------------------------------------------------------------------
(* The light: the invariant and what follows from it                       *)

LEMMA LightStarts == Init => LightOK
<1> SUFFICES ASSUME Init PROVE LightOK
  OBVIOUS
<1>1. asked = <<>> /\ cbuf.blob = <<>> /\ line = <<>> /\ left = 0 /\ bits = <<>> /\ ~led
  BY DEF Init, NoCommand
<1>2. Loaded = 0 /\ FrameBits \in Nat
  BY <1>1, Constants DEF Loaded
<1>3. 0 * FrameBits = 0
  BY <1>2
<1> QED
  BY <1>1, <1>2, <1>3 DEF LightOK, QueueOK

LEMMA LightKeeps == Typed /\ DirectionOK /\ LightOK /\ [Next]_vars => LightOK'
<1> SUFFICES ASSUME Typed, DirectionOK, LightOK, [Next]_vars PROVE LightOK'
  OBVIOUS
<1>0. Quietness /\ CommandOK
  BY DEF DirectionOK
<1>1. CASE Statement
  BY <1>0, <1>1, LightStatement
<1>2. CASE Host
  BY <1>2, LightHost
<1>3. CASE Forward
  BY <1>3, LightSame DEF Forward, hwVars, txVars, airVars
<1>4. CASE EdgeIsr \/ TimerIsr \/ Poll \/ Tick
  BY <1>0, <1>4, LightInterrupt
<1>5. CASE UNCHANGED vars
  BY <1>5, LightSame DEF vars, hwVars, txVars, airVars
<1> QED
  BY <1>1, <1>2, <1>3, <1>4, <1>5 DEF Next

\* What is on the air is a beginning of what was asked for, all of it at the end.
LEMMA LightIs == ASSUME Typed, LightOK, Interrupts PROVE LightIsFrames
<1>1. QueueOK
  BY DEF LightOK
<1>2. /\ asked \in Seq(Byte) /\ cbuf.blob \in Seq(Byte) /\ Len(asked) \in Nat
      /\ FrameBits \in Nat /\ left \in Nat /\ line \in Seq({0, 1})
  <2>1. <<>> \in Seq(Byte) /\ \A blob \in Blobs : blob \in Seq(Byte)
    BY ClockAssumption DEF Byte
  <2>2. asked \in Seq(Byte)
    BY <2>1 DEF Typed
  <2> QED
    BY <1>1, <2>2, Constants DEF Typed, Commands, QueueOK
<1>3. PICK N \in Nat : N = Len(asked) * FrameBits /\ N = Len(Out)
  BY <1>2, CellsAreFrames DEF Out
<1>4. PICK S : Out \in Seq(S) /\ {0, 1} \subseteq S
  <2> DEFINE R == {0, 1} \cup {Out[i] : i \in 1 .. N}
             c(i) == LET k == (i - 1) % FrameBits
                     IN  IF k = 0 THEN 0 ELSE IF k > DataBits THEN 1
                         ELSE asked[(i - 1) \div FrameBits + 1][k]
  <2>1. Out = [i \in 1 .. N |-> c(i)]
    BY <1>3 DEF Out, Cells
  <2>2. \A i \in 1 .. N : Out[i] = c(i)
    BY <2>1
  <2> HIDE DEF c
  <2>3. \A i \in 1 .. N : c(i) \in R
    BY <2>2
  <2>4. [i \in 1 .. N |-> c(i)] \in [1 .. N -> R]
    BY <2>3
  <2>5. Out \in Seq(R)
    <3> HIDE DEF R
    <3> QED
      BY <2>1, <2>4
  <2> QED
    BY <2>5
<1>5. Len(line) \in Nat /\ Len(line) <= N
  <2>0. PICK n \in Nat : n = Loaded
    BY <1>1 DEF QueueOK
  <2>1. PICK m \in Nat : Len(asked) = n + m
    <3>1. Len(cbuf.blob) \in Nat /\ n = Len(asked) - Len(cbuf.blob)
      BY <1>2, <2>0 DEF Loaded
    <3>2. Len(asked) = n + Len(cbuf.blob)
      BY <1>2, <3>1
    <3> QED
      BY <3>1, <3>2
  <2>2. N = n * FrameBits + m * FrameBits /\ n * FrameBits \in Nat /\ m * FrameBits \in Nat
    <3>1. (n + m) * FrameBits = n * FrameBits + m * FrameBits
      BY <1>2
    <3> QED
      BY <1>2, <1>3, <2>1, <3>1
  <2>3. Len(line) + left = n * FrameBits
    BY <1>1, <2>0 DEF QueueOK
  <2> QED
    BY <1>2, <2>2, <2>3
<1>6. line \in Seq(S) /\ \A i \in 1 .. Len(line) : line[i] = Out[i]
  BY <1>1, <1>2, <1>4 DEF QueueOK
<1>7. IsPrefix(line, Out)
  <2> DEFINE n == Len(line)
  <2>1. /\ SubSeq(line, 1, n) \in Seq(S) /\ Len(SubSeq(line, 1, n)) = n
        /\ \A i \in 1 .. n : SubSeq(line, 1, n)[i] = line[i]
    BY <1>5, <1>6
  <2>2. /\ SubSeq(Out, 1, n) \in Seq(S) /\ Len(SubSeq(Out, 1, n)) = n
        /\ \A i \in 1 .. n : SubSeq(Out, 1, n)[i] = Out[i]
    BY <1>3, <1>4, <1>5
  <2>3. SubSeq(line, 1, n) = SubSeq(Out, 1, n)
    BY <1>6, <2>1, <2>2, SeqEqual
  <2> QED
    BY <1>3, <1>5, <2>3 DEF IsPrefix
<1>8. ASSUME At("led_off") PROVE line = Out
  <2>1. left = 0 /\ cbuf.blob = <<>>
    <3>1. CASE asked = <<>>
      BY <1>1, <3>1, QueueIsEmpty
    <3>2. CASE asked # <<>>
      BY <1>8, <3>2 DEF LightOK, SendOK, At
    <3> QED
      BY <3>1, <3>2
  <2>2. Loaded = Len(asked)
    BY <1>2, <2>1 DEF Loaded
  <2>3. Len(line) = N
    <3>1. Len(line) + 0 = N
      BY <1>1, <1>3, <2>1, <2>2 DEF QueueOK
    <3> QED
      BY <1>5, <3>1
  <2> QED
    BY <1>3, <1>4, <1>6, <2>3, SeqEqual
<1>9. led => line # <<>> /\ Last(line) = 0
  BY <1>1 DEF QueueOK
<1> QED
  BY <1>7, <1>8, <1>9 DEF LightIsFrames, Out

\* On the boards whose bits are clocked out by an interrupt, what a CMD_TX puts on the
\* air is its bytes, in frames, each cell its time long but for the interrupt's latency,
\* none cut short or stretched between two statements, and all of them before the LED is
\* put out and the answer sent (send_blob, TC4_Handler, TIMER1_COMPA_vect).
THEOREM LightIsItsFrames == Spec => [](Interrupts => LightIsFrames)
<1>1. Init => Typed /\ DirectionOK /\ LightOK
  BY Starts, LightStarts
<1>2. Typed /\ DirectionOK /\ LightOK /\ [Next]_vars => (Typed /\ DirectionOK /\ LightOK)'
  BY Keeps, LightKeeps
<1>3. Typed /\ DirectionOK /\ LightOK => (Interrupts => LightIsFrames)
  BY LightIs
<1> QED
  BY <1>1, <1>2, <1>3, PTL DEF Spec
====
