---- MODULE AckLink ----
(***************************************************************************)
(* The turn-around of one frame: the host tool sends CMD_TX over USB, the  *)
(* modem clocks the frame out, flips to receive and reports MSG_TX_DONE,   *)
(* the watch echoes the frame's id, the modem forwards it as MSG_RX, the   *)
(* host matches it or times out and sends the frame again.                 *)
(*                                                                         *)
(* Three programs and two USB pipes run concurrently, and time matters:    *)
(* every deadline of the host is a number of ticks, and a step of the code *)
(* that takes no time is urgent (Tick waits for it).                       *)
(***************************************************************************)
EXTENDS Integers, Sequences, FiniteSets

CONSTANTS
    NumFrames,   \* frames to send
    Tool,        \* "flasher" (firmware_flasher.py) or "totp" (totp_sender.py)
    TestFrames,  \* the first of them, whose retransmissions are limited: all of
                 \* totp_sender's, the link test of the flasher's
    Retries,     \* --retries: their number
    AirTimes,    \* the ticks a frame may really take on the air
    AirEstimate, \* tx_estimate: the host's guess of the same
    AckWindow,   \* ack_timeout
    Slack,       \* the extra second of the overall ceiling
    ReplyTimes,  \* ticks from the end of a frame to the end of the watch's echo
    MaxLost,     \* bound: commands lost on the way to the modem's parser
    TurnMod      \* bound: the ghost turn numbers wrap here

Ceiling == AirEstimate + AckWindow + Slack
Frames == 0 .. (NumFrames - 1)
Turns == 0 .. (TurnMod - 1)

ASSUME LinkAssumption ==
    /\ NumFrames \in Nat \ {0}
    /\ Tool \in {"flasher", "totp"}
    /\ TestFrames \in 0 .. NumFrames /\ Retries \in Nat
    /\ AirTimes \subseteq Nat /\ AirTimes # {}
    /\ {AirEstimate, AckWindow, Slack, MaxLost} \subseteq Nat
    /\ ReplyTimes \subseteq Nat
    /\ TurnMod \in Nat /\ MaxLost + 1 < TurnMod \* or an old turn's number came again

\* The extra second covers the time a frame takes beyond the estimate and the
\* tick a message may spend on the USB.
ASSUME CeilingAssumption == \A t \in AirTimes : t + 2 <= Ceiling

VARIABLES
    pc,       \* the host: "drain", "send", "wait", "done" or "failed"
    cur,      \* the frame being sent (its content: block, chunk or URI)
    id,       \* the id it carries
    attempt,  \* retransmissions so far
    txDone,   \* this attempt's MSG_TX_DONE has been read
    timer,    \* ticks to the host's deadline
    credited, \* frames the host counts as acknowledged
    cmds,     \* CMD_TX on the way to the modem, and in its USB buffer
    dir,      \* the modem: "idle", "tx" or "rx"
    onAir,    \* the command it sends, or sent last
    air,      \* ticks until the frame is out
    ring,     \* the ACKs decoded and not yet forwarded
    wire,     \* modem messages inside the USB stack
    due,      \* how many of them have been there for a tick
    inbox,    \* modem messages the host can read
    reply,    \* the id the watch is about to echo, or NoReply
    delay,    \* ticks until its echo ends
    taken,    \* frames the watch received intact
    lost,     \* commands lost so far
    turn      \* ghost: the number of this attempt, modulo TurnMod

hostVars == <<pc, cur, id, attempt, txDone, timer, credited, turn>>
modemVars == <<dir, onAir, air, ring>>
usbVars == <<cmds, wire, due, inbox, lost>>
watchVars == <<reply, delay, taken>>
vars == <<hostVars, modemVars, usbVars, watchVars>>

Commands == [frame : Frames, id : Frames, turn : Turns]
TxDone(t) == [type |-> "tx_done", id |-> -1, turn |-> t]
Ack(i, t) == [type |-> "rx", id |-> i, turn |-> t]
Messages == {TxDone(t) : t \in Turns} \cup {Ack(i, t) : i \in Frames, t \in Turns}
NoReply == -1

\* The ceiling of the attempt, or once its frame is out the tight window.
Deadline == IF txDone THEN AckWindow ELSE Ceiling

TypeOK ==
    /\ pc \in {"drain", "send", "wait", "done", "failed"}
    /\ cur \in 0 .. NumFrames /\ id \in 0 .. NumFrames
    /\ attempt \in Nat /\ txDone \in BOOLEAN
    /\ timer \in 0 .. Deadline
    /\ credited \in SUBSET Frames
    /\ cmds \in Seq(Commands)
    /\ dir \in {"idle", "tx", "rx"}
    /\ onAir \in Commands /\ air \in Nat
    /\ ring \in Seq({Ack(i, t) : i \in Frames, t \in Turns})
    /\ wire \in Seq(Messages) /\ inbox \in Seq(Messages)
    /\ due \in 0 .. Len(wire)
    /\ reply \in Frames \cup {NoReply} /\ delay \in Nat
    /\ taken \in SUBSET Frames
    /\ lost \in 0 .. MaxLost /\ turn \in Turns

Init ==
    /\ pc = "drain" /\ cur = 0 /\ id = 0 /\ attempt = 0
    /\ txDone = FALSE /\ timer = 0 /\ credited = {} /\ turn = 0
    /\ dir = "idle" /\ air = 0 /\ ring = <<>>
    /\ onAir = [frame |-> 0, id |-> 0, turn |-> 0]
    /\ cmds = <<>> /\ wire = <<>> /\ due = 0 /\ inbox = <<>> /\ lost = 0
    /\ reply = NoReply /\ delay = 0 /\ taken = {}

-----------------------------------------------------------------------------
(* The host                                                                *)

\* firmware_flasher throws away the messages of earlier attempts before it
\* sends; totp_sender does not.
Drained == IF Tool = "flasher" THEN <<>> ELSE inbox

HostDrain ==
    /\ pc = "drain"
    /\ inbox' = Drained
    /\ pc' = "send"
    /\ UNCHANGED <<cur, id, attempt, txDone, timer, credited, turn, modemVars,
                   cmds, wire, due, lost, watchVars>>

HostSend ==
    /\ pc = "send"
    /\ turn' = (turn + 1) % TurnMod
    /\ cmds' = Append(cmds, [frame |-> cur, id |-> id, turn |-> turn'])
    /\ txDone' = FALSE
    /\ timer' = Ceiling
    /\ pc' = "wait"
    /\ UNCHANGED <<cur, id, attempt, credited, modemVars, wire, due, inbox, lost,
                   watchVars>>

WindowOnTop == timer + AckWindow
Window == AckWindow

\* MSG_TX_DONE opens the tight window.
HostReadTxDone ==
    /\ pc = "wait"
    /\ inbox # <<>> /\ Head(inbox).type = "tx_done"
    /\ txDone' = TRUE
    /\ timer' = Window
    /\ inbox' = Tail(inbox)
    /\ UNCHANGED <<pc, cur, id, attempt, credited, turn, modemVars, cmds, wire, due,
                   lost, watchVars>>

\* firmware_flasher counts received bytes only after this attempt's TX_DONE.
Ungated == TRUE
Counts == Tool = "flasher" => txDone

\* MSG_RX: bytes of the optical return path, matched against the expected id.
HostReadRx ==
    /\ pc = "wait"
    /\ inbox # <<>> /\ Head(inbox).type = "rx"
    /\ inbox' = Tail(inbox)
    /\ IF Counts /\ Head(inbox).id = id
       THEN /\ credited' = credited \cup {cur}
            /\ cur' = cur + 1 /\ id' = id + 1 /\ attempt' = 0
            /\ pc' = IF cur + 1 = NumFrames THEN "done" ELSE "drain"
       ELSE UNCHANGED <<credited, cur, id, attempt, pc>>
    /\ UNCHANGED <<txDone, timer, turn, modemVars, cmds, wire, due, lost, watchVars>>

\* A frame that is never acknowledged ends the flasher's session (run_test_stage
\* exits); totp_sender's batch goes on to the next URI, with the same id.
GiveUpSkips == FALSE
GiveUpEnds == Tool = "flasher"

\* send_with_retries, with retries = None after the test.
Unlimited == cur >= TestFrames
MayRetry == Unlimited \/ attempt < Retries

\* The deadline passes: another attempt, or the tool gives the frame up.
HostTimeout ==
    /\ pc = "wait" /\ timer = 0
    /\ IF MayRetry
       THEN /\ attempt' = IF Unlimited THEN 0 ELSE attempt + 1
            /\ pc' = "drain"
            /\ UNCHANGED cur
       ELSE /\ attempt' = 0
            /\ cur' = IF GiveUpEnds THEN cur ELSE cur + 1
            /\ pc' = CASE GiveUpEnds -> "failed"
                       [] ~GiveUpEnds /\ cur' = NumFrames -> "done"
                       [] OTHER -> "drain"
    /\ UNCHANGED <<id, txDone, timer, credited, turn, modemVars, usbVars, watchVars>>

-----------------------------------------------------------------------------
(* The modem                                                               *)

\* handle_command(CMD_TX): enter_tx, then send_blob blocks until the frame is out.
ModemTake ==
    /\ dir # "tx" /\ cmds # <<>>
    /\ onAir' = Head(cmds) /\ cmds' = Tail(cmds)
    /\ dir' = "tx"
    /\ air' \in AirTimes
    /\ UNCHANGED <<ring, hostVars, wire, due, inbox, lost, watchVars>>

KeptRing == ring
RingOnEnterRx == <<>>

\* The last stop bit is out: enter_rx resets the ring, then TX_DONE is reported.
EndTx ==
    /\ dir = "tx" /\ air = 0
    /\ dir' = "rx"
    /\ ring' = RingOnEnterRx
    /\ wire' = Append(wire, TxDone(onAir.turn))
    /\ UNCHANGED <<onAir, air, hostVars, cmds, due, inbox, lost>>

\* The watch did not get the frame: it was not listening, or the CRC failed.
TxEndLost == EndTx /\ UNCHANGED watchVars

\* The watch, if it is not busy with an earlier frame, takes it and will echo the id.
TxEndHeard(d) ==
    /\ EndTx
    /\ reply = NoReply
    /\ reply' = onAir.id
    /\ delay' = d
    /\ taken' = taken \cup {onAir.frame}

\* forward_rx_bytes, on every pass of the main loop.
ModemForward ==
    /\ dir = "rx" /\ ring # <<>>
    /\ wire' = Append(wire, Head(ring))
    /\ ring' = Tail(ring)
    /\ UNCHANGED <<dir, onAir, air, hostVars, cmds, due, inbox, lost, watchVars>>

-----------------------------------------------------------------------------
(* The watch and the USB                                                   *)

EchoOver == reply # NoReply /\ delay = 0 /\ reply' = NoReply /\ UNCHANGED <<delay, taken>>

\* The modem decodes the echo: it has to be in receive mode.
EchoHeard ==
    /\ EchoOver
    /\ dir = "rx"
    /\ ring' = Append(ring, Ack(reply, onAir.turn))
    /\ UNCHANGED <<dir, onAir, air, hostVars, usbVars>>

EchoLost == EchoOver /\ UNCHANGED <<hostVars, modemVars, usbVars>>

\* Bytes of a command are dropped: the modem's parser swallows the rest of it.
UsbLose ==
    /\ cmds # <<>> /\ lost < MaxLost
    /\ cmds' = Tail(cmds)
    /\ lost' = lost + 1
    /\ UNCHANGED <<wire, due, inbox, hostVars, modemVars, watchVars>>

UsbDeliver ==
    /\ wire # <<>>
    /\ inbox' = Append(inbox, Head(wire))
    /\ wire' = Tail(wire)
    /\ due' = IF due = 0 THEN 0 ELSE due - 1
    /\ UNCHANGED <<cmds, lost, hostVars, modemVars, watchVars>>

-----------------------------------------------------------------------------
(* Time                                                                    *)

DownBelowZero(n) == n - 1
Down(n) == IF n = 0 THEN 0 ELSE n - 1

HostBusy == pc = "wait" /\ (timer = 0 \/ inbox # <<>>)
ModemBusy ==
    \/ dir = "tx" /\ air = 0
    \/ dir # "tx" /\ cmds # <<>>
    \/ dir = "rx" /\ ring # <<>>
WatchBusy == reply # NoReply /\ delay = 0

Tick ==
    /\ ~HostBusy /\ ~ModemBusy /\ ~WatchBusy /\ due = 0
    /\ timer' = IF pc = "wait" THEN timer - 1 ELSE timer
    /\ air' = Down(air)
    /\ delay' = Down(delay)
    /\ due' = Len(wire)
    /\ UNCHANGED <<pc, cur, id, attempt, txDone, credited, turn, dir, onAir, ring,
                   cmds, wire, inbox, lost, reply, taken>>

TxEnd == TxEndLost \/ \E d \in ReplyTimes : TxEndHeard(d)

Next ==
    \/ HostDrain \/ HostSend \/ HostReadTxDone \/ HostReadRx \/ HostTimeout
    \/ ModemTake \/ ModemForward
    \/ TxEndLost
    \/ \E d \in ReplyTimes : TxEndHeard(d)
    \/ EchoHeard \/ EchoLost \/ UsbLose \/ UsbDeliver \/ Tick

Spec == Init /\ [][Next]_vars

-----------------------------------------------------------------------------
(* Fairness: the three programs run and time passes; and the optical path  *)
(* is poor but not dead. Infinitely many attempts that could be heard with *)
(* an echo inside the window are, and of the echoes that end two ticks or  *)
(* more before the deadline not all are lost.                              *)

EchoInTime == EchoHeard /\ pc = "wait" /\ cmds = <<>> /\ (txDone => timer >= 2)
TimelyReplies == {d \in ReplyTimes : d + 3 <= AckWindow}

Fairness ==
    /\ WF_vars(HostDrain) /\ WF_vars(HostSend)
    /\ WF_vars(HostReadTxDone) /\ WF_vars(HostReadRx) /\ WF_vars(HostTimeout)
    /\ WF_vars(ModemTake) /\ WF_vars(ModemForward) /\ WF_vars(TxEnd)
    /\ WF_vars(EchoHeard \/ EchoLost) /\ WF_vars(UsbDeliver) /\ WF_vars(Tick)
    /\ SF_vars(\E d \in TimelyReplies : TxEndHeard(d))
    /\ SF_vars(EchoInTime)

FairSpec == Spec /\ Fairness

-----------------------------------------------------------------------------
(* Properties                                                              *)

TxDonesIn(s) == Cardinality({i \in DOMAIN s : s[i].type = "tx_done"})

\* Commands the modem has yet to answer, and answers the host has yet to read.
Outstanding == Len(cmds) + (IF dir = "tx" THEN 1 ELSE 0) + TxDonesIn(wire) + TxDonesIn(inbox)

\* The host is never a CMD_TX ahead of the modem: while it waits at most one
\* attempt is unanswered, and it sends the next only when none is. (Being one
\* ahead "for good" is the failure firmware_flasher.py:172-175 describes.)
NeverAhead ==
    /\ Outstanding <= 1
    /\ pc # "wait" \/ txDone => Outstanding = 0

\* An MSG_RX counts if and only if it was heard in this attempt's receive session: no
\* byte of an earlier one, in the ring or on the USB, is taken for this attempt's echo,
\* and none of this one is discarded for coming early (firmware_flasher.py:188-191).
GateSeparates == [][HostReadRx => (Counts <=> Head(inbox).turn = turn)]_vars

\* A matching id is proof the frame arrived: the host credits no frame the
\* watch has not received intact (README.md:178-180).
AckGenuine == credited \subseteq taken

\* The whole link implements the abstract promise.
Promise == INSTANCE StopAndWait WITH credited <- Cardinality(credited)
ImplementsStopAndWait == Promise!Spec

\* Once the test is passed nothing stops the session: every frame is delivered.
EveryFrameDelivered ==
    (cur = TestFrames /\ pc # "done") ~> (pc = "done" /\ credited = Frames)
====
