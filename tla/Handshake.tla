---- MODULE Handshake ----
(***************************************************************************)
(* The tools' sessions with a modem that outlives them (native USB: opening*)
(* the port does not reset it). Each run opens the port, parks and drains  *)
(* the modem, pings it, configures it, works with it, and ends: by itself, *)
(* or by a Ctrl-C anywhere, after which it parks the modem if it can.      *)
(***************************************************************************)
EXTENDS UsbModem, FiniteSets

CONSTANTS
    Chunk,      \* USB_WRITE_CHUNK: bytes per write
    Configs,    \* the configurations runs ask for
    Payloads,   \* CMD_TX payloads: flags, then data
    MidCommand, \* a Ctrl-C may cut a command off between two chunks
    MaxRuns     \* bound: runs of a tool

ASSUME HandshakeAssumption ==
    /\ Chunk \in Nat \ {0}
    /\ Chunk >= 4 + ConfigLen \* only a frame takes more than one chunk
    /\ Configs \subseteq Byte
    /\ \A p \in Payloads : p \in Seq(Byte) /\ Len(p) \in 2 .. MaxFrame
    /\ MidCommand \in BOOLEAN
    /\ MaxRuns \in Nat

VARIABLES
    pc,   \* where the run is
    out,  \* bytes of the command being written, not yet written
    want, \* the configuration this run asks for
    runs, \* runs started
    half,    \* ghost: some of the command being written is written, some is not
    cut,     \* ghost: since the last good handshake a command was cut off
    refusals \* ghost: handshakes that failed in a row

ghostVars == <<cut, refusals>>
hostVars == <<pc, out, half, want, runs, ghostVars>>
vars == <<down, up, modemVars, hostVars>>

Opening == {"stop", "ping", "pong", "config", "ok"}
Working == {"ready", "working", "tx", "tx_wait", "rx", "rx_wait"}

TypeOK ==
    /\ ModemTypeOK
    /\ pc \in {"closed", "failed", "park"} \cup Opening \cup Working
    /\ \A i \in DOMAIN out : out[i] \in Byte
    /\ want \in Configs \cup {0} /\ runs \in 0 .. MaxRuns
    /\ half \in BOOLEAN /\ cut \in BOOLEAN /\ refusals \in 0 .. MaxRuns

Init ==
    /\ ModemInit
    /\ pc = "closed" /\ out = <<>> /\ want = 0 /\ runs = 0
    /\ half = FALSE /\ cut = FALSE /\ refusals = 0

\* The modem has had the time to read and answer everything: the pauses of the
\* tools (2 s after opening, 0.2 s after STOP, 3 s for a reply) are longer than
\* its reaction and than a frame at the default rate.
Settled == down = <<>> /\ dir # "tx"

-----------------------------------------------------------------------------
(* Writing a command, a chunk at a time                                    *)

Write(cmd, next) == out' = cmd /\ half' = FALSE /\ pc' = next

WriteChunk ==
    /\ out # <<>>
    /\ LET n == IF Len(out) < Chunk THEN Len(out) ELSE Chunk IN
         /\ down' = down \o SubSeq(out, 1, n)
         /\ out' = SubSeq(out, n + 1, Len(out))
    /\ half' = (out' # <<>>)
    /\ UNCHANGED <<up, modemVars, pc, want, runs, ghostVars>>

Written(at) == pc = at /\ out = <<>>

-----------------------------------------------------------------------------
(* A run                                                                   *)

KeepInput == up
DrainInput == <<>>

Open ==
    /\ pc \in {"closed", "failed"} /\ Settled
    /\ runs < MaxRuns
    /\ runs' = runs + 1
    /\ want' \in Configs
    /\ up' = <<>>
    /\ Write(Command(CMD_STOP, <<>>), "stop")
    /\ UNCHANGED <<down, modemVars, ghostVars>>

\* The pause, modem.drain(), then the ping.
Drain ==
    /\ Written("stop") /\ Settled
    /\ up' = DrainInput
    /\ Write(Command(CMD_PING, <<>>), "ping")
    /\ UNCHANGED <<down, modemVars, want, runs, ghostVars>>

AwaitPong ==
    /\ Written("ping")
    /\ pc' = "pong"
    /\ UNCHANGED <<down, up, modemVars, out, half, want, runs, ghostVars>>

ConfigPayload == [i \in 1 .. ConfigLen |-> want]

\* _await_reply: unsolicited messages are skipped, the wanted one goes on, any
\* other ends the run.
Refused == pc' = "failed" /\ refusals' = refusals + 1 /\ UNCHANGED <<out, half, cut>>

ReadReply(at, wanted, Then) ==
    /\ pc = at /\ up # <<>>
    /\ up' = Tail(up)
    /\ \/ Head(up) \in Async /\ UNCHANGED <<pc, out, half, ghostVars>>
       \/ Head(up) = wanted /\ Then
       \/ Head(up) \notin Async \cup {wanted} /\ Refused
    /\ UNCHANGED <<down, modemVars, want, runs>>

ReadPong ==
    ReadReply("pong", "pong",
              Write(Command(CMD_CONFIG, ConfigPayload), "config") /\ UNCHANGED ghostVars)

AwaitOk ==
    /\ Written("config")
    /\ pc' = "ok"
    /\ UNCHANGED <<down, up, modemVars, out, half, want, runs, ghostVars>>

ReadOk ==
    ReadReply("ok", "ok",
              pc' = "ready" /\ cut' = FALSE /\ refusals' = 0 /\ UNCHANGED <<out, half>>)

\* The three seconds for a reply are over.
ReplyTimeout ==
    /\ pc \in {"pong", "ok"} /\ Settled /\ up = <<>>
    /\ Refused
    /\ UNCHANGED <<down, up, modemVars, want, runs>>

\* A tool sends a frame and reads until the modem reports it.
SendTx(p) ==
    /\ pc \in {"ready", "working"}
    /\ Write(Command(CMD_TX, p), "tx")
    /\ UNCHANGED <<down, up, modemVars, want, runs, ghostVars>>

AwaitTxDone ==
    /\ Written("tx")
    /\ pc' = "tx_wait"
    /\ UNCHANGED <<down, up, modemVars, out, half, want, runs, ghostVars>>

ReadWhileTx ==
    /\ pc = "tx_wait" /\ up # <<>>
    /\ up' = Tail(up)
    /\ pc' = CASE Head(up) = "tx_done" -> "working"
               [] Head(up) = "err" -> "failed"
               [] OTHER -> "tx_wait"
    /\ UNCHANGED <<down, modemVars, out, half, want, runs, ghostVars>>

\* test_rx sends nothing but CMD_RX, and the next message has to be the OK.
SendRx ==
    /\ pc = "ready"
    /\ Write(Command(CMD_RX, <<>>), "rx")
    /\ UNCHANGED <<down, up, modemVars, want, runs, ghostVars>>

AwaitRxOk ==
    /\ Written("rx")
    /\ pc' = "rx_wait"
    /\ UNCHANGED <<down, up, modemVars, out, half, want, runs, ghostVars>>

ReadRxOk ==
    /\ pc = "rx_wait" /\ up # <<>>
    /\ up' = Tail(up)
    /\ pc' = IF Head(up) = "ok" THEN "working" ELSE "failed"
    /\ UNCHANGED <<down, modemVars, out, half, want, runs, ghostVars>>

\* What else arrives is consumed: the received stream, or nothing of interest.
ReadStream ==
    /\ pc = "working" /\ up # <<>>
    /\ up' = Tail(up)
    /\ UNCHANGED <<down, modemVars, hostVars>>

-----------------------------------------------------------------------------
(* The end of a run                                                        *)

\* A command may be half-written: modem.send sleeps between two chunks.
Interruptible ==
    /\ pc \in Opening \cup Working
    /\ out # <<>> => MidCommand
    /\ cut' = (cut \/ half)
    /\ UNCHANGED refusals

\* The tool is done, or Ctrl-C reaches a handler: the modem is parked.
Finish ==
    /\ Interruptible
    /\ Write(Command(CMD_STOP, <<>>), "park")
    /\ UNCHANGED <<down, up, modemVars, want, runs>>

\* Ctrl-C outside every handler: nothing is sent.
Abort ==
    /\ Interruptible
    /\ pc' = "closed" /\ out' = <<>> /\ half' = FALSE
    /\ UNCHANGED <<down, up, modemVars, want, runs>>

Close ==
    /\ Written("park")
    /\ pc' = "closed"
    /\ UNCHANGED <<down, up, modemVars, out, half, want, runs, ghostVars>>

Next ==
    \/ WriteChunk \/ Open \/ Drain \/ AwaitPong \/ ReadPong \/ AwaitOk \/ ReadOk \/ ReplyTimeout
    \/ \E p \in Payloads : SendTx(p)
    \/ AwaitTxDone \/ ReadWhileTx \/ SendRx \/ AwaitRxOk \/ ReadRxOk \/ ReadStream
    \/ Finish \/ Abort \/ Close
    \/ ModemReadByte /\ UNCHANGED hostVars
    \/ TxEnd /\ UNCHANGED hostVars
    \/ \E m \in Async : ModemEmit(m) /\ UNCHANGED hostVars

Spec == Init /\ [][Next]_vars

-----------------------------------------------------------------------------
(* Properties                                                              *)

\* Only a command that was cut off can make a handshake fail: a Ctrl-C between
\* commands, in a receive session or while a frame is out does no harm. And not for
\* long: a refused handshake feeds STOP and PING, 8 bytes, to the command cut off.
RefusalsBounded ==
    /\ pc = "failed" => cut
    /\ refusals = 0 \/ 8 * (refusals - 1) + Chunk < MaxFrame

\* A tool goes to work with the configuration it asked for: the MSG_OK it read
\* was CONFIG's, not a STOP's (ir_modem.py:170-177).
ConfiguredAsAsked == pc \in {"ready", "working", "tx_wait"} => configured /\ cfg = want

\* The host never waits for a reply with more than that reply under way, so none
\* can be taken for the answer to another command.
RepliesUnderWay ==
    Cardinality({i \in DOMAIN up : up[i] \in Replies})
        + (IF dir = "tx" THEN 1 ELSE 0) + (IF down = <<>> THEN 0 ELSE 1)
RepliesInStep ==
    ~cut /\ pc \in {"pong", "ok", "tx_wait", "rx_wait"} => RepliesUnderWay <= 1
====
