---- MODULE UsbModem ----
(***************************************************************************)
(* The modem behind the USB: the byte-wise command parser and the command  *)
(* handler, which all three firmwares share. The parser has no timeout, so *)
(* what a cut-off command leaves behind decides how the next one is read.  *)
(***************************************************************************)
EXTENDS Naturals, Sequences

CONSTANTS
    MaxFrame,  \* MAX_FRAME: longest payload the parser accepts
    ConfigLen, \* length of a CONFIG payload
    MaxUp      \* bound: unsolicited messages waiting for the host

Byte == 0 .. 255
Word16 == 0 .. 256 * 256 - 1

ASSUME ModemAssumption ==
    /\ MaxFrame \in Word16 /\ MaxFrame >= 2
    /\ ConfigLen \in 1 .. MaxFrame
    /\ MaxUp \in Nat

VARIABLES
    down,       \* bytes on their way to the modem
    up,         \* messages on their way to the host
    cstate,     \* g_cstate
    ctype,      \* g_ctype
    clen,       \* g_clen
    cbuf,       \* g_cbuf, up to g_cidx
    configured, \* g_configured
    cfg,        \* the configuration in force
    dir         \* g_dir: "idle", "tx" or "rx"

modemVars == <<cstate, ctype, clen, cbuf, configured, cfg, dir>>

USB_SOF == 165
CMD_CONFIG == 1
CMD_TX == 2
CMD_RX == 3
CMD_STOP == 4
CMD_PING == 5
TX_FLAG_AUTO_RX == 1

\* Modem.send: the bytes of a command, its length in two of them.
Command(type, payload) ==
    <<USB_SOF, type, Len(payload) % 256, Len(payload) \div 256>> \o payload

\* Replies answer a command; the others come by themselves in receive mode.
Replies == {"ok", "pong", "tx_done", "err"}
Async == {"rx", "rx_status", "rx_tune"}

ParserReset == cstate = "SOF" /\ ctype = 0 /\ clen = 0 /\ cbuf = <<>>

ModemInit ==
    /\ down = <<>> /\ up = <<>>
    /\ ParserReset
    /\ configured = FALSE /\ cfg = 0 /\ dir = "idle"

-----------------------------------------------------------------------------
(* handle_command: what it answers, and what it leaves the modem in.       *)

Answer(m) == up' = Append(up, m)

FirstCfg(p) == IF configured THEN cfg ELSE p[1]
NewCfg(p) == p[1]

HandleConfig(p) ==
    IF Len(p) # ConfigLen
    THEN Answer("err") /\ UNCHANGED <<configured, cfg, dir>>
    ELSE Answer("ok") /\ configured' = TRUE /\ cfg' = NewCfg(p) /\ dir' = "idle"

\* The frame goes out with the interrupts of the receiver off; TxEnd reports it.
HandleTx(p) ==
    /\ UNCHANGED <<configured, cfg>>
    /\ IF ~configured \/ Len(p) < 2
       THEN Answer("err") /\ UNCHANGED dir
       ELSE dir' = "tx" /\ UNCHANGED up

HandleRx ==
    /\ UNCHANGED <<configured, cfg>>
    /\ IF ~configured
       THEN Answer("err") /\ UNCHANGED dir
       ELSE Answer("ok") /\ dir' = "rx"

HandleStop == Answer("ok") /\ dir' = "idle" /\ UNCHANGED <<configured, cfg>>

HandlePing == Answer("pong") /\ UNCHANGED <<configured, cfg, dir>>

HandleCommand(type, p) ==
    \/ type = CMD_CONFIG /\ HandleConfig(p)
    \/ type = CMD_TX /\ HandleTx(p)
    \/ type = CMD_RX /\ HandleRx
    \/ type = CMD_STOP /\ HandleStop
    \/ type = CMD_PING /\ HandlePing
    \/ /\ type \notin {CMD_CONFIG, CMD_TX, CMD_RX, CMD_STOP, CMD_PING}
       /\ Answer("err") /\ UNCHANGED <<configured, cfg, dir>>

-----------------------------------------------------------------------------
(* poll_usb_commands: one byte of the parser                               *)

Goto(s) == cstate' = s
Stay == UNCHANGED <<up, configured, cfg, dir>>

OnSof(b) ==
    /\ cstate = "SOF"
    /\ Goto(IF b = USB_SOF THEN "TYPE" ELSE "SOF")
    /\ UNCHANGED <<ctype, clen, cbuf>> /\ Stay

OnType(b) ==
    /\ cstate = "TYPE"
    /\ ctype' = b
    /\ Goto("LEN_LO")
    /\ UNCHANGED <<clen, cbuf>> /\ Stay

OnLenLo(b) ==
    /\ cstate = "LEN_LO"
    /\ clen' = b
    /\ Goto("LEN_HI")
    /\ UNCHANGED <<ctype, cbuf>> /\ Stay

PayloadAlways(n) == "PAYLOAD"
AfterLength(n) == IF n = 0 THEN "SOF" ELSE "PAYLOAD"

OnLenHi(b) ==
    /\ cstate = "LEN_HI"
    /\ clen' = clen + 256 * b
    /\ cbuf' = <<>>
    /\ UNCHANGED ctype
    /\ \/ /\ clen' > MaxFrame
          /\ Goto("SOF")
          /\ Answer("err") /\ UNCHANGED <<configured, cfg, dir>>
       \/ /\ clen' = 0
          /\ Goto(AfterLength(clen'))
          /\ HandleCommand(ctype, <<>>)
       \/ /\ clen' \in 1 .. MaxFrame
          /\ Goto(AfterLength(clen'))
          /\ Stay

OnPayload(b) ==
    /\ cstate = "PAYLOAD"
    /\ cbuf' = Append(cbuf, b)
    /\ UNCHANGED <<ctype, clen>>
    /\ IF Len(cbuf') >= clen
       THEN Goto("SOF") /\ HandleCommand(ctype, cbuf')
       ELSE Goto("PAYLOAD") /\ Stay

\* The main loop reads a byte; send_blob holds it up while a frame goes out.
ModemReadByte ==
    /\ dir # "tx" /\ down # <<>>
    /\ down' = Tail(down)
    /\ LET b == Head(down) IN OnSof(b) \/ OnType(b) \/ OnLenLo(b) \/ OnLenHi(b) \/ OnPayload(b)

\* The frame is out: enter_rx or enter_idle, then MSG_TX_DONE.
TxEnd ==
    /\ dir = "tx"
    /\ dir' = IF cbuf[1] % 2 = TX_FLAG_AUTO_RX THEN "rx" ELSE "idle"
    /\ Answer("tx_done")
    /\ UNCHANGED <<down, cstate, ctype, clen, cbuf, configured, cfg>>

\* forward_rx_bytes and emit_rx_tune: received bytes, error counts, slicer state.
ModemEmit(m) ==
    /\ dir = "rx" /\ Len(up) < MaxUp
    /\ Answer(m)
    /\ UNCHANGED <<down, modemVars>>

ModemTypeOK ==
    /\ \A i \in DOMAIN down : down[i] \in Byte
    /\ \A i \in DOMAIN up : up[i] \in Replies \cup Async
    /\ cstate \in {"SOF", "TYPE", "LEN_LO", "LEN_HI", "PAYLOAD"}
    /\ ctype \in Byte /\ clen \in Word16
    /\ Len(cbuf) <= MaxFrame
    /\ cstate = "PAYLOAD" => Len(cbuf) < clen
    /\ configured \in BOOLEAN /\ dir \in {"idle", "tx", "rx"}
====
