---- MODULE AckLink_proofs ----
(***************************************************************************)
(* A matching id is proof that the frame arrived: firmware_flasher credits *)
(* no frame the watch has not taken, for every number of frames, every     *)
(* timing of the air, the echo and the USB, and every number of losses.    *)
(* The timing plays no part in that; what carries the argument is that the *)
(* flasher's id names its frame, and that an id can only travel back after *)
(* the watch has taken the frame that carried it.                          *)
(*                                                                         *)
(* Timing does carry the second half: that the tool is never a command     *)
(* ahead of the modem, and that its gate tells this attempt's echo from    *)
(* those of attempts before.                                               *)
(***************************************************************************)
EXTENDS AckLink, SequenceTheorems, FiniteSetTheorems, TLAPS

\* While there is work to do the current frame exists.
Control ==
    /\ pc \in {"drain", "send", "wait"} => cur < NumFrames
    /\ id <= cur

-----------------------------------------------------------------------------
(* Types                                                                   *)

LEMMA Numbers ==
    /\ NumFrames \in Nat /\ NumFrames >= 1
    /\ Ceiling \in Nat /\ AckWindow \in Nat
    /\ TurnMod \in Nat /\ TurnMod >= 1 /\ MaxLost \in Nat
BY LinkAssumption DEF Ceiling

\* The types hold initially.
LEMMA TypeInit == Init => TypeOK /\ Control
<1> SUFFICES ASSUME Init PROVE TypeOK /\ Control
  OBVIOUS
<1>1. 0 \in Frames /\ 0 \in Turns
  BY Numbers DEF Frames, Turns
<1>2. [frame |-> 0, id |-> 0, turn |-> 0] \in Commands
  BY <1>1 DEF Commands
<1>3. Control
  BY Numbers DEF Init, Control
<1>4. timer \in 0 .. Deadline /\ due \in 0 .. Len(wire)
  BY Numbers DEF Init, Deadline
<1>5. /\ cmds \in Seq(Commands) /\ wire \in Seq(Messages) /\ inbox \in Seq(Messages)
      /\ ring \in Seq({Ack(i, t) : i \in Frames, t \in Turns})
  BY DEF Init
<1>6. /\ cur \in 0 .. NumFrames /\ id \in 0 .. NumFrames /\ attempt \in Nat
      /\ lost \in 0 .. MaxLost /\ air \in Nat /\ delay \in Nat
  BY Numbers DEF Init
<1>7. /\ pc = "drain" /\ dir = "idle" /\ onAir \in Commands /\ turn \in Turns
      /\ reply = NoReply /\ credited \in SUBSET Frames /\ taken \in SUBSET Frames
  BY <1>1, <1>2 DEF Init
<1>8. txDone \in BOOLEAN
  BY DEF Init
<1> QED
  BY <1>3, <1>4, <1>5, <1>6, <1>7, <1>8 DEF TypeOK

\* The host's steps keep the types.
LEMMA TypeHost ==
    ASSUME TypeOK, Control,
           HostDrain \/ HostSend \/ HostReadTxDone \/ HostReadRx \/ HostTimeout
    PROVE  TypeOK' /\ Control'
<1> USE DEF hostVars, modemVars, usbVars, watchVars, Deadline
<1>1. CASE HostDrain
  <2>1. Drained \in Seq(Messages)
    BY DEF Drained, TypeOK
  <2> QED
    BY <1>1, <2>1 DEF HostDrain, TypeOK, Control
<1>2. CASE HostSend
  <2>1. turn' \in Turns
    BY <1>2, Numbers DEF HostSend, TypeOK, Turns
  <2>2. [frame |-> cur, id |-> id, turn |-> turn'] \in Commands
    BY <1>2, <2>1, Numbers DEF HostSend, Control, TypeOK, Frames, Commands
  <2>3. cmds' \in Seq(Commands)
    BY <1>2, <2>2 DEF HostSend, TypeOK
  <2>4. timer' \in 0 .. Deadline'
    BY <1>2, Numbers DEF HostSend, Deadline
  <2>5. /\ pc' = "wait" /\ txDone' \in BOOLEAN
        /\ UNCHANGED <<cur, id, attempt, credited, dir, onAir, air, ring, wire, due, inbox,
                       lost, reply, delay, taken>>
    BY <1>2 DEF HostSend
  <2>6. Control'
    <3>1. cur < NumFrames /\ id <= cur
      BY <1>2 DEF HostSend, Control
    <3> QED
      BY <2>4, <2>5, <3>1 DEF Control
  <2> QED
    BY <2>1, <2>3, <2>4, <2>5, <2>6 DEF TypeOK
<1>3. CASE HostReadTxDone
  <2>1. inbox' \in Seq(Messages) /\ timer' \in 0 .. Deadline'
    BY <1>3, Numbers DEF HostReadTxDone, TypeOK, Window, Deadline
  <2> QED
    BY <1>3, <2>1 DEF HostReadTxDone, TypeOK, Control
<1>4. CASE HostReadRx
  <2>1. inbox' \in Seq(Messages)
    BY <1>4 DEF HostReadRx, TypeOK
  <2>2. CASE Counts /\ Head(inbox).id = id
    <3>1. cur < NumFrames /\ cur \in Nat /\ id \in Nat /\ id <= cur
      BY <1>4 DEF HostReadRx, Control, TypeOK
    <3>2. /\ credited' = credited \cup {cur} /\ cur' = cur + 1 /\ id' = id + 1 /\ attempt' = 0
          /\ pc' = IF cur + 1 = NumFrames THEN "done" ELSE "drain"
      BY <1>4, <2>2 DEF HostReadRx
    <3>3. credited' \in SUBSET Frames /\ cur' \in 0 .. NumFrames /\ id' \in 0 .. NumFrames
      BY <3>1, <3>2, Numbers DEF TypeOK, Frames
    <3>4. Control'
      BY <3>1, <3>2, Numbers DEF Control
    <3> QED
      BY <1>4, <2>1, <3>2, <3>3, <3>4 DEF HostReadRx, TypeOK
  <2>3. CASE ~(Counts /\ Head(inbox).id = id)
    BY <1>4, <2>1, <2>3 DEF HostReadRx, TypeOK, Control
  <2> QED
    BY <2>2, <2>3
<1>5. CASE HostTimeout
  <2>1. attempt' \in Nat
    BY <1>5 DEF HostTimeout, TypeOK
  <2>2. cur < NumFrames /\ cur \in Nat /\ id \in Nat /\ id <= cur
    BY <1>5 DEF HostTimeout, Control, TypeOK
  <2>3. /\ cur' \in {cur, cur + 1} /\ id' = id
        /\ pc' \in {"drain", "done", "failed"}
        /\ pc' = "drain" => cur' < NumFrames
    BY <1>5, <2>2, Numbers DEF HostTimeout
  <2>4. cur' \in 0 .. NumFrames /\ Control'
    BY <2>2, <2>3, Numbers DEF Control
  <2> QED
    BY <1>5, <2>1, <2>3, <2>4 DEF HostTimeout, TypeOK
<1> QED
  BY <1>1, <1>2, <1>3, <1>4, <1>5

\* The frames and acknowledgements that travel are well formed.
LEMMA MessageTypes ==
    ASSUME NEW i \in Frames, NEW t \in Turns
    PROVE  /\ Ack(i, t) \in {Ack(j, u) : j \in Frames, u \in Turns}
           /\ Ack(i, t) \in Messages /\ TxDone(t) \in Messages
BY DEF Messages

\* The end of a frame: the modem flips to receive and reports it.
LEMMA TypeEndTx ==
    ASSUME TypeOK, Control, EndTx
    PROVE  /\ dir' \in {"idle", "tx", "rx"}
           /\ ring' \in Seq({Ack(j, u) : j \in Frames, u \in Turns})
           /\ wire' \in Seq(Messages) /\ due' \in 0 .. Len(wire')
<1>1. TxDone(onAir.turn) \in Messages
  BY DEF TypeOK, Commands, Messages
<1>2. wire' \in Seq(Messages) /\ Len(wire') = Len(wire) + 1
  BY <1>1 DEF EndTx, TypeOK
<1> QED
  BY <1>2 DEF EndTx, TypeOK, RingOnEnterRx

\* The modem's, the watch's and the USB's steps keep the types, and so does time.
LEMMA TypeRest ==
    ASSUME TypeOK, Control,
           \/ ModemTake \/ ModemForward \/ TxEndLost
           \/ \E d \in ReplyTimes : TxEndHeard(d)
           \/ EchoHeard \/ EchoLost \/ UsbLose \/ UsbDeliver \/ Tick
    PROVE  TypeOK' /\ Control'
<1> USE DEF hostVars, modemVars, usbVars, watchVars, Deadline
<1>1. CASE ModemTake
  <2>1. air' \in Nat /\ cmds' \in Seq(Commands) /\ onAir' \in Commands
    BY <1>1, LinkAssumption DEF ModemTake, TypeOK
  <2> QED
    BY <1>1, <2>1 DEF ModemTake, TypeOK, Control
<1>2. CASE ModemForward
  <2>1. Head(ring) \in Messages
    BY <1>2 DEF ModemForward, TypeOK, Messages
  <2>2. /\ wire' \in Seq(Messages) /\ Len(wire') = Len(wire) + 1
        /\ ring' \in Seq({Ack(j, u) : j \in Frames, u \in Turns})
    BY <1>2, <2>1 DEF ModemForward, TypeOK
  <2> QED
    BY <1>2, <2>2 DEF ModemForward, TypeOK, Control
<1>3. CASE TxEndLost
  BY <1>3, TypeEndTx DEF TxEndLost, EndTx, TypeOK, Control
<1>4. ASSUME NEW d \in ReplyTimes, TxEndHeard(d) PROVE TypeOK' /\ Control'
  <2>1. d \in Nat /\ onAir.id \in Frames /\ onAir.frame \in Frames
    BY LinkAssumption DEF TypeOK, Commands
  <2> QED
    BY <1>4, <2>1, TypeEndTx DEF TxEndHeard, EndTx, TypeOK, Control
<1>5. CASE EchoHeard
  <2>1. reply \in Frames /\ onAir.turn \in Turns
    BY <1>5 DEF EchoHeard, EchoOver, TypeOK, Commands
  <2>2. ring' \in Seq({Ack(j, u) : j \in Frames, u \in Turns})
    <3>1. Ack(reply, onAir.turn) \in {Ack(j, u) : j \in Frames, u \in Turns}
      BY <2>1
    <3>2. ring' = Append(ring, Ack(reply, onAir.turn))
      BY <1>5 DEF EchoHeard
    <3> QED
      BY <3>1, <3>2 DEF TypeOK
  <2> QED
    BY <1>5, <2>2 DEF EchoHeard, EchoOver, TypeOK, Control
<1>6. CASE EchoLost
  BY <1>6 DEF EchoLost, EchoOver, TypeOK, Control
<1>7. CASE UsbLose
  <2>1. lost' \in 0 .. MaxLost /\ cmds' \in Seq(Commands)
    BY <1>7, Numbers DEF UsbLose, TypeOK
  <2> QED
    BY <1>7, <2>1 DEF UsbLose, TypeOK, Control
<1>8. CASE UsbDeliver
  <2>1. /\ wire' \in Seq(Messages) /\ Len(wire') = Len(wire) - 1
        /\ inbox' \in Seq(Messages)
    BY <1>8 DEF UsbDeliver, TypeOK
  <2>2. due' \in 0 .. Len(wire')
    BY <1>8, <2>1 DEF UsbDeliver, TypeOK
  <2> QED
    BY <1>8, <2>1, <2>2 DEF UsbDeliver, TypeOK, Control
<1>9. CASE Tick
  <2>1. timer' \in 0 .. Deadline'
    BY <1>9, Numbers DEF Tick, HostBusy, TypeOK
  <2>2. air' \in Nat /\ delay' \in Nat /\ due' \in 0 .. Len(wire)
    BY <1>9 DEF Tick, Down, TypeOK
  <2> QED
    BY <1>9, <2>1, <2>2 DEF Tick, TypeOK, Control
<1> QED
  BY <1>1, <1>2, <1>3, <1>4, <1>5, <1>6, <1>7, <1>8, <1>9

\* Every step keeps the types.
LEMMA TypeStep == TypeOK /\ Control /\ [Next]_vars => TypeOK' /\ Control'
<1> SUFFICES ASSUME TypeOK, Control, [Next]_vars PROVE TypeOK' /\ Control'
  OBVIOUS
<1>1. CASE UNCHANGED vars
  BY <1>1 DEF vars, hostVars, modemVars, usbVars, watchVars, TypeOK, Control, Deadline
<1> QED
  BY <1>1, TypeHost, TypeRest DEF Next

\* Every variable keeps its type, for both tools.
THEOREM TypeCorrect == Spec => []TypeOK
BY TypeInit, TypeStep, PTL DEF Spec

-----------------------------------------------------------------------------
(* The flasher's acknowledgements                                          *)

\* Messages whose id, if they carry one, is of a frame the watch has taken, and
\* commands whose id names their frame.
Genuine == {m \in Messages : m.type = "rx" => m.id \in taken}
Named == {c \in Commands : c.frame = c.id /\ c.frame <= cur}

\* With TypeOK and Control, the inductive invariant.
GenuineInv ==
    /\ id = cur
    /\ credited = 0 .. (cur - 1) /\ credited \subseteq taken
    /\ reply # NoReply => reply \in taken
    /\ ring \in Seq(Genuine) /\ wire \in Seq(Genuine) /\ inbox \in Seq(Genuine)
    /\ cmds \in Seq(Named) /\ onAir \in Named

\* What is genuine, or named, stays so.
LEMMA SeqGrows ==
    ASSUME NEW S, NEW T, S \subseteq T, NEW s \in Seq(S)
    PROVE  s \in Seq(T)
OBVIOUS

LEMMA GenuineGrows ==
    ASSUME taken \subseteq taken'
    PROVE  \A s : s \in Seq(Genuine) => s \in Seq(Genuine')
<1>1. Genuine \subseteq Genuine'
  BY DEF Genuine
<1> QED
  BY <1>1, SeqGrows

LEMMA NamedGrows ==
    ASSUME TypeOK, TypeOK', cur <= cur'
    PROVE  Named \subseteq Named' /\ \A s : s \in Seq(Named) => s \in Seq(Named')
<1>1. cur \in Nat /\ cur' \in Nat
  BY Numbers DEF TypeOK
<1>2. \A c \in Commands : c.frame \in Nat
  BY Numbers DEF Commands, Frames
<1>3. Named \subseteq Named'
  BY <1>1, <1>2 DEF Named
<1> QED
  BY <1>3, SeqGrows

\* Initially nothing has been said.
LEMMA GenuineInit ==
    ASSUME Init
    PROVE  GenuineInv
<1>1. 0 \in Frames /\ 0 \in Turns
  BY Numbers DEF Frames, Turns
<1>2. onAir \in Named
  BY <1>1 DEF Init, Named, Commands
<1>3. /\ ring \in Seq(Genuine) /\ wire \in Seq(Genuine) /\ inbox \in Seq(Genuine)
      /\ cmds \in Seq(Named)
  BY DEF Init
<1> QED
  BY <1>2, <1>3 DEF Init, GenuineInv

\* The host's steps: what it credits, the watch has taken, and it is the next frame.
LEMMA GenuineHost ==
    ASSUME Tool = "flasher", TypeOK, Control, TypeOK', GenuineInv,
           HostDrain \/ HostSend \/ HostReadTxDone \/ HostReadRx \/ HostTimeout
    PROVE  /\ GenuineInv' /\ taken' = taken
           /\ \/ credited' = credited /\ cur' = cur
              \/ /\ cur \in taken /\ cur' = cur + 1
                 /\ credited' = credited \cup {cur}
<1> USE DEF hostVars, modemVars, usbVars, watchVars
<1>0. /\ taken' = taken /\ reply' = reply /\ ring' = ring /\ wire' = wire
      /\ onAir' = onAir
  BY DEF HostDrain, HostSend, HostReadTxDone, HostReadRx, HostTimeout
<1>1. Genuine' = Genuine
  BY <1>0 DEF Genuine
<1>2. ASSUME UNCHANGED <<cur, id, credited>>, inbox' \in Seq(Genuine), cmds' \in Seq(Named)
      PROVE  GenuineInv'
  <2>1. Named' = Named
    BY <1>2 DEF Named
  <2> QED
    BY <1>0, <1>1, <1>2, <2>1 DEF GenuineInv
<1>3. CASE HostDrain
  <2>1. inbox' \in Seq(Genuine)
    BY <1>3 DEF HostDrain, Drained, GenuineInv
  <2> QED
    BY <1>0, <1>2, <1>3, <2>1 DEF HostDrain, GenuineInv
<1>4. CASE HostSend
  <2>1. turn' \in Turns
    BY <1>4 DEF TypeOK
  <2>2. [frame |-> cur, id |-> id, turn |-> turn'] \in Named
    <3>1. cur \in Frames /\ id = cur /\ cur <= cur
      BY <1>4, Numbers DEF HostSend, Control, TypeOK, Frames, GenuineInv
    <3> QED
      BY <2>1, <3>1 DEF Named, Commands
  <2>3. cmds' \in Seq(Named)
    BY <1>4, <2>2 DEF HostSend, GenuineInv
  <2> QED
    BY <1>0, <1>2, <1>4, <2>3 DEF HostSend, GenuineInv
<1>5. CASE HostReadTxDone
  <2>1. inbox' \in Seq(Genuine)
    BY <1>5 DEF HostReadTxDone, GenuineInv
  <2> QED
    BY <1>0, <1>2, <1>5, <2>1 DEF HostReadTxDone, GenuineInv
<1>6. CASE HostReadRx
  <2>1. inbox' \in Seq(Genuine) /\ Head(inbox) \in Genuine /\ cmds' = cmds
    BY <1>6 DEF HostReadRx, GenuineInv
  <2>2. CASE Counts /\ Head(inbox).id = id
    <3>1. /\ cur < NumFrames /\ cur \in Nat /\ id = cur
          /\ credited' = credited \cup {cur} /\ cur' = cur + 1 /\ id' = id + 1
      BY <1>6, <2>2 DEF HostReadRx, Control, TypeOK, GenuineInv
    <3>2. cur \in taken
      BY <1>6, <2>1, <2>2, <3>1 DEF HostReadRx, Genuine
    <3>3. credited' = 0 .. (cur' - 1) /\ credited' \subseteq taken
      BY <3>1, <3>2 DEF GenuineInv
    <3>4. cmds \in Seq(Named') /\ onAir \in Named'
      BY <3>1, NamedGrows DEF GenuineInv
    <3> QED
      BY <1>0, <1>1, <2>1, <3>1, <3>2, <3>3, <3>4 DEF GenuineInv
  <2>3. CASE ~(Counts /\ Head(inbox).id = id)
    BY <1>0, <1>2, <1>6, <2>1, <2>3 DEF HostReadRx, GenuineInv
  <2> QED
    BY <2>2, <2>3
<1>7. CASE HostTimeout
  <2>1. UNCHANGED <<cur, id, credited, inbox, cmds>>
    BY <1>7 DEF HostTimeout, GiveUpEnds
  <2> QED
    BY <1>0, <1>2, <2>1 DEF GenuineInv
<1> QED
  BY <1>3, <1>4, <1>5, <1>6, <1>7

\* The other steps: the watch takes the frame on the air, and its id travels back.
LEMMA GenuineRest ==
    ASSUME TypeOK, Control, TypeOK', GenuineInv,
           \/ ModemTake \/ ModemForward \/ TxEndLost
           \/ \E d \in ReplyTimes : TxEndHeard(d)
           \/ EchoHeard \/ EchoLost \/ UsbLose \/ UsbDeliver \/ Tick
    PROVE  /\ GenuineInv' /\ credited' = credited /\ cur' = cur
           /\ taken' = taken \/ \E f \in Frames : f <= cur /\ taken' = taken \cup {f}
<1> USE DEF hostVars, modemVars, usbVars, watchVars
<1>0. UNCHANGED <<cur, id, credited>>
  BY DEF ModemTake, ModemForward, TxEndLost, TxEndHeard, EndTx, EchoHeard, EchoLost,
         UsbLose, UsbDeliver, Tick
<1>1. Named' = Named
  BY <1>0 DEF Named
<1>2. ASSUME taken' = taken, reply' \in {reply, NoReply},
             ring' \in Seq(Genuine), wire' \in Seq(Genuine), inbox' \in Seq(Genuine),
             cmds' \in Seq(Named), onAir' \in Named
      PROVE  GenuineInv' /\ taken' = taken
  <2>1. Genuine' = Genuine
    BY <1>2 DEF Genuine
  <2> QED
    BY <1>0, <1>1, <1>2, <2>1 DEF GenuineInv
<1>3. CASE ModemTake
  <2>1. cmds' \in Seq(Named) /\ onAir' \in Named
    BY <1>3 DEF ModemTake, GenuineInv
  <2> QED
    BY <1>0, <1>2, <1>3, <2>1 DEF ModemTake, GenuineInv
<1>4. CASE ModemForward
  <2>1. wire' \in Seq(Genuine) /\ ring' \in Seq(Genuine)
    BY <1>4 DEF ModemForward, GenuineInv
  <2> QED
    BY <1>0, <1>2, <1>4, <2>1 DEF ModemForward, GenuineInv
<1>5. ASSUME EndTx PROVE ring' \in Seq(Genuine) /\ wire' \in Seq(Genuine)
  <2>1. TxDone(onAir.turn) \in Genuine
    <3>1. TxDone(onAir.turn) \in Messages
      BY DEF TypeOK, Commands, Messages
    <3> QED
      BY <3>1 DEF Genuine, TxDone
  <2> QED
    BY <1>5, <2>1 DEF EndTx, RingOnEnterRx, GenuineInv
<1>6. CASE TxEndLost
  BY <1>0, <1>2, <1>5, <1>6 DEF TxEndLost, EndTx, GenuineInv
<1>7. ASSUME NEW d \in ReplyTimes, TxEndHeard(d)
      PROVE  /\ GenuineInv'
             /\ \E f \in Frames : f <= cur /\ taken' = taken \cup {f}
  <2>1. /\ reply' = onAir.id /\ taken' = taken \cup {onAir.frame}
        /\ UNCHANGED <<onAir, cmds, inbox>>
    BY <1>7 DEF TxEndHeard, EndTx
  <2>2. onAir.id = onAir.frame /\ onAir.frame \in Frames /\ onAir.frame <= cur
    BY DEF GenuineInv, Named, Commands
  <2>3. ring' \in Seq(Genuine') /\ wire' \in Seq(Genuine') /\ inbox' \in Seq(Genuine')
    BY <1>5, <1>7, <2>1, GenuineGrows DEF TxEndHeard, GenuineInv
  <2>4. GenuineInv'
    BY <1>0, <1>1, <2>1, <2>2, <2>3 DEF GenuineInv
  <2> QED
    BY <2>1, <2>2, <2>4
<1>8. CASE EchoHeard
  <2>1. reply # NoReply /\ reply \in Frames /\ reply \in taken /\ onAir.turn \in Turns
    BY <1>8 DEF EchoHeard, EchoOver, TypeOK, Commands, GenuineInv
  <2>2. Ack(reply, onAir.turn) \in Genuine
    <3>1. Ack(reply, onAir.turn) \in Messages
      BY <2>1, MessageTypes
    <3> QED
      BY <2>1, <3>1 DEF Genuine, Ack
  <2>3. ring' \in Seq(Genuine)
    BY <1>8, <2>2 DEF EchoHeard, GenuineInv
  <2> QED
    BY <1>0, <1>2, <1>8, <2>3 DEF EchoHeard, EchoOver, GenuineInv
<1>9. CASE EchoLost
  BY <1>0, <1>2, <1>9 DEF EchoLost, EchoOver, GenuineInv
<1>10. CASE UsbLose
  <2>1. cmds' \in Seq(Named)
    BY <1>10 DEF UsbLose, GenuineInv
  <2> QED
    BY <1>0, <1>2, <1>10, <2>1 DEF UsbLose, GenuineInv
<1>11. CASE UsbDeliver
  <2>1. wire' \in Seq(Genuine) /\ inbox' \in Seq(Genuine)
    BY <1>11 DEF UsbDeliver, GenuineInv
  <2> QED
    BY <1>0, <1>2, <1>11, <2>1 DEF UsbDeliver, GenuineInv
<1>12. CASE Tick
  BY <1>0, <1>2, <1>12 DEF Tick, GenuineInv
<1> QED
  BY <1>0, <1>3, <1>4, <1>6, <1>7, <1>8, <1>9, <1>10, <1>11, <1>12

\* The invariant is inductive.
LEMMA GenuineStep ==
    ASSUME Tool = "flasher"
    PROVE  TypeOK /\ Control /\ GenuineInv /\ [Next]_vars => GenuineInv'
<1> SUFFICES ASSUME TypeOK, Control, GenuineInv, [Next]_vars PROVE GenuineInv'
  OBVIOUS
<1>0. TypeOK'
  BY TypeStep
<1>1. CASE UNCHANGED vars
  BY <1>1 DEF vars, hostVars, modemVars, usbVars, watchVars, GenuineInv, Genuine, Named
<1> QED
  BY <1>0, <1>1, GenuineHost, GenuineRest DEF Next

\* A matching id is proof that the frame arrived (README "The acknowledgement"):
\* firmware_flasher.py never credits a frame the watch has not taken.
THEOREM FlasherAckIsGenuine == Tool = "flasher" => (Spec => []AckGenuine)
<1> SUFFICES ASSUME Tool = "flasher" PROVE Spec => []AckGenuine
  OBVIOUS
<1>1. Init => GenuineInv
  BY GenuineInit
<1>2. GenuineInv => AckGenuine
  BY DEF GenuineInv, AckGenuine
<1> QED
  BY <1>1, <1>2, TypeInit, TypeStep, GenuineStep, PTL DEF Spec

-----------------------------------------------------------------------------
(* The refinement                                                          *)

LEMMA CreditedCount ==
    ASSUME NEW n \in Nat
    PROVE  Cardinality(0 .. (n - 1)) = n
BY FS_Interval

\* Every step of the link is a step of StopAndWait or none.
LEMMA PromiseStep ==
    ASSUME Tool = "flasher", TypeOK, Control, GenuineInv, [Next]_vars
    PROVE  [Promise!Next]_<<Cardinality(credited), taken>>
<1>0. TypeOK' /\ Control' /\ GenuineInv'
  BY TypeStep, GenuineStep
<1>1. cur \in Nat /\ cur' \in Nat /\ NumFrames \in Nat
  BY <1>0, Numbers DEF TypeOK
<1>2. Cardinality(credited) = cur /\ (Cardinality(credited))' = cur'
  BY <1>0, <1>1, CreditedCount DEF GenuineInv
<1>3. \/ taken' = taken /\ cur' = cur
      \/ taken' = taken /\ cur \in taken /\ cur' = cur + 1
      \/ cur' = cur /\ \E f \in Frames : f <= cur /\ taken' = taken \cup {f}
  <2>1. CASE UNCHANGED vars
    BY <2>1 DEF vars, hostVars, watchVars
  <2> QED
    BY <1>0, <2>1, GenuineHost, GenuineRest DEF Next
<1>4. CASE taken' = taken /\ cur' = cur
  BY <1>2, <1>4
<1>5. CASE taken' = taken /\ cur \in taken /\ cur' = cur + 1
  BY <1>2, <1>5 DEF Promise!Next, Promise!Credit
<1>6. ASSUME NEW f \in Frames, f <= cur, cur' = cur, taken' = taken \cup {f}
      PROVE  [Promise!Next]_<<Cardinality(credited), taken>>
  <2>1. CASE f < cur
    <3>1. f \in taken
      BY <1>1, <2>1 DEF Frames, GenuineInv
    <3> QED
      BY <1>2, <1>6, <3>1
  <2>2. CASE f = cur
    BY <1>1, <1>2, <1>6, <2>2 DEF Frames, Promise!Next, Promise!Take
  <2> QED
    BY <1>1, <1>6, <2>1, <2>2 DEF Frames
<1> QED
  BY <1>3, <1>4, <1>5, <1>6

\* The flasher's link implements the promise: frames are credited one at a time, in
\* order, each only after the watch has taken it.
THEOREM FlasherKeepsPromise == Tool = "flasher" => (Spec => ImplementsStopAndWait)
<1> SUFFICES ASSUME Tool = "flasher" PROVE Spec => ImplementsStopAndWait
  OBVIOUS
<1>1. Init => GenuineInv
  BY GenuineInit
<1>2. Init => Promise!Init
  BY FS_EmptySet DEF Init, Promise!Init
<1>3. TypeOK /\ Control /\ GenuineInv /\ [Next]_vars => [Promise!Next]_<<Cardinality(credited), taken>>
  BY PromiseStep
<1> QED
  BY <1>1, <1>2, <1>3, TypeInit, TypeStep, GenuineStep, PTL
     DEF Spec, ImplementsStopAndWait, Promise!Spec

-----------------------------------------------------------------------------
(* The host is never ahead of the modem. Here time is what carries the     *)
(* argument: while an attempt is unanswered the host's deadline is further *)
(* away than the answer. All that travels back is one stream, from the     *)
(* ring through the USB to the host, and the report of a frame parts what  *)
(* was heard before it from what was heard after.                          *)

\* What the host will read, in order.
Link == (inbox \o wire) \o ring

\* The turns from one to a later one.
Apart(t, u) == IF t <= u THEN u - t ELSE u - t + TurnMod

Asking == pc = "wait" /\ ~txDone
HeardIn(t) == \A i \in 1 .. Len(Link) : Link[i].type = "rx" /\ Link[i].turn = t

\* Nothing is outstanding: what comes in was heard in the last session there was, which
\* is this attempt's if its report has been read.
Resting ==
    /\ cmds = <<>> /\ dir # "tx"
    /\ HeardIn(onAir.turn)
    /\ Apart(onAir.turn, turn) <= lost
    /\ pc = "wait" => (txDone <=> onAir.turn = turn)

\* The command is on its way to the modem.
Commanded ==
    /\ Asking /\ dir # "tx" /\ timer = Ceiling
    /\ Len(cmds) = 1 /\ cmds[1].turn = turn
    /\ HeardIn(onAir.turn)
    /\ onAir.turn # turn /\ Apart(onAir.turn, turn) <= lost + 1

\* The frame is on the air.
Sending ==
    /\ Asking /\ cmds = <<>> /\ dir = "tx" /\ onAir.turn = turn
    /\ \A i \in 1 .. Len(Link) : Link[i].type = "rx" /\ Link[i].turn # turn
    /\ timer >= air + 2

\* The frame is out, and its report the n-th message.
ReportedAt(n) ==
    /\ Asking /\ cmds = <<>> /\ dir # "tx" /\ onAir.turn = turn
    /\ n \in 1 .. Len(inbox) + Len(wire)
    /\ Link[n].type = "tx_done"
    /\ \A i \in 1 .. Len(Link) :
         i # n => Link[i].type = "rx" /\ (Link[i].turn = turn <=> i > n)
    /\ timer >= IF n <= Len(inbox) + due THEN 1 ELSE 2
Reported == \E n \in Nat : ReportedAt(n)

\* With TypeOK, the inductive invariant.
InTurn == Resting \/ Commanded \/ Sending \/ Reported

\* Two sequences in a row, element by element.
LEMMA Joined ==
    ASSUME NEW S, NEW s \in Seq(S), NEW t \in Seq(S)
    PROVE  /\ s \o t \in Seq(S) /\ Len(s) \in Nat /\ Len(t) \in Nat
           /\ Len(s \o t) = Len(s) + Len(t)
           /\ \A i \in 1 .. Len(s \o t) :
                /\ i <= Len(s) => (s \o t)[i] = s[i]
                /\ i > Len(s) => i - Len(s) \in 1 .. Len(t) /\ (s \o t)[i] = t[i - Len(s)]
<1>1. Len(s) \in Nat /\ Len(t) \in Nat
  OBVIOUS
<1>2. /\ s \o t \in Seq(S) /\ Len(s \o t) = Len(s) + Len(t)
      /\ \A i \in 1 .. Len(s) + Len(t) : (s \o t)[i] = IF i <= Len(s) THEN s[i] ELSE t[i - Len(s)]
  BY ConcatProperties
<1> QED
  BY <1>1, <1>2

\* A message handed on stays in the stream, one read or heard is its first or its last.
LEMMA HandedOn ==
    ASSUME NEW S, NEW s \in Seq(S), NEW t \in Seq(S)
    PROVE  /\ t # <<>> => Append(s, Head(t)) \o Tail(t) = s \o t
           /\ s # <<>> => Tail(s) \o t = Tail(s \o t) /\ Head(s \o t) = Head(s)
           /\ \A x \in S : s \o Append(t, x) = Append(s \o t, x)
<1>1. ASSUME t # <<>> PROVE Append(s, Head(t)) \o Tail(t) = s \o t
  <2>1. Head(t) \in S /\ Tail(t) \in Seq(S) /\ t = <<Head(t)>> \o Tail(t)
    BY <1>1, HeadTailProperties
  <2>2. <<Head(t)>> \in Seq(S) /\ Append(s, Head(t)) = s \o <<Head(t)>>
    BY <2>1, AppendIsConcat
  <2>3. (s \o <<Head(t)>>) \o Tail(t) = s \o (<<Head(t)>> \o Tail(t))
    BY <2>1, <2>2, ConcatAssociative
  <2> QED
    BY <2>1, <2>2, <2>3
<1>2. ASSUME s # <<>> PROVE Tail(s) \o t = Tail(s \o t) /\ Head(s \o t) = Head(s)
  <2> DEFINE a == Tail(s)
             b == s \o t
  <2>1. a \in Seq(S) /\ Len(a) = Len(s) - 1 /\ \A i \in 1 .. Len(a) : a[i] = s[i + 1]
    BY <1>2
  <2>2. Len(s) \in Nat \ {0} /\ Head(s) = s[1] /\ Len(t) \in Nat
    BY <1>2
  <2>3. /\ b \in Seq(S) /\ Len(b) = Len(s) + Len(t)
        /\ \A i \in 1 .. Len(b) : /\ i <= Len(s) => b[i] = s[i]
                                  /\ i > Len(s) => b[i] = t[i - Len(s)]
    BY Joined
  <2> HIDE DEF a, b
  <2>4. a \in Seq(S)
    BY <2>1
  <2>5. /\ a \o t \in Seq(S) /\ Len(a \o t) = Len(a) + Len(t)
        /\ \A i \in 1 .. Len(a \o t) : /\ i <= Len(a) => (a \o t)[i] = a[i]
                                       /\ i > Len(a) => (a \o t)[i] = t[i - Len(a)]
    BY <2>4, Joined
  <2>6. b # <<>> /\ Head(b) = Head(s)
    BY <2>2, <2>3
  <2>7. /\ Tail(b) \in Seq(S) /\ Len(Tail(b)) = Len(b) - 1
        /\ \A i \in 1 .. Len(Tail(b)) : Tail(b)[i] = b[i + 1]
    BY <2>3, <2>6
  <2>8. ASSUME NEW i \in 1 .. Len(a \o t) PROVE (a \o t)[i] = Tail(b)[i]
    <3>1. CASE i <= Len(a)
      <4>1. i \in 1 .. Len(a) /\ i + 1 \in 1 .. Len(b) /\ i + 1 <= Len(s)
        BY <2>1, <2>2, <2>3, <2>5, <3>1
      <4>2. (a \o t)[i] = a[i] /\ a[i] = s[i + 1]
        BY <2>1, <2>5, <3>1, <4>1
      <4>3. b[i + 1] = s[i + 1]
        BY <2>3, <4>1
      <4>4. Tail(b)[i] = b[i + 1]
        BY <2>1, <2>2, <2>3, <2>5, <2>7
      <4> QED
        BY <4>2, <4>3, <4>4
    <3>2. CASE i > Len(a)
      <4>1. i + 1 > Len(s) /\ i + 1 \in 1 .. Len(b) /\ i - Len(a) = (i + 1) - Len(s)
        BY <2>1, <2>2, <2>3, <2>5, <3>2
      <4>2. (a \o t)[i] = t[i - Len(a)] /\ b[i + 1] = t[(i + 1) - Len(s)]
        BY <2>3, <2>5, <3>2, <4>1
      <4>3. Tail(b)[i] = b[i + 1]
        BY <2>1, <2>2, <2>3, <2>5, <2>7
      <4> QED
        BY <4>1, <4>2, <4>3
    <3>3. i <= Len(a) \/ i > Len(a)
      BY <2>1, <2>2
    <3> QED
      BY <3>1, <3>2, <3>3
  <2>9. Len(a \o t) = Len(Tail(b))
    BY <2>1, <2>2, <2>3, <2>5, <2>7
  <2>10. a \o t = Tail(b)
    BY <2>5, <2>7, <2>8, <2>9, SeqEqual
  <2> QED
    BY <2>6, <2>10 DEF a, b
<1>3. ASSUME NEW x \in S PROVE s \o Append(t, x) = Append(s \o t, x)
  <2>1. <<x>> \in Seq(S) /\ s \o t \in Seq(S)
    BY Joined
  <2>2. Append(t, x) = t \o <<x>> /\ Append(s \o t, x) = (s \o t) \o <<x>>
    BY <2>1, AppendIsConcat
  <2>3. (s \o t) \o <<x>> = s \o (t \o <<x>>)
    BY <2>1, ConcatAssociative
  <2> QED
    BY <2>2, <2>3
<1> QED
  BY <1>1, <1>2, <1>3

\* The stream's messages.
LEMMA LinkIsStream ==
    ASSUME TypeOK
    PROVE  /\ ring \in Seq(Messages) /\ wire \in Seq(Messages) /\ inbox \in Seq(Messages)
           /\ inbox \o wire \in Seq(Messages) /\ Len(inbox \o wire) = Len(inbox) + Len(wire)
           /\ Link \in Seq(Messages) /\ Len(Link) = Len(inbox) + Len(wire) + Len(ring)
           /\ \A i \in 1 .. Len(Link) :
                Link[i] = IF i <= Len(inbox) THEN inbox[i]
                          ELSE IF i <= Len(inbox) + Len(wire) THEN wire[i - Len(inbox)]
                          ELSE ring[i - Len(inbox) - Len(wire)]
<1>1. ring \in Seq(Messages)
  <2>1. {Ack(i, t) : i \in Frames, t \in Turns} \subseteq Messages
    BY DEF Messages
  <2> QED
    BY <2>1, SeqGrows DEF TypeOK
<1>2. wire \in Seq(Messages) /\ inbox \in Seq(Messages)
  BY DEF TypeOK
<1> DEFINE q == inbox \o wire
<1>3. /\ q \in Seq(Messages) /\ Len(q) = Len(inbox) + Len(wire)
      /\ \A i \in 1 .. Len(q) : /\ i <= Len(inbox) => q[i] = inbox[i]
                                /\ i > Len(inbox) => q[i] = wire[i - Len(inbox)]
  BY <1>2, Joined
<1>4. Len(inbox) \in Nat /\ Len(wire) \in Nat /\ Len(ring) \in Nat
  BY <1>1, <1>2
<1> HIDE DEF q
<1>5. q \in Seq(Messages)
  BY <1>3
<1>6. /\ q \o ring \in Seq(Messages) /\ Len(q \o ring) = Len(q) + Len(ring)
      /\ \A i \in 1 .. Len(q \o ring) : /\ i <= Len(q) => (q \o ring)[i] = q[i]
                                        /\ i > Len(q) => (q \o ring)[i] = ring[i - Len(q)]
  BY <1>1, <1>5, Joined
<1>7. ASSUME NEW i \in 1 .. Len(q \o ring)
      PROVE  (q \o ring)[i] = IF i <= Len(inbox) THEN inbox[i]
                              ELSE IF i <= Len(inbox) + Len(wire) THEN wire[i - Len(inbox)]
                              ELSE ring[i - Len(inbox) - Len(wire)]
  <2>1. CASE i <= Len(q)
    <3>1. (q \o ring)[i] = q[i] /\ i \in 1 .. Len(q)
      BY <1>3, <1>4, <1>6, <2>1
    <3> QED
      BY <1>3, <1>4, <2>1, <3>1
  <2>2. CASE i > Len(q)
    <3>1. (q \o ring)[i] = ring[i - Len(q)] /\ i - Len(q) = i - Len(inbox) - Len(wire)
      BY <1>3, <1>4, <1>6, <2>2
    <3> QED
      BY <1>3, <1>4, <2>2, <3>1
  <2> QED
    BY <1>3, <1>4, <2>1, <2>2
<1> QED
  BY <1>1, <1>2, <1>3, <1>6, <1>7 DEF Link, q

\* How the steps move the stream: forwarding and delivery leave it alone, an echo is
\* appended, a message read is its first.
LEMMA LinkMoves ==
    ASSUME TypeOK
    PROVE  /\ ModemForward \/ UsbDeliver => Link' = Link
           /\ EchoHeard => Link' = Append(Link, Ack(reply, onAir.turn))
           /\ inbox # <<>> /\ inbox' = Tail(inbox) /\ UNCHANGED <<wire, ring>>
              => Link # <<>> /\ Link' = Tail(Link) /\ Head(inbox) = Link[1]
<1> DEFINE q == inbox \o wire
<1>1. /\ ring \in Seq(Messages) /\ wire \in Seq(Messages) /\ inbox \in Seq(Messages)
      /\ q \in Seq(Messages)
  BY LinkIsStream
<1>2. ASSUME ModemForward PROVE Link' = Link
  <2>1. ring # <<>> /\ wire' = Append(wire, Head(ring)) /\ ring' = Tail(ring) /\ inbox' = inbox
    BY <1>2 DEF ModemForward, hostVars, usbVars
  <2>2. Head(ring) \in Messages
    BY <1>1, <2>1
  <2>3. inbox \o Append(wire, Head(ring)) = Append(q, Head(ring))
    BY <1>1, <2>2, HandedOn
  <2>4. Append(q, Head(ring)) \o Tail(ring) = q \o ring
    BY <1>1, <2>1, HandedOn
  <2> QED
    BY <2>1, <2>3, <2>4 DEF Link
<1>3. ASSUME UsbDeliver PROVE Link' = Link
  <2>1. /\ wire # <<>> /\ inbox' = Append(inbox, Head(wire)) /\ wire' = Tail(wire)
        /\ ring' = ring
    BY <1>3 DEF UsbDeliver, modemVars
  <2>2. Append(inbox, Head(wire)) \o Tail(wire) = q
    BY <1>1, <2>1, HandedOn
  <2> QED
    BY <2>1, <2>2 DEF Link
<1>4. ASSUME EchoHeard PROVE Link' = Append(Link, Ack(reply, onAir.turn))
  <2>1. /\ ring' = Append(ring, Ack(reply, onAir.turn)) /\ UNCHANGED <<inbox, wire>>
        /\ reply \in Frames /\ onAir.turn \in Turns
    BY <1>4 DEF EchoHeard, EchoOver, usbVars, TypeOK, Commands
  <2>2. Ack(reply, onAir.turn) \in Messages
    BY <2>1 DEF Messages
  <2> HIDE DEF q
  <2>3. q \o Append(ring, Ack(reply, onAir.turn)) = Append(q \o ring, Ack(reply, onAir.turn))
    BY <1>1, <2>2, HandedOn
  <2> QED
    BY <2>1, <2>3 DEF Link, q
<1>5. ASSUME inbox # <<>>, inbox' = Tail(inbox), UNCHANGED <<wire, ring>>
      PROVE  Link # <<>> /\ Link' = Tail(Link) /\ Head(inbox) = Link[1]
  <2>1. Tail(inbox) \o wire = Tail(q) /\ q # <<>>
    <3>1. Len(q) = Len(inbox) + Len(wire) /\ Len(inbox) >= 1
      BY <1>1, <1>5, LinkIsStream
    <3> QED
      BY <1>1, <1>5, <3>1, HandedOn
  <2>2. Tail(q) \o ring = Tail(q \o ring)
    BY <1>1, <2>1, HandedOn
  <2>3. Len(Link) >= 1 /\ Link[1] = inbox[1] /\ Link \in Seq(Messages)
    BY <1>5, LinkIsStream
  <2> QED
    BY <1>5, <1>1, <2>1, <2>2, <2>3 DEF Link
<1> QED
  BY <1>2, <1>3, <1>4, <1>5

\* The next turn is one further from an earlier one, and another one, as long as the
\* numbers have not come round.
LEMMA NextTurn ==
    ASSUME NEW t \in Turns, NEW u \in Turns, Apart(t, u) + 1 < TurnMod
    PROVE  /\ Apart(t, u) \in Nat
           /\ t # (u + 1) % TurnMod /\ Apart(t, (u + 1) % TurnMod) = Apart(t, u) + 1
<1>1. (u + 1) % TurnMod = IF u + 1 = TurnMod THEN 0 ELSE u + 1
  BY Numbers DEF Turns
<1>2. t \in Nat /\ u \in Nat /\ t < TurnMod /\ u < TurnMod /\ TurnMod \in Nat
  BY Numbers DEF Turns
<1> HIDE DEF Turns
<1>3. CASE u + 1 = TurnMod
  BY <1>1, <1>2, <1>3 DEF Apart
<1>4. CASE u + 1 # TurnMod
  BY <1>1, <1>2, <1>4 DEF Apart
<1> QED
  BY <1>3, <1>4

\* When the report goes out it is the stream's last message: the ring was reset.
LEMMA LinkAtReport ==
    ASSUME TypeOK, EndTx
    PROVE  /\ Len(Link') = Len(inbox) + Len(wire) + 1
           /\ Link'[Len(inbox) + Len(wire) + 1] = TxDone(onAir.turn)
           /\ \A i \in 1 .. Len(inbox) + Len(wire) : Link'[i] = Link[i]
<1> DEFINE q == inbox \o wire
           m == TxDone(onAir.turn)
<1>1. /\ ring \in Seq(Messages) /\ wire \in Seq(Messages) /\ inbox \in Seq(Messages)
      /\ q \in Seq(Messages) /\ Len(q) = Len(inbox) + Len(wire)
  BY LinkIsStream
<1>2. m \in Messages
  BY DEF TypeOK, Commands, Messages
<1>3. wire' = Append(wire, m) /\ ring' = <<>> /\ inbox' = inbox
  BY DEF EndTx, RingOnEnterRx
<1>4. inbox \o Append(wire, m) = Append(q, m)
  BY <1>1, <1>2, HandedOn
<1>5. \A i \in 1 .. Len(q) : (q \o ring)[i] = q[i]
  <2> HIDE DEF q
  <2>1. q \in Seq(Messages) /\ ring \in Seq(Messages)
    BY <1>1
  <2> QED
    BY <2>1, Joined
<1> HIDE DEF q, m
<1>6. Append(q, m) \in Seq(Messages) /\ Append(q, m) \o <<>> = Append(q, m)
  BY <1>1, <1>2, ConcatEmptySeq
<1>7. Link' = Append(q, m)
  <2>1. Link' = (inbox' \o wire') \o ring'
    BY DEF Link
  <2>2. inbox' \o wire' = Append(q, m)
    BY <1>3, <1>4
  <2> QED
    BY <1>3, <1>6, <2>1, <2>2
<1>8. /\ Len(Append(q, m)) = Len(q) + 1 /\ Append(q, m)[Len(q) + 1] = m
      /\ \A i \in 1 .. Len(q) : Append(q, m)[i] = q[i]
  BY <1>1, <1>2
<1>9. \A i \in 1 .. Len(q) : Link[i] = q[i]
  BY <1>5 DEF Link, q
<1> QED
  BY <1>1, <1>7, <1>8, <1>9 DEF m

\* What the flasher leaves of the stream when it drains its buffer was there before.
LEMMA LinkAtDrain ==
    ASSUME TypeOK, Tool = "flasher", HostDrain
    PROVE  \A i \in 1 .. Len(Link') : \E j \in 1 .. Len(Link) : Link'[i] = Link[j]
<1>1. /\ ring \in Seq(Messages) /\ wire \in Seq(Messages) /\ inbox \in Seq(Messages)
      /\ Len(Link) = Len(inbox) + Len(wire) + Len(ring)
  BY LinkIsStream
<1>2. <<>> \o wire = wire
  BY <1>1, ConcatEmptySeq
<1>3. Link' = wire \o ring
  BY <1>2 DEF HostDrain, Drained, modemVars, Link
<1>4. /\ Len(wire \o ring) = Len(wire) + Len(ring)
      /\ \A i \in 1 .. Len(wire \o ring) :
           /\ i <= Len(wire) => (wire \o ring)[i] = wire[i]
           /\ i > Len(wire) => (wire \o ring)[i] = ring[i - Len(wire)]
  BY <1>1, Joined
<1>5. Len(inbox) \in Nat /\ Len(wire) \in Nat /\ Len(ring) \in Nat
  BY <1>1
<1>6. ASSUME NEW i \in 1 .. Len(wire \o ring)
      PROVE  /\ i + Len(inbox) \in 1 .. Len(Link)
             /\ (wire \o ring)[i] = Link[i + Len(inbox)]
  <2>1. i + Len(inbox) \in 1 .. Len(Link) /\ i \in Nat \ {0}
    BY <1>1, <1>4, <1>5
  <2>2. Link[i + Len(inbox)] =
          IF i + Len(inbox) <= Len(inbox) THEN inbox[i + Len(inbox)]
          ELSE IF i + Len(inbox) <= Len(inbox) + Len(wire) THEN wire[(i + Len(inbox)) - Len(inbox)]
          ELSE ring[(i + Len(inbox)) - Len(inbox) - Len(wire)]
    BY <2>1, LinkIsStream
  <2>3. (i + Len(inbox)) - Len(inbox) = i
    BY <1>5, <2>1
  <2>4. Link[i + Len(inbox)] = IF i <= Len(wire) THEN wire[i] ELSE ring[i - Len(wire)]
    BY <1>5, <2>1, <2>2, <2>3
  <2>5. CASE i <= Len(wire)
    BY <1>4, <2>1, <2>4, <2>5
  <2>6. CASE i > Len(wire)
    BY <1>4, <1>5, <2>1, <2>4, <2>6
  <2> QED
    BY <1>5, <2>1, <2>5, <2>6
<1> QED
  BY <1>3, <1>6

\* The first message read, the rest of the stream is what was heard, and where.
LEMMA HeadRead ==
    ASSUME TypeOK, inbox # <<>>, inbox' = Tail(inbox), UNCHANGED <<wire, ring>>
    PROVE  /\ 1 \in 1 .. Len(Link) /\ Head(inbox) = Link[1]
           /\ Len(Link') = Len(Link) - 1
           /\ \A i \in 1 .. Len(Link') : i + 1 \in 1 .. Len(Link) /\ Link'[i] = Link[i + 1]
<1>1. Link # <<>> /\ Link' = Tail(Link) /\ Head(inbox) = Link[1] /\ Link \in Seq(Messages)
  BY LinkMoves, LinkIsStream
<1> QED
  BY <1>1

\* The host's steps. It is in nobody's way to read: only while nothing is outstanding does
\* it time out or send, and only the report of its own frame opens its gate.
LEMMA InTurnHost ==
    ASSUME Tool = "flasher", TypeOK, InTurn,
           HostDrain \/ HostSend \/ HostReadTxDone \/ HostReadRx \/ HostTimeout
    PROVE  InTurn'
<1>1. /\ turn \in Turns /\ onAir.turn \in Turns /\ lost \in 0 .. MaxLost /\ timer \in Nat
      /\ Len(inbox) \in Nat /\ Len(wire) \in Nat /\ due \in Nat /\ txDone \in BOOLEAN
  BY Numbers DEF TypeOK, Commands, Deadline
<1>2. /\ UNCHANGED <<dir, onAir, air, ring, wire, due, lost>>
  BY DEF HostDrain, HostSend, HostReadTxDone, HostReadRx, HostTimeout, modemVars, usbVars
<1>3. CASE HostDrain
  <2>1. pc = "drain" /\ pc' = "send" /\ UNCHANGED <<cmds, turn>>
    BY <1>3 DEF HostDrain
  <2>2. Resting
    BY <2>1 DEF InTurn, Commanded, Sending, Reported, ReportedAt, Asking
  <2>3. HeardIn(onAir.turn)'
    BY <1>2, <1>3, <2>2, LinkAtDrain DEF Resting, HeardIn
  <2> QED
    BY <1>2, <2>1, <2>2, <2>3 DEF InTurn, Resting
<1>4. CASE HostSend
  <2>1. /\ pc = "send" /\ pc' = "wait" /\ txDone' = FALSE /\ timer' = Ceiling
        /\ turn' = (turn + 1) % TurnMod /\ inbox' = inbox
        /\ cmds' = Append(cmds, [frame |-> cur, id |-> id, turn |-> turn'])
    BY <1>4 DEF HostSend
  <2>2. Resting
    BY <2>1 DEF InTurn, Commanded, Sending, Reported, ReportedAt, Asking
  <2>3. HeardIn(onAir.turn)'
    BY <1>2, <2>1, <2>2 DEF Resting, HeardIn, Link
  <2>4. Len(cmds') = 1 /\ cmds'[1].turn = turn'
    BY <2>1, <2>2 DEF Resting
  <2>5. Apart(onAir.turn, turn) <= lost /\ MaxLost + 1 < TurnMod
    BY <2>2, LinkAssumption DEF Resting
  <2>6. onAir.turn # turn' /\ Apart(onAir.turn, turn') <= lost + 1
    <3>1. Apart(onAir.turn, turn) \in Int
      BY <1>1, Numbers DEF Apart, Turns
    <3>2. Apart(onAir.turn, turn) + 1 < TurnMod
      BY <1>1, <2>5, <3>1, Numbers
    <3> QED
      BY <1>1, <2>1, <2>5, <3>1, <3>2, NextTurn
  <2>7. Apart(onAir.turn, turn)' <= lost' + 1 /\ onAir'.turn # turn'
    BY <1>2, <2>6 DEF Apart
  <2> QED
    BY <1>2, <2>1, <2>2, <2>3, <2>4, <2>7 DEF InTurn, Commanded, Asking, Resting
<1>5. CASE HostReadTxDone
  <2>1. /\ pc = "wait" /\ pc' = "wait" /\ txDone' = TRUE /\ UNCHANGED <<cmds, turn>>
        /\ inbox # <<>> /\ inbox' = Tail(inbox) /\ Head(inbox).type = "tx_done"
    BY <1>5 DEF HostReadTxDone
  <2>2. /\ 1 \in 1 .. Len(Link) /\ Link[1].type = "tx_done"
        /\ \A i \in 1 .. Len(Link') : i + 1 \in 1 .. Len(Link) /\ Link'[i] = Link[i + 1]
    BY <1>2, <2>1, HeadRead
  <2>3. PICK n \in Nat : ReportedAt(n)
    BY <2>2 DEF InTurn, Resting, Commanded, Sending, Reported, HeardIn
  <2>4. n = 1
    BY <2>2, <2>3 DEF ReportedAt
  <2>5. HeardIn(turn)'
    BY <2>1, <2>2, <2>3, <2>4 DEF ReportedAt, HeardIn
  <2>6. cmds = <<>> /\ dir # "tx" /\ onAir.turn = turn
    BY <2>3 DEF ReportedAt
  <2>7. Apart(onAir.turn, turn)' <= lost'
    BY <1>1, <1>2, <2>1, <2>6, Numbers DEF Apart, Turns
  <2> QED
    BY <1>2, <2>1, <2>5, <2>6, <2>7 DEF InTurn, Resting
<1>6. CASE HostReadRx
  <2>1. /\ pc = "wait" /\ UNCHANGED <<cmds, turn, txDone, timer>>
        /\ inbox # <<>> /\ inbox' = Tail(inbox) /\ Head(inbox).type = "rx"
        /\ txDone \/ pc' = pc
    BY <1>6 DEF HostReadRx, Counts
  <2>2. /\ 1 \in 1 .. Len(Link) /\ Link[1].type = "rx" /\ Len(Link') = Len(Link) - 1
        /\ \A i \in 1 .. Len(Link') : i + 1 \in 1 .. Len(Link) /\ Link'[i] = Link[i + 1]
    BY <1>2, <2>1, HeadRead
  <2>3. HeardIn(onAir.turn) => HeardIn(onAir.turn)'
    BY <1>2, <2>2 DEF HeardIn
  <2>4. CASE Resting
    BY <1>2, <2>1, <2>3, <2>4 DEF InTurn, Resting, Apart
  <2>5. CASE Commanded
    BY <1>2, <2>1, <2>3, <2>5 DEF InTurn, Commanded, Asking, Apart
  <2>6. CASE Sending
    BY <1>2, <2>1, <2>2, <2>6 DEF InTurn, Sending, Asking
  <2>7. CASE Reported
    <3>1. PICK n \in Nat : ReportedAt(n)
      BY <2>7 DEF Reported
    <3>2. n \in 1 .. Len(inbox) + Len(wire) /\ n # 1
      BY <2>2, <3>1 DEF ReportedAt
    <3>3. Len(inbox') = Len(inbox) - 1 /\ n - 1 \in 1 .. Len(inbox') + Len(wire)
      BY <1>1, <2>1, <3>2 DEF TypeOK
    <3>4. Len(Link) = Len(inbox) + Len(wire) + Len(ring) /\ Len(ring) \in Nat
      BY LinkIsStream
    <3>5. n - 1 \in 1 .. Len(Link') /\ n - 1 \in Nat /\ (n - 1) + 1 = n
      BY <1>1, <2>2, <3>2, <3>4
    <3>6. Link'[n - 1].type = "tx_done"
      BY <2>2, <3>1, <3>5 DEF ReportedAt
    <3>7. ASSUME NEW i \in 1 .. Len(Link'), i # n - 1
          PROVE  Link'[i].type = "rx" /\ (Link'[i].turn = turn' <=> i > n - 1)
      <4>1. i + 1 # n /\ i + 1 \in 1 .. Len(Link) /\ (i + 1 > n <=> i > n - 1)
        BY <2>2, <3>7
      <4> QED
        BY <2>1, <2>2, <3>1, <4>1 DEF ReportedAt
    <3>8. timer' >= IF n - 1 <= Len(inbox') + due THEN 1 ELSE 2
      BY <1>1, <2>1, <3>1, <3>3 DEF ReportedAt
    <3>9. ReportedAt(n - 1)'
      BY <1>2, <2>1, <3>1, <3>3, <3>6, <3>7, <3>8 DEF ReportedAt, Asking
    <3> QED
      BY <3>5, <3>9 DEF InTurn, Reported
  <2> QED
    BY <2>4, <2>5, <2>6, <2>7 DEF InTurn
<1>7. CASE HostTimeout
  <2>1. /\ timer = 0 /\ pc' # "wait" /\ UNCHANGED <<cmds, turn, inbox>>
    BY <1>7 DEF HostTimeout, usbVars
  <2>2. Ceiling >= 2
    <3>1. PICK t \in AirTimes : t \in Nat
      BY LinkAssumption
    <3> QED
      BY <3>1, CeilingAssumption, Numbers
  <2>3. Resting
    BY <1>1, <2>1, <2>2 DEF InTurn, Commanded, Sending, Reported, ReportedAt, TypeOK
  <2> QED
    BY <1>2, <2>1, <2>3 DEF InTurn, Resting, HeardIn, Link, Apart
<1> QED
  BY <1>3, <1>4, <1>5, <1>6, <1>7

\* The other steps: a command is taken at once, so its frame ends two ticks before the
\* deadline, and the report, which spends one of them on the USB, is read before it.
LEMMA InTurnRest ==
    ASSUME TypeOK, InTurn,
           \/ ModemTake \/ ModemForward \/ EndTx
           \/ EchoHeard \/ EchoLost \/ UsbLose \/ UsbDeliver \/ Tick
    PROVE  InTurn'
<1> USE DEF hostVars, modemVars, usbVars, watchVars
<1>1. /\ turn \in Turns /\ onAir.turn \in Turns /\ lost \in 0 .. MaxLost /\ timer \in Nat
      /\ Len(inbox) \in Nat /\ Len(wire) \in Nat /\ due \in 0 .. Len(wire) /\ air \in Nat
      /\ Ceiling \in Nat /\ Len(ring) \in Nat /\ txDone \in BOOLEAN
  BY Numbers, LinkIsStream DEF TypeOK, Commands, Deadline
<1>2. ASSUME Link' = Link, UNCHANGED <<pc, txDone, timer, turn, cmds, dir, onAir, lost, air>>,
             Len(inbox') + Len(wire') >= Len(inbox) + Len(wire),
             Len(inbox') \in Nat, Len(wire') \in Nat, due' \in Nat,
             Len(inbox') + due' >= Len(inbox) + due
      PROVE  InTurn'
  <2>1. HeardIn(onAir.turn) => HeardIn(onAir.turn)'
    BY <1>2 DEF HeardIn
  <2>2. Resting => Resting'
    BY <1>2, <2>1 DEF Resting, Apart
  <2>3. Commanded => Commanded'
    BY <1>2, <2>1 DEF Commanded, Apart, Asking
  <2>4. Sending => Sending'
    BY <1>2 DEF Sending, Asking
  <2>5. ASSUME NEW n \in Nat, ReportedAt(n) PROVE ReportedAt(n)'
    <3>1. n \in 1 .. Len(inbox') + Len(wire')
      BY <1>1, <1>2, <2>5 DEF ReportedAt
    <3>2. timer' >= IF n <= Len(inbox') + due' THEN 1 ELSE 2
      BY <1>1, <1>2, <2>5 DEF ReportedAt
    <3> QED
      BY <1>2, <2>5, <3>1, <3>2 DEF ReportedAt, Asking
  <2> QED
    BY <2>2, <2>3, <2>4, <2>5 DEF InTurn, Reported
<1>3. CASE ModemTake
  <2>1. /\ dir # "tx" /\ cmds # <<>> /\ onAir' = Head(cmds) /\ cmds' = Tail(cmds)
        /\ dir' = "tx" /\ air' \in AirTimes /\ UNCHANGED <<pc, txDone, timer, turn>>
        /\ Link' = Link
    BY <1>3 DEF ModemTake, Link
  <2>2. Commanded
    BY <2>1 DEF InTurn, Resting, Sending, Reported, ReportedAt
  <2>3. onAir'.turn = turn' /\ cmds' = <<>>
    BY <2>1, <2>2 DEF Commanded, TypeOK
  <2>4. timer' >= air' + 2
    BY <2>1, <2>2, CeilingAssumption, LinkAssumption, <1>1 DEF Commanded
  <2> QED
    BY <2>1, <2>2, <2>3, <2>4 DEF InTurn, Sending, Commanded, HeardIn, Asking
<1>4. CASE ModemForward
  <2>1. Link' = Link
    BY <1>4, LinkMoves
  <2>2. Head(ring) \in Messages /\ wire' = Append(wire, Head(ring))
    BY <1>4, LinkIsStream DEF ModemForward
  <2>3. Len(wire') = Len(wire) + 1
    BY <2>2 DEF TypeOK
  <2> QED
    BY <1>1, <1>2, <1>4, <2>1, <2>3 DEF ModemForward
<1>5. CASE EndTx
  <2>1. /\ dir = "tx" /\ air = 0 /\ dir' = "rx"
        /\ UNCHANGED <<onAir, cmds, due, inbox, pc, txDone, timer, turn>>
    BY <1>5 DEF EndTx
  <2>2. Sending
    BY <2>1 DEF InTurn, Resting, Commanded, Reported, ReportedAt
  <2> DEFINE n == Len(inbox) + Len(wire) + 1
  <2>3. /\ Len(Link') = n /\ Link'[n].type = "tx_done"
        /\ \A i \in 1 .. n - 1 : i \in 1 .. Len(Link) /\ Link'[i] = Link[i]
    <3>1. /\ Len(Link') = n /\ Link'[n] = TxDone(onAir.turn)
          /\ \A i \in 1 .. n - 1 : Link'[i] = Link[i]
      BY <1>1, <1>5, LinkAtReport
    <3>2. Len(Link) = Len(inbox) + Len(wire) + Len(ring)
      BY LinkIsStream
    <3> QED
      BY <1>1, <3>1, <3>2 DEF TxDone
  <2>4. Len(wire') = Len(wire) + 1
    <3>1. TxDone(onAir.turn) \in Messages
      BY <1>1 DEF Messages
    <3> QED
      BY <1>5, <3>1 DEF EndTx, TypeOK
  <2>5. n \in Nat /\ n \in 1 .. Len(inbox') + Len(wire')
    BY <1>1, <2>1, <2>4
  <2>6. timer' >= 2
    BY <1>1, <2>1, <2>2 DEF Sending
  <2> HIDE DEF n
  <2>7. ASSUME NEW i \in 1 .. Len(Link'), i # n
        PROVE  Link'[i].type = "rx" /\ (Link'[i].turn = turn' <=> i > n)
    <3>1. i \in 1 .. n - 1 /\ ~(i > n)
      BY <2>3, <2>5, <2>7
    <3> QED
      BY <2>1, <2>2, <2>3, <3>1 DEF Sending
  <2>8. \E k \in Nat : ReportedAt(k)'
    <3>1. Asking' /\ cmds' = <<>> /\ dir' # "tx" /\ onAir'.turn = turn'
      BY <2>1, <2>2 DEF Sending, Asking
    <3>2. timer' >= IF n <= Len(inbox') + due' THEN 1 ELSE 2
      BY <1>1, <2>1, <2>6
    <3> QED
      BY <2>3, <2>5, <2>7, <3>1, <3>2 DEF ReportedAt
  <2> QED
    BY <2>8 DEF InTurn, Reported
<1>6. CASE EchoHeard
  <2>1. /\ dir = "rx" /\ Link' = Append(Link, Ack(reply, onAir.turn))
        /\ UNCHANGED <<pc, txDone, timer, turn, cmds, dir, onAir, lost, air, inbox, wire, due>>
    BY <1>6, LinkMoves DEF EchoHeard
  <2>2. Ack(reply, onAir.turn) \in Messages /\ Link \in Seq(Messages)
    <3>1. reply \in Frames
      BY <1>6 DEF EchoHeard, EchoOver, TypeOK
    <3> QED
      BY <1>1, <3>1, LinkIsStream DEF Messages
  <2>3. /\ Len(Link) \in Nat /\ Len(Link') = Len(Link) + 1
        /\ Link'[Len(Link) + 1].type = "rx" /\ Link'[Len(Link) + 1].turn = onAir.turn
        /\ \A i \in 1 .. Len(Link) : Link'[i] = Link[i]
    <3>1. /\ Len(Link') = Len(Link) + 1 /\ Link'[Len(Link) + 1] = Ack(reply, onAir.turn)
          /\ \A i \in 1 .. Len(Link) : Link'[i] = Link[i]
      BY <2>1, <2>2
    <3> QED
      BY <2>2, <3>1 DEF Ack
  <2>4. HeardIn(onAir.turn) => HeardIn(onAir.turn)'
    <3> SUFFICES ASSUME HeardIn(onAir.turn), NEW i \in 1 .. Len(Link')
                 PROVE  Link'[i].type = "rx" /\ Link'[i].turn = onAir.turn
      BY <2>1 DEF HeardIn
    <3>1. i \in 1 .. Len(Link) \/ i = Len(Link) + 1
      BY <2>3
    <3> QED
      BY <2>3, <3>1 DEF HeardIn
  <2>5. Resting => Resting'
    BY <2>1, <2>4 DEF Resting, Apart
  <2>6. Commanded => Commanded'
    BY <2>1, <2>4 DEF Commanded, Apart, Asking
  <2>7. ASSUME NEW n \in Nat, ReportedAt(n) PROVE ReportedAt(n)'
    <3>1. n \in 1 .. Len(Link)
      <4>1. Len(Link) = Len(inbox) + Len(wire) + Len(ring)
        BY LinkIsStream
      <4> QED
        BY <1>1, <2>7, <4>1 DEF ReportedAt
    <3>2. Link'[n].type = "tx_done"
      BY <2>3, <2>7, <3>1 DEF ReportedAt
    <3>3. ASSUME NEW i \in 1 .. Len(Link'), i # n
          PROVE  Link'[i].type = "rx" /\ (Link'[i].turn = turn' <=> i > n)
      <4>1. CASE i \in 1 .. Len(Link)
        BY <2>1, <2>3, <2>7, <3>3, <4>1 DEF ReportedAt
      <4>2. CASE i = Len(Link) + 1
        <5>1. i > n
          BY <2>3, <3>1, <4>2
        <5> QED
          BY <2>1, <2>3, <2>7, <4>2, <5>1 DEF ReportedAt
      <4> QED
        BY <2>3, <4>1, <4>2
    <3> QED
      BY <2>1, <2>7, <3>2, <3>3 DEF ReportedAt, Asking
  <2> QED
    BY <2>1, <2>5, <2>6, <2>7 DEF InTurn, Reported, Sending
<1>7. CASE EchoLost
  BY <1>1, <1>2, <1>7 DEF EchoLost, EchoOver, Link
<1>8. CASE UsbLose
  <2>1. /\ cmds # <<>> /\ cmds' = Tail(cmds) /\ lost' = lost + 1 /\ Link' = Link
        /\ UNCHANGED <<pc, txDone, timer, turn, dir, onAir, air, inbox, wire, due>>
    BY <1>8 DEF UsbLose, Link
  <2>2. Commanded
    BY <2>1 DEF InTurn, Resting, Sending, Reported, ReportedAt
  <2>3. cmds' = <<>>
    BY <2>1, <2>2 DEF Commanded, TypeOK
  <2>4. HeardIn(onAir.turn)' /\ Apart(onAir.turn, turn)' <= lost'
    BY <2>1, <2>2 DEF Commanded, HeardIn, Apart
  <2> QED
    BY <2>1, <2>2, <2>3, <2>4 DEF InTurn, Resting, Commanded, Asking
<1>9. CASE UsbDeliver
  <2>1. Link' = Link
    BY <1>9, LinkMoves
  <2>2. wire # <<>> /\ wire' = Tail(wire) /\ inbox' = Append(inbox, Head(wire))
    BY <1>9 DEF UsbDeliver
  <2>3. Len(wire') = Len(wire) - 1 /\ Len(inbox') = Len(inbox) + 1
    BY <2>2 DEF TypeOK
  <2>4. due' = IF due = 0 THEN 0 ELSE due - 1
    BY <1>9 DEF UsbDeliver
  <2> QED
    BY <1>1, <1>2, <1>9, <2>1, <2>3, <2>4 DEF UsbDeliver
<1>10. CASE Tick
  <2>1. /\ ~HostBusy /\ ~ModemBusy /\ due = 0 /\ due' = Len(wire)
        /\ timer' = IF pc = "wait" THEN timer - 1 ELSE timer
        /\ air' = Down(air) /\ Link' = Link
        /\ UNCHANGED <<pc, txDone, turn, dir, onAir, cmds, wire, inbox, lost>>
    BY <1>10 DEF Tick, Link
  <2>2. HeardIn(onAir.turn) => HeardIn(onAir.turn)'
    BY <2>1 DEF HeardIn
  <2>3. Resting => Resting'
    BY <2>1, <2>2 DEF Resting, Apart
  <2>4. ~Commanded
    BY <2>1 DEF Commanded, ModemBusy
  <2>5. Sending => Sending'
    <3> SUFFICES ASSUME Sending PROVE Sending'
      OBVIOUS
    <3>1. air # 0 /\ pc = "wait"
      BY <2>1 DEF Sending, ModemBusy, Asking
    <3>2. timer' >= air' + 2
      BY <1>1, <2>1, <3>1 DEF Sending, Down
    <3> QED
      BY <2>1, <3>2 DEF Sending, Asking
  <2>6. ASSUME NEW n \in Nat, ReportedAt(n) PROVE ReportedAt(n)'
    <3>1. pc = "wait" /\ inbox = <<>>
      BY <2>1, <2>6 DEF ReportedAt, Asking, HostBusy
    <3>2. Len(inbox) = 0 /\ n > 0 /\ n <= Len(wire)
      BY <1>1, <2>6, <3>1 DEF ReportedAt
    <3>3. timer >= 2
      BY <1>1, <2>1, <2>6, <3>2 DEF ReportedAt
    <3>4. timer' >= 1 /\ n <= Len(inbox') + due'
      BY <1>1, <2>1, <3>1, <3>2, <3>3
    <3> QED
      BY <2>1, <2>6, <3>4 DEF ReportedAt, Asking
  <2> QED
    BY <2>3, <2>4, <2>5, <2>6 DEF InTurn, Reported
<1> QED
  BY <1>3, <1>4, <1>5, <1>6, <1>7, <1>8, <1>9, <1>10

\* Initially nothing has been sent.
LEMMA InTurnInit == Init => InTurn
<1> SUFFICES ASSUME Init PROVE Resting
  BY DEF InTurn
<1>1. Link = <<>>
  <2>1. inbox \o wire = <<>> /\ ring = <<>>
    BY DEF Init
  <2> QED
    BY <2>1 DEF Link
<1>2. HeardIn(onAir.turn)
  BY <1>1 DEF HeardIn
<1>3. onAir.turn = 0 /\ turn = 0 /\ lost = 0
  BY DEF Init
<1> QED
  BY <1>2, <1>3 DEF Init, Resting, Apart

\* Every step of a link with the flasher keeps the turns apart.
LEMMA InTurnStep ==
    ASSUME Tool = "flasher", TypeOK, InTurn, [Next]_vars
    PROVE  InTurn'
<1>1. CASE UNCHANGED vars
  <2>1. /\ Link' = Link /\ UNCHANGED <<pc, txDone, timer, turn, cmds, dir, onAir, lost, air,
                                       inbox, wire, due>>
    BY <1>1 DEF vars, hostVars, modemVars, usbVars, watchVars, Link
  <2> QED
    BY <2>1 DEF InTurn, Resting, Commanded, Sending, Reported, ReportedAt, HeardIn, Asking,
                Apart
<1>2. CASE TxEndLost \/ \E d \in ReplyTimes : TxEndHeard(d)
  BY <1>2, InTurnRest DEF TxEndLost, TxEndHeard
<1> QED
  BY <1>1, <1>2, InTurnHost, InTurnRest DEF Next

\* How many reports a sequence of messages holds.
LEMMA ReportsCounted ==
    ASSUME NEW s \in Seq(Messages)
    PROVE  /\ (\A i \in 1 .. Len(s) : s[i].type # "tx_done") => TxDonesIn(s) = 0
           /\ \A n \in 1 .. Len(s) :
                (\A i \in 1 .. Len(s) : s[i].type = "tx_done" <=> i = n) => TxDonesIn(s) = 1
<1>1. DOMAIN s = 1 .. Len(s)
  OBVIOUS
<1>2. ASSUME \A i \in 1 .. Len(s) : s[i].type # "tx_done" PROVE TxDonesIn(s) = 0
  <2>1. {i \in DOMAIN s : s[i].type = "tx_done"} = {}
    BY <1>1, <1>2
  <2> QED
    BY <2>1, FS_EmptySet DEF TxDonesIn
<1>3. ASSUME NEW n \in 1 .. Len(s), \A i \in 1 .. Len(s) : s[i].type = "tx_done" <=> i = n
      PROVE  TxDonesIn(s) = 1
  <2>1. {i \in DOMAIN s : s[i].type = "tx_done"} = {n}
    BY <1>1, <1>3
  <2> QED
    BY <2>1, FS_Singleton DEF TxDonesIn
<1> QED
  BY <1>2, <1>3

\* The invariant says what is outstanding.
LEMMA InTurnCounts ==
    ASSUME TypeOK, InTurn
    PROVE  NeverAhead
<1>1. /\ inbox \in Seq(Messages) /\ wire \in Seq(Messages)
      /\ Len(inbox) \in Nat /\ Len(wire) \in Nat /\ Len(ring) \in Nat
      /\ Len(Link) = Len(inbox) + Len(wire) + Len(ring)
  BY LinkIsStream
<1>2. /\ \A i \in 1 .. Len(inbox) : i \in 1 .. Len(Link) /\ inbox[i] = Link[i]
      /\ \A i \in 1 .. Len(wire) :
           i + Len(inbox) \in 1 .. Len(Link) /\ wire[i] = Link[i + Len(inbox)]
  <2>1. ASSUME NEW i \in 1 .. Len(wire)
        PROVE  i + Len(inbox) \in 1 .. Len(Link) /\ wire[i] = Link[i + Len(inbox)]
    <3>1. /\ i + Len(inbox) \in 1 .. Len(Link) /\ (i + Len(inbox)) - Len(inbox) = i
          /\ ~(i + Len(inbox) <= Len(inbox)) /\ i + Len(inbox) <= Len(inbox) + Len(wire)
      BY <1>1
    <3> QED
      BY <3>1, LinkIsStream
  <2>2. ASSUME NEW i \in 1 .. Len(inbox) PROVE i \in 1 .. Len(Link) /\ inbox[i] = Link[i]
    <3>1. i \in 1 .. Len(Link) /\ i <= Len(inbox)
      BY <1>1
    <3> QED
      BY <3>1, LinkIsStream
  <2> QED
    BY <2>1, <2>2
<1>3. ASSUME \A i \in 1 .. Len(Link) : Link[i].type = "rx"
      PROVE  TxDonesIn(inbox) = 0 /\ TxDonesIn(wire) = 0
  <2>1. /\ \A i \in 1 .. Len(inbox) : inbox[i].type # "tx_done"
        /\ \A i \in 1 .. Len(wire) : wire[i].type # "tx_done"
    BY <1>2, <1>3
  <2> QED
    BY <1>1, <2>1, ReportsCounted
<1>4. CASE Resting
  <2>1. cmds = <<>> /\ dir # "tx" /\ TxDonesIn(inbox) = 0 /\ TxDonesIn(wire) = 0
    BY <1>3, <1>4 DEF Resting, HeardIn
  <2> QED
    BY <2>1 DEF NeverAhead, Outstanding
<1>5. CASE Commanded
  <2>1. Len(cmds) = 1 /\ dir # "tx" /\ TxDonesIn(inbox) = 0 /\ TxDonesIn(wire) = 0
    BY <1>3, <1>5 DEF Commanded, HeardIn
  <2> QED
    BY <1>5, <2>1 DEF NeverAhead, Outstanding, Commanded, Asking
<1>6. CASE Sending
  <2>1. cmds = <<>> /\ dir = "tx" /\ TxDonesIn(inbox) = 0 /\ TxDonesIn(wire) = 0
    BY <1>3, <1>6 DEF Sending
  <2> QED
    BY <1>6, <2>1 DEF NeverAhead, Outstanding, Sending, Asking
<1>7. CASE Reported
  <2>1. PICK n \in Nat : ReportedAt(n)
    BY <1>7 DEF Reported
  <2>2. /\ n \in 1 .. Len(inbox) + Len(wire) /\ cmds = <<>> /\ dir # "tx"
        /\ \A i \in 1 .. Len(Link) : Link[i].type = "tx_done" <=> i = n
    BY <2>1 DEF ReportedAt
  <2>3. TxDonesIn(inbox) + TxDonesIn(wire) = 1
    <3>1. CASE n <= Len(inbox)
      <4>1. /\ n \in 1 .. Len(inbox)
            /\ \A i \in 1 .. Len(inbox) : inbox[i].type = "tx_done" <=> i = n
        BY <1>1, <1>2, <2>2, <3>1
      <4>2. \A i \in 1 .. Len(wire) : wire[i].type # "tx_done"
        <5> SUFFICES ASSUME NEW i \in 1 .. Len(wire) PROVE wire[i].type # "tx_done"
          OBVIOUS
        <5>1. i + Len(inbox) # n
          BY <1>1, <3>1
        <5> QED
          BY <1>2, <2>2, <5>1
      <4>3. TxDonesIn(inbox) = 1 /\ TxDonesIn(wire) = 0
        BY <1>1, <4>1, <4>2, ReportsCounted
      <4> QED
        BY <4>3
    <3>2. CASE ~(n <= Len(inbox))
      <4>1. n - Len(inbox) \in 1 .. Len(wire)
        BY <1>1, <2>2, <3>2
      <4>2. \A i \in 1 .. Len(wire) : wire[i].type = "tx_done" <=> i = n - Len(inbox)
        <5> SUFFICES ASSUME NEW i \in 1 .. Len(wire)
                     PROVE  wire[i].type = "tx_done" <=> i = n - Len(inbox)
          OBVIOUS
        <5>1. i + Len(inbox) = n <=> i = n - Len(inbox)
          BY <1>1, <2>2
        <5> QED
          BY <1>2, <2>2, <5>1
      <4>3. \A i \in 1 .. Len(inbox) : inbox[i].type # "tx_done"
        <5> SUFFICES ASSUME NEW i \in 1 .. Len(inbox) PROVE inbox[i].type # "tx_done"
          OBVIOUS
        <5>1. i # n
          BY <1>1, <3>2
        <5> QED
          BY <1>2, <2>2, <5>1
      <4>4. TxDonesIn(inbox) = 0 /\ TxDonesIn(wire) = 1
        BY <1>1, <4>1, <4>2, <4>3, ReportsCounted
      <4> QED
        BY <4>4
    <3> QED
      BY <3>1, <3>2
  <2>4. Asking
    BY <2>1 DEF ReportedAt
  <2>5. Outstanding = 1
    <3>1. Outstanding = TxDonesIn(inbox) + TxDonesIn(wire)
      <4>1. TxDonesIn(inbox) \in Nat /\ TxDonesIn(wire) \in Nat
        <5>1. ASSUME NEW s \in Seq(Messages) PROVE TxDonesIn(s) \in Nat
          <6>1. IsFiniteSet(DOMAIN s)
            BY FS_Interval
          <6>2. IsFiniteSet({i \in DOMAIN s : s[i].type = "tx_done"})
            BY <6>1, FS_Subset
          <6> QED
            BY <6>2, FS_CardinalityType DEF TxDonesIn
        <5> QED
          BY <1>1, <5>1
      <4> QED
        BY <2>2, <4>1 DEF Outstanding
    <3> QED
      BY <2>3, <3>1
  <2> QED
    BY <2>4, <2>5 DEF NeverAhead, Asking
<1> QED
  BY <1>4, <1>5, <1>6, <1>7 DEF InTurn

\* The gate stands open for exactly the messages of this attempt's receive session.
LEMMA InTurnGate ==
    ASSUME Tool = "flasher", TypeOK, InTurn, HostReadRx
    PROVE  Counts <=> Head(inbox).turn = turn
<1>1. /\ pc = "wait" /\ inbox # <<>> /\ inbox' = Tail(inbox) /\ Head(inbox).type = "rx"
      /\ UNCHANGED <<wire, ring>>
  BY DEF HostReadRx, modemVars
<1>2. 1 \in 1 .. Len(Link) /\ Head(inbox) = Link[1]
  BY <1>1, HeadRead
<1>3. Counts <=> txDone
  BY DEF Counts
<1>4. CASE Resting
  BY <1>1, <1>2, <1>3, <1>4 DEF Resting, HeardIn
<1>5. CASE Commanded
  BY <1>2, <1>3, <1>5 DEF Commanded, HeardIn, Asking
<1>6. CASE Sending
  BY <1>2, <1>3, <1>6 DEF Sending, Asking
<1>7. CASE Reported
  <2>1. PICK n \in Nat : ReportedAt(n)
    BY <1>7 DEF Reported
  <2>2. n # 1 /\ n >= 1
    BY <1>1, <1>2, <2>1, LinkIsStream DEF ReportedAt
  <2> QED
    BY <1>2, <1>3, <2>1, <2>2 DEF ReportedAt, Asking
<1> QED
  BY <1>4, <1>5, <1>6, <1>7 DEF InTurn

\* The flasher is never a command ahead of the modem: it sends the next frame only when
\* the modem has taken, reported and been heard on the last, or the command was lost.
THEOREM FlasherIsNeverAhead == Tool = "flasher" => (Spec => []NeverAhead)
<1> SUFFICES ASSUME Tool = "flasher" PROVE Spec => []NeverAhead
  OBVIOUS
<1>1. Init => TypeOK /\ Control /\ InTurn
  BY TypeInit, InTurnInit
<1>2. TypeOK /\ Control /\ InTurn /\ [Next]_vars => (TypeOK /\ Control /\ InTurn)'
  BY TypeStep, InTurnStep
<1>3. TypeOK /\ Control /\ InTurn => NeverAhead
  BY InTurnCounts
<1> QED
  BY <1>1, <1>2, <1>3, PTL DEF Spec

\* No byte of an earlier attempt counts for this one, and none of this one's is thrown
\* away for coming before its report.
THEOREM GateKeepsTurnsApart == Tool = "flasher" => (Spec => GateSeparates)
<1> SUFFICES ASSUME Tool = "flasher" PROVE Spec => GateSeparates
  OBVIOUS
<1>1. Init => TypeOK /\ Control /\ InTurn
  BY TypeInit, InTurnInit
<1>2. TypeOK /\ Control /\ InTurn /\ [Next]_vars => (TypeOK /\ Control /\ InTurn)'
  BY TypeStep, InTurnStep
<1>3. TypeOK /\ InTurn /\ [Next]_vars
      => [HostReadRx => (Counts <=> Head(inbox).turn = turn)]_vars
  BY InTurnGate
<1> QED
  BY <1>1, <1>2, <1>3, PTL DEF Spec, GateSeparates
====
