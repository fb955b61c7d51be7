---- MODULE RxRing_proofs ----
(***************************************************************************)
(* The receive ring loses and reorders nothing but what it counts, for     *)
(* every ring size, batch size and byte stream, although the interrupt and *)
(* the main loop share it without a lock.                                  *)
(*                                                                         *)
(* The argument: the stream has a position, the number of its bytes that   *)
(* have left the ring; position and fill level always add up to what was   *)
(* accepted (NothingLost), and the k-th byte in the ring is the k-th of    *)
(* the stream after the position (RingInOrder). The second is what makes   *)
(* BatchInOrder inductive.                                                 *)
(***************************************************************************)
EXTENDS RxRing, TLAPS

Turning == pc \in {"reset_tail", "reset_head", "listen"}

\* How many bytes of the stream have left the ring.
Position == sent + Copied - Unadvanced

\* The ring continues the stream where the position stands.
RingInOrder ==
    dir = "rx" => \A k \in Nat : k < Used => ring[SlotOf(k)] = accepted[Position + k + 1]

\* Control: the interrupt is off exactly during a turn-around, a copied byte is
\* still in the ring until the tail moves, and a turn-around empties the ring.
Control ==
    /\ dir = "tx" <=> Turning
    /\ pc = "advance" => tail # head /\ Len(batch) >= 1
    /\ pc \in {"reset_head", "listen"} => tail = 0
    /\ pc = "listen" => head = 0

\* With TypeOK, the inductive invariant.
StreamOK == Control /\ NothingLost /\ RingInOrder /\ BatchInOrder

-----------------------------------------------------------------------------
(* The indices                                                             *)

\* The masked successor of a slot, without the modulus.
LEMMA SuccSlot ==
    ASSUME NEW i \in Slots
    PROVE  /\ Succ(i) \in Slots
           /\ Succ(i) = IF i = RingSize - 1 THEN 0 ELSE i + 1
BY RingAssumption DEF Slots, Succ

\* The indices are plain numbers below RingSize.
LEMMA SlotArith ==
    ASSUME TypeOK
    PROVE  /\ head \in Nat /\ head < RingSize
           /\ tail \in Nat /\ tail < RingSize
           /\ RingSize \in Nat
BY RingAssumption DEF TypeOK, Slots

\* The ring never holds more than RingSize - 1 bytes.
LEMMA UsedRange ==
    ASSUME TypeOK
    PROVE  /\ Used \in Nat /\ Used <= RingSize - 1
           /\ Used = 0 <=> head = tail
           /\ SlotOf(0) = tail
BY SlotArith DEF Used, SlotOf

\* How far the ring is filled after the interrupt writes one byte ...
LEMMA UsedAfterPut ==
    ASSUME TypeOK, head' = Succ(head), tail' = tail, ~Full
    PROVE  /\ Used' = Used + 1
           /\ SlotOf(Used) = head
           /\ \A k \in Nat : k < Used => SlotOf(k) \in Slots /\ SlotOf(k) # head
           /\ \A k \in Nat : SlotOf(k)' = SlotOf(k)
<1>1. /\ head \in Nat /\ head < RingSize
      /\ tail \in Nat /\ tail < RingSize
      /\ RingSize \in Nat
  BY SlotArith
<1>2. head' = (IF head = RingSize - 1 THEN 0 ELSE head + 1) /\ head' # tail
  BY SuccSlot DEF TypeOK, Full
<1>3. Used' = (IF head' >= tail THEN head' - tail ELSE head' + RingSize - tail)
  BY DEF Used
<1>4. Used' = Used + 1
  BY <1>1, <1>2, <1>3 DEF Used
<1>5. SlotOf(Used) = head
  BY <1>1 DEF Used, SlotOf
<1>6. ASSUME NEW k \in Nat, k < Used PROVE SlotOf(k) \in Slots /\ SlotOf(k) # head
  BY <1>1, <1>6 DEF Used, SlotOf, Slots
<1>7. ASSUME NEW k \in Nat PROVE SlotOf(k)' = SlotOf(k)
  BY DEF SlotOf
<1> QED
  BY <1>4, <1>5, <1>6, <1>7

\* ... and after the main loop takes one.
LEMMA UsedAfterTake ==
    ASSUME TypeOK, tail' = Succ(tail), head' = head, head # tail
    PROVE  /\ Used' = Used - 1
           /\ \A k \in Nat : k < Used' => SlotOf(k)' = SlotOf(k + 1)
<1>1. /\ head \in Nat /\ head < RingSize
      /\ tail \in Nat /\ tail < RingSize
      /\ RingSize \in Nat
  BY SlotArith
<1>2. tail' = (IF tail = RingSize - 1 THEN 0 ELSE tail + 1)
  BY SuccSlot DEF TypeOK
<1>3. Used' = (IF head >= tail' THEN head - tail' ELSE head + RingSize - tail')
  BY DEF Used
<1>4. Used' = Used - 1
  BY <1>1, <1>2, <1>3 DEF Used
<1>5. ASSUME NEW k \in Nat, k < Used' PROVE SlotOf(k)' = SlotOf(k + 1)
  <2>1. SlotOf(k)' = (IF tail' + k < RingSize THEN tail' + k ELSE tail' + k - RingSize)
    BY DEF SlotOf
  <2>2. k < Used - 1
    BY <1>4, <1>5
  <2> QED
    BY <1>1, <1>2, <2>1, <2>2 DEF SlotOf, Used
<1> QED
  BY <1>4, <1>5

-----------------------------------------------------------------------------
(* Types                                                                   *)

\* Every step keeps the types.
LEMMA TypeStep == TypeOK /\ [Next]_vars => TypeOK'
<1> SUFFICES ASSUME TypeOK, [Next]_vars PROVE TypeOK'
  OBVIOUS
<1> USE DEF countVars
<1>0. 0 \in Slots
  BY RingAssumption DEF Slots
<1>1. ASSUME NEW b \in Byte, ByteReceived(b) PROVE TypeOK'
  <2>1. CASE Full
    BY <1>1, <2>1 DEF TypeOK, ByteReceived
  <2>2. CASE ~Full
    <3>1. ring' \in [Slots -> Byte] /\ head' \in Slots /\ accepted' \in Seq(Byte)
      BY <1>1, <2>2, SuccSlot DEF TypeOK, ByteReceived
    <3> QED
      BY <1>1, <2>2, <3>1 DEF TypeOK, ByteReceived
  <2> QED
    BY <2>1, <2>2
<1>2. CASE ForwardBegin
  BY <1>2, RingAssumption DEF TypeOK, ForwardBegin
<1>3. CASE CopyByte
  <2>1. ring[tail] \in Byte
    BY DEF TypeOK
  <2> QED
    BY <1>3, <2>1, RingAssumption DEF TypeOK, CopyByte, More
<1>4. CASE AdvanceTail
  BY <1>4, SuccSlot DEF TypeOK, AdvanceTail
<1>5. CASE SendBatch
  BY <1>5 DEF TypeOK, SendBatch
<1>6. CASE SendStatus
  BY <1>6 DEF TypeOK, SendStatus, NotedDrops
<1>12. CASE ReadDrops
  BY <1>12 DEF TypeOK, ReadDrops
<1>7. CASE EnterTx
  BY <1>7 DEF TypeOK, EnterTx
<1>8. CASE ResetTail
  BY <1>0, <1>8 DEF TypeOK, ResetTail
<1>9. CASE ResetHead
  BY <1>0, <1>9 DEF TypeOK, ResetHead, HeadOnReset
<1>10. CASE Listen
  BY <1>10 DEF TypeOK, Listen
<1>11. CASE UNCHANGED vars
  BY <1>11 DEF TypeOK, vars
<1> QED
  BY <1>1, <1>2, <1>3, <1>4, <1>5, <1>6, <1>7, <1>8, <1>9, <1>10, <1>11, <1>12 DEF Next, Main

\* Types hold initially.
LEMMA TypeInit == Init => TypeOK
BY RingAssumption DEF Init, TypeOK, Slots

\* Every reachable state of the ring has the right types: no index ever leaves
\* the array g_ring.
THEOREM TypeCorrect == Spec => []TypeOK
BY TypeInit, TypeStep, PTL DEF Spec

-----------------------------------------------------------------------------
(* Where the stream stands                                                 *)

\* Position is a number, and position and fill level add up to the stream.
LEMMA PositionFacts ==
    ASSUME TypeOK, Control, NothingLost, dir = "rx"
    PROVE  /\ Position \in Nat /\ Used \in Nat
           /\ Position + Used = Len(accepted)
           /\ sent \in Nat /\ Len(batch) \in Nat /\ Len(accepted) \in Nat
<1>1. sent \in Nat /\ Len(batch) \in Nat /\ Len(accepted) \in Nat /\ Used \in Nat
  BY UsedRange DEF TypeOK
<1>2. Copied \in Nat /\ Unadvanced \in Nat /\ Unadvanced <= Copied
  BY <1>1 DEF Copied, Unadvanced, Control
<1> QED
  BY <1>1, <1>2 DEF Position, NothingLost

\* A step of the main loop that leaves ring, stream and position alone keeps them.
LEMMA SamePosition ==
    ASSUME TypeOK, Control, NothingLost, RingInOrder, dir = "rx",
           UNCHANGED <<ring, head, tail, accepted>>, Position' = Position,
           sent' + Copied' = Position' + Unadvanced'
    PROVE  NothingLost' /\ RingInOrder'
<1>1. Used' = Used /\ \A k \in Nat : SlotOf(k)' = SlotOf(k)
  BY DEF Used, SlotOf
<1>2. RingInOrder'
  BY <1>1 DEF RingInOrder
<1>3. NothingLost'
  <2>1. Unadvanced' \in Nat
    BY DEF Unadvanced
  <2> QED
    BY <1>1, <2>1, PositionFacts DEF NothingLost
<1> QED
  BY <1>2, <1>3

-----------------------------------------------------------------------------
(* The steps                                                               *)

\* The interrupt's step appends to the stream and to the ring alike.
LEMMA PutStep ==
    ASSUME TypeOK, StreamOK, NEW b \in Byte, ByteReceived(b)
    PROVE  StreamOK'
<1>0. /\ dir = "rx" /\ UNCHANGED <<tail, dir, pc, batch, sent>>
      /\ Control /\ NothingLost /\ RingInOrder /\ BatchInOrder
  BY DEF ByteReceived, StreamOK
<1>1. CASE Full
  <2>1. UNCHANGED <<ring, head, accepted>>
    BY <1>1 DEF ByteReceived
  <2>2. Control' /\ BatchInOrder'
    BY <1>0, <2>1 DEF Control, Turning, BatchInOrder
  <2>3. Position' = Position /\ Copied' = Copied /\ Unadvanced' = Unadvanced
    BY <1>0 DEF Position, Copied, Unadvanced
  <2>4. sent' + Copied' = Position' + Unadvanced'
    BY <1>0, <2>3 DEF Position, Copied, Unadvanced, TypeOK
  <2> QED
    BY <1>0, <2>1, <2>2, <2>3, <2>4, SamePosition DEF StreamOK
<1>2. CASE ~Full
  <2>1. ring' = [ring EXCEPT ![head] = b] /\ head' = Succ(head) /\ accepted' = Append(accepted, b)
    BY <1>2 DEF ByteReceived
  <2>2. Len(accepted') = Len(accepted) + 1 /\ Len(accepted) \in Nat
    BY <2>1 DEF TypeOK
  <2>3. ASSUME NEW i \in 1 .. Len(accepted) PROVE accepted'[i] = accepted[i]
    BY <2>1 DEF TypeOK
  <2>4. Position' = Position /\ Copied' = Copied /\ Unadvanced' = Unadvanced
    BY <1>0 DEF Position, Copied, Unadvanced
  <2>5. /\ Used' = Used + 1 /\ SlotOf(Used) = head
        /\ \A k \in Nat : k < Used => SlotOf(k) \in Slots /\ SlotOf(k) # head
        /\ \A k \in Nat : SlotOf(k)' = SlotOf(k)
    BY <1>0, <1>2, <2>1, UsedAfterPut
  <2>6. Control'
    BY <1>0, <1>2, <2>1 DEF Control, Turning, Full
  <2>7. NothingLost'
    <3>1. Copied \in Nat /\ Unadvanced \in Nat /\ sent \in Nat /\ Used \in Nat
      BY UsedRange DEF Copied, Unadvanced, TypeOK
    <3> QED
      BY <1>0, <2>2, <2>4, <2>5, <3>1 DEF NothingLost
  <2>8. RingInOrder'
    <3>1. SUFFICES ASSUME NEW k \in Nat, k < Used + 1
                   PROVE  ring'[SlotOf(k)] = accepted'[Position + k + 1]
      BY <2>4, <2>5 DEF RingInOrder
    <3>2. Position \in Nat /\ Used \in Nat /\ Position + Used = Len(accepted)
      BY <1>0, PositionFacts
    <3>3. CASE k < Used
      <4>1. ring'[SlotOf(k)] = ring[SlotOf(k)]
        BY <2>1, <2>5, <3>3 DEF TypeOK
      <4>2. Position + k + 1 \in 1 .. Len(accepted)
        BY <3>2, <3>3
      <4> QED
        BY <1>0, <2>3, <3>3, <4>1, <4>2 DEF RingInOrder
    <3>4. CASE k = Used
      <4>1. ring'[SlotOf(k)] = b
        BY <2>1, <2>5, <3>4 DEF TypeOK
      <4>2. Position + k + 1 = Len(accepted) + 1
        BY <3>2, <3>4
      <4>3. accepted'[Len(accepted) + 1] = b
        BY <2>1 DEF TypeOK
      <4> QED
        BY <4>1, <4>2, <4>3
    <3> QED
      BY <3>1, <3>2, <3>3, <3>4
  <2>9. BatchInOrder'
    <3>1. SUFFICES ASSUME pc \in {"fill", "advance"}
                   PROVE  /\ sent + Len(batch) <= Len(accepted')
                          /\ \A i \in 1 .. Len(batch) : batch[i] = accepted'[sent + i]
      BY <1>0 DEF BatchInOrder
    <3>2. /\ sent + Len(batch) <= Len(accepted)
          /\ \A i \in 1 .. Len(batch) : batch[i] = accepted[sent + i]
      BY <1>0, <3>1 DEF BatchInOrder
    <3>3. sent \in Nat /\ Len(batch) \in Nat
      BY DEF TypeOK
    <3>4. ASSUME NEW i \in 1 .. Len(batch) PROVE batch[i] = accepted'[sent + i]
      <4>1. sent + i \in 1 .. Len(accepted)
        BY <2>2, <3>2, <3>3
      <4> QED
        BY <2>3, <3>2, <4>1
    <3> QED
      BY <2>2, <3>2, <3>3, <3>4
  <2> QED
    BY <2>6, <2>7, <2>8, <2>9 DEF StreamOK
<1> QED
  BY <1>1, <1>2

\* batch[n++] = g_ring[g_ring_tail]: the byte copied is the next of the stream.
LEMMA CopyStep ==
    ASSUME TypeOK, StreamOK, CopyByte
    PROVE  StreamOK'
<1>0. Control /\ NothingLost /\ RingInOrder /\ BatchInOrder
  BY DEF StreamOK
<1>1. /\ pc = "fill" /\ pc' = "advance" /\ tail # head /\ dir = "rx" /\ dir' = "rx"
      /\ batch' = Append(batch, ring[tail])
      /\ UNCHANGED <<ring, head, tail, accepted, sent>>
  BY <1>0 DEF CopyByte, More, Control, Turning, TypeOK
<1>2. ring[tail] \in Byte /\ batch \in Seq(Byte) /\ sent \in Nat
  BY DEF TypeOK
<1>3. Len(batch') = Len(batch) + 1 /\ Len(batch) \in Nat
  BY <1>1, <1>2
<1>4. /\ Copied = Len(batch) /\ Copied' = Len(batch) + 1
      /\ Unadvanced = 0 /\ Unadvanced' = 1
  BY <1>1, <1>3 DEF Copied, Unadvanced
<1>5. Position = sent + Len(batch) /\ Position' = Position
  BY <1>1, <1>2, <1>3, <1>4 DEF Position
<1>6. NothingLost' /\ RingInOrder'
  BY <1>0, <1>1, <1>2, <1>3, <1>4, <1>5, SamePosition
<1>7. Control'
  BY <1>1, <1>3 DEF Control, Turning
<1>8. BatchInOrder'
  <2>1. Used \in Nat /\ Used # 0 /\ SlotOf(0) = tail
    BY <1>1, UsedRange
  <2>2. ring[tail] = accepted[Position + 1]
    <3>1. ring[SlotOf(0)] = accepted[Position + 0 + 1]
      BY <1>0, <1>1, <2>1 DEF RingInOrder
    <3> QED
      BY <1>2, <1>3, <1>5, <2>1, <3>1
  <2>3. Position + Used = Len(accepted)
    BY <1>0, <1>1, PositionFacts
  <2>4. sent + Len(batch) + 1 <= Len(accepted)
    BY <1>2, <1>3, <1>5, <2>1, <2>3
  <2>5. \A i \in 1 .. Len(batch) : batch[i] = accepted[sent + i]
    BY <1>0, <1>1 DEF BatchInOrder
  <2>6. ASSUME NEW i \in 1 .. (Len(batch) + 1) PROVE batch'[i] = accepted[sent + i]
    <3>1. CASE i \in 1 .. Len(batch)
      BY <1>1, <1>2, <2>5, <3>1
    <3>2. CASE i = Len(batch) + 1
      BY <1>1, <1>2, <1>3, <1>5, <2>2, <3>2
    <3> QED
      BY <1>3, <3>1, <3>2
  <2> QED
    BY <1>1, <1>2, <1>3, <2>4, <2>6 DEF BatchInOrder
<1> QED
  BY <1>6, <1>7, <1>8 DEF StreamOK

\* g_ring_tail = (g_ring_tail + 1) & RING_MASK: the copied byte leaves the ring.
LEMMA AdvanceStep ==
    ASSUME TypeOK, StreamOK, AdvanceTail
    PROVE  StreamOK'
<1>0. Control /\ NothingLost /\ RingInOrder /\ BatchInOrder
  BY DEF StreamOK
<1>1. /\ pc = "advance" /\ pc' = "fill" /\ tail # head /\ dir = "rx" /\ dir' = "rx"
      /\ tail' = Succ(tail)
      /\ UNCHANGED <<ring, head, accepted, batch, sent>>
  BY <1>0 DEF AdvanceTail, Control, Turning, TypeOK
<1>2. Used' = Used - 1 /\ \A k \in Nat : k < Used' => SlotOf(k)' = SlotOf(k + 1)
  BY <1>1, UsedAfterTake
<1>3. /\ Position \in Nat /\ Used \in Nat /\ Position + Used = Len(accepted)
      /\ sent \in Nat /\ Len(batch) \in Nat /\ Len(accepted) \in Nat
  BY <1>0, <1>1, PositionFacts
<1>4. /\ Copied = Len(batch) /\ Copied' = Len(batch)
      /\ Unadvanced = 1 /\ Unadvanced' = 0
  BY <1>1 DEF Copied, Unadvanced
<1>5. Position' = Position + 1
  BY <1>1, <1>3, <1>4 DEF Position
<1>6. NothingLost'
  BY <1>0, <1>1, <1>2, <1>3, <1>4 DEF NothingLost
<1>7. RingInOrder'
  <2>1. SUFFICES ASSUME NEW k \in Nat, k < Used'
                 PROVE  ring[SlotOf(k)'] = accepted[Position' + k + 1]
    BY <1>1 DEF RingInOrder
  <2>2. SlotOf(k)' = SlotOf(k + 1) /\ k + 1 \in Nat /\ k + 1 < Used
    BY <1>2, <1>3, <2>1
  <2>3. ring[SlotOf(k + 1)] = accepted[Position + (k + 1) + 1]
    BY <1>0, <1>1, <2>2 DEF RingInOrder
  <2>4. Position + (k + 1) + 1 = Position' + k + 1
    BY <1>3, <1>5
  <2> QED
    BY <2>2, <2>3, <2>4
<1>8. Control' /\ BatchInOrder'
  BY <1>0, <1>1 DEF Control, Turning, BatchInOrder
<1> QED
  BY <1>6, <1>7, <1>8 DEF StreamOK

\* The steps of the main loop that touch neither ring nor stream.
LEMMA QuietStep ==
    ASSUME TypeOK, StreamOK, ForwardBegin \/ SendBatch \/ ReadDrops \/ SendStatus
    PROVE  StreamOK'
<1>0. Control /\ NothingLost /\ RingInOrder /\ BatchInOrder
  BY DEF StreamOK
<1>1. dir = "rx" /\ dir' = "rx" /\ UNCHANGED <<ring, head, tail, accepted>>
  BY <1>0 DEF ForwardBegin, SendBatch, ReadDrops, SendStatus, Control, Turning, TypeOK
<1>2. pc \in {"loop", "fill", "status", "report"} /\ pc' \in {"fill", "status", "report", "loop"}
  BY DEF ForwardBegin, SendBatch, ReadDrops, SendStatus
<1>3. sent \in Nat /\ Len(batch) \in Nat /\ Unadvanced = 0 /\ Unadvanced' = 0
  BY <1>2 DEF TypeOK, Unadvanced
<1>4. sent' \in Nat /\ Copied' \in Nat /\ sent' + Copied' = sent + Copied
  BY <1>3 DEF ForwardBegin, SendBatch, ReadDrops, SendStatus, Copied
<1>5. Position' = sent' + Copied' /\ Position = sent + Copied
  BY <1>3, <1>4 DEF Position, Copied
<1>6. NothingLost' /\ RingInOrder'
  BY <1>0, <1>1, <1>3, <1>4, <1>5, SamePosition
<1>7. Control'
  BY <1>1, <1>2 DEF Control, Turning
<1>8. BatchInOrder'
  <2>1. CASE ForwardBegin
    <3>1. batch' = <<>> /\ sent' = sent /\ accepted' = accepted
      BY <1>1, <2>1 DEF ForwardBegin
    <3>2. sent <= Len(accepted)
      <4>1. Copied \in Nat
        BY <1>3 DEF Copied
      <4> QED
        BY <1>0, <1>1, <1>3, <1>5, <4>1, PositionFacts
    <3> QED
      BY <1>3, <3>1, <3>2 DEF BatchInOrder
  <2>2. CASE SendBatch \/ ReadDrops \/ SendStatus
    BY <2>2 DEF SendBatch, ReadDrops, SendStatus, BatchInOrder
  <2> QED
    BY <2>1, <2>2
<1> QED
  BY <1>6, <1>7, <1>8 DEF StreamOK

\* The turn-around: nothing is claimed while the interrupt is off, and the next
\* session starts with an empty ring.
LEMMA TurnStep ==
    ASSUME TypeOK, StreamOK, EnterTx \/ ResetTail \/ ResetHead \/ Listen
    PROVE  StreamOK'
<1>0. Control
  BY DEF StreamOK
<1>1. CASE EnterTx \/ ResetTail \/ ResetHead
  <2>1. dir' = "tx"
    BY <1>0, <1>1 DEF EnterTx, ResetTail, ResetHead, Control, Turning
  <2>2. Control'
    BY <1>0, <1>1, <2>1 DEF EnterTx, ResetTail, ResetHead, HeadOnReset, Control, Turning
  <2> QED
    BY <2>1, <2>2 DEF StreamOK, NothingLost, RingInOrder, BatchInOrder
<1>2. CASE Listen
  <2>1. /\ head' = 0 /\ tail' = 0 /\ dir' = "rx" /\ pc' = "loop"
        /\ accepted' = <<>> /\ sent' = 0
    BY <1>0, <1>2 DEF Listen, Control
  <2>2. Used' = 0
    BY <2>1 DEF Used
  <2>3. Control' /\ NothingLost' /\ RingInOrder' /\ BatchInOrder'
    BY <2>1, <2>2 DEF Control, Turning, NothingLost, RingInOrder, BatchInOrder, Copied, Unadvanced
  <2> QED
    BY <2>3 DEF StreamOK
<1> QED
  BY <1>1, <1>2

\* Initially the ring is empty and the session fresh.
LEMMA StreamInit == Init => StreamOK
<1> SUFFICES ASSUME Init PROVE StreamOK
  OBVIOUS
<1>1. /\ head = 0 /\ tail = 0 /\ dir = "rx" /\ pc = "loop"
      /\ accepted = <<>> /\ sent = 0
  BY DEF Init
<1>2. Used = 0
  BY <1>1 DEF Used
<1> QED
  BY <1>1, <1>2 DEF StreamOK, Control, Turning, NothingLost, RingInOrder, BatchInOrder, Copied, Unadvanced

\* TypeOK /\ StreamOK is inductive.
LEMMA StreamStep == TypeOK /\ StreamOK /\ [Next]_vars => StreamOK'
<1> SUFFICES ASSUME TypeOK, StreamOK, [Next]_vars PROVE StreamOK'
  OBVIOUS
<1>1. CASE UNCHANGED vars
  BY <1>1 DEF vars, StreamOK, Control, Turning, NothingLost, RingInOrder, BatchInOrder,
              Copied, Unadvanced, Used, SlotOf, Position
<1> QED
  BY <1>1, PutStep, CopyStep, AdvanceStep, QuietStep, TurnStep DEF Next, Main

-----------------------------------------------------------------------------
(* The theorems                                                            *)

\* Between interrupt and host no byte is lost, doubled or carried over from an
\* earlier session, in every reachable state (byte_received, forward_rx_bytes).
THEOREM RingLosesNothing == Spec => []NothingLost
<1>1. StreamOK => NothingLost
  BY DEF StreamOK
<1> QED
  BY <1>1, TypeInit, TypeStep, StreamInit, StreamStep, PTL DEF Spec

\* What forward_rx_bytes copies are the next bytes of the stream, in order,
\* whatever the interrupt appends meanwhile.
THEOREM BatchesAreInOrder == Spec => []BatchInOrder
<1>1. StreamOK => BatchInOrder
  BY DEF StreamOK
<1> QED
  BY <1>1, TypeInit, TypeStep, StreamInit, StreamStep, PTL DEF Spec

\* byte_received drops a byte only when RingSize - 1 bytes are waiting.
THEOREM DropsAreHonest == Spec => DropsOnlyWhenFull
<1>1. ASSUME TypeOK, [Next]_vars, bufovf' > bufovf PROVE Used = RingSize - 1
  <2>1. bufovf \in Nat
    BY <1>1 DEF TypeOK
  <2>2. PICK b \in Byte : ByteReceived(b)
    BY <1>1, <2>1 DEF Next, Main, vars, ForwardBegin, CopyByte, AdvanceTail, SendBatch, ReadDrops,
                      SendStatus,
                      EnterTx, ResetTail, ResetHead, Listen
  <2>3. Full
    BY <2>1, <2>2, <1>1 DEF ByteReceived
  <2> QED
    BY <1>1, <2>3, SlotArith, SuccSlot DEF Full, Used, TypeOK
<1>2. TypeOK /\ [Next]_vars => [bufovf' > bufovf => Used = RingSize - 1]_vars
  BY <1>1
<1> QED
  BY <1>2, TypeInit, TypeStep, PTL DEF Spec, DropsOnlyWhenFull
====
