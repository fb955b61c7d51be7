---- MODULE RxRing ----
(***************************************************************************)
(* The ring between the receive interrupt and the main loop of the XIAO    *)
(* modem. The interrupt appends decoded bytes at any point of the main     *)
(* loop's code; no lock is taken. The main loop drains the ring into       *)
(* MSG_RX batches and starts a new receive session when CMD_TX flips the   *)
(* modem to transmit and back. (The UNO's ring differs only in its size    *)
(* and has no counters.)                                                   *)
(***************************************************************************)
EXTENDS Naturals, Sequences

CONSTANTS
    RingSize, \* slots of the ring, a power of two
    Batch,    \* bytes one MSG_RX carries at most
    Byte,     \* the byte values
    MaxBytes, \* bound: bytes accepted in one session
    MaxDrops  \* bound: bytes dropped in one session

ASSUME RingAssumption ==
    /\ RingSize \in Nat /\ RingSize >= 2
    /\ Batch \in Nat \ {0}
    /\ Byte # {}
    /\ MaxBytes \in Nat /\ MaxDrops \in Nat

VARIABLES
    ring,     \* g_ring
    head,     \* g_ring_head, written by the interrupt
    tail,     \* g_ring_tail, written by the main loop
    bufovf,   \* g_rx_bufovf: bytes dropped this session
    reported, \* g_rx_bufovf_reported
    snapshot, \* the local copy of g_rx_bufovf in forward_rx_bytes
    dir,      \* g_dir: "rx" or "tx"
    pc,       \* where the main loop is
    batch,    \* the local array of forward_rx_bytes
    accepted, \* ghost: the bytes put into the ring this session
    sent,     \* ghost: how many of them were forwarded
    told      \* ghost: the drops the last MSG_RX_STATUS of this session tells of

countVars == <<reported, snapshot, told>>
vars == <<ring, head, tail, bufovf, countVars, dir, pc, batch, accepted, sent>>

Slots == 0 .. (RingSize - 1)
SuccUnmasked(i) == i + 1
Succ(i) == (i + 1) % RingSize

\* Bytes in the ring, and the slot of the k-th of them from the tail.
Used == IF head >= tail THEN head - tail ELSE head + RingSize - tail
SlotOf(k) == IF tail + k < RingSize THEN tail + k ELSE tail + k - RingSize

TypeOK ==
    /\ ring \in [Slots -> Byte]
    /\ head \in Slots /\ tail \in Slots
    /\ bufovf \in Nat /\ reported \in Nat /\ snapshot \in Nat /\ told \in Nat
    /\ dir \in {"rx", "tx"}
    /\ pc \in {"loop", "fill", "advance", "status", "report", "reset_tail", "reset_head", "listen"}
    /\ batch \in Seq(Byte) /\ Len(batch) <= Batch
    /\ accepted \in Seq(Byte) /\ sent \in Nat

Init ==
    /\ ring \in [Slots -> Byte]
    /\ head = 0 /\ tail = 0
    /\ bufovf = 0 /\ reported = 0 /\ snapshot = 0 /\ told = 0
    /\ dir = "rx" /\ pc = "loop" /\ batch = <<>>
    /\ accepted = <<>> /\ sent = 0

-----------------------------------------------------------------------------
(* The interrupt                                                           *)

NeverFull == FALSE
Full == Succ(head) = tail

\* byte_received: append, or drop and count when the ring is full.
ByteReceived(b) ==
    /\ dir = "rx"
    /\ IF Full
       THEN /\ bufovf < MaxDrops
            /\ bufovf' = bufovf + 1
            /\ UNCHANGED <<ring, head, accepted>>
       ELSE /\ Len(accepted) < MaxBytes
            /\ ring' = [ring EXCEPT ![head] = b]
            /\ head' = Succ(head)
            /\ accepted' = Append(accepted, b)
            /\ UNCHANGED bufovf
    /\ UNCHANGED <<tail, countVars, dir, pc, batch, sent>>

-----------------------------------------------------------------------------
(* The main loop: forward_rx_bytes, a statement at a time                  *)

ForwardBegin ==
    /\ pc = "loop" /\ dir = "rx"
    /\ batch' = <<>>
    /\ pc' = "fill"
    /\ UNCHANGED <<ring, head, tail, bufovf, countVars, dir, accepted, sent>>

More == Len(batch) < Batch /\ tail # head

\* batch[n++] = g_ring[g_ring_tail]
CopyByte ==
    /\ pc = "fill" /\ More
    /\ batch' = Append(batch, ring[tail])
    /\ pc' = "advance"
    /\ UNCHANGED <<ring, head, tail, bufovf, countVars, dir, accepted, sent>>

\* g_ring_tail = (g_ring_tail + 1) & RING_MASK
AdvanceTail ==
    /\ pc = "advance"
    /\ tail' = Succ(tail)
    /\ pc' = "fill"
    /\ UNCHANGED <<ring, head, bufovf, countVars, dir, batch, accepted, sent>>

\* usb_send(MSG_RX, batch, n)
SendBatch ==
    /\ pc = "fill" /\ ~More
    /\ sent' = sent + Len(batch)
    /\ pc' = "status"
    /\ UNCHANGED <<ring, head, tail, bufovf, countVars, dir, batch, accepted>>

\* ferr = g_rx_ferr, bufovf = g_rx_bufovf: on to the report if the drop count has
\* changed. (g_rx_ferr is read and compared in the same way; only the drops are here.)
ReadDrops ==
    /\ pc = "status"
    /\ snapshot' = bufovf
    /\ pc' = IF bufovf # reported THEN "report" ELSE "loop"
    /\ UNCHANGED <<ring, head, tail, bufovf, reported, dir, batch, accepted, sent, told>>

LiveDrops == bufovf
NotedDrops == snapshot

\* g_rx_bufovf_reported = bufovf; MSG_RX_STATUS.
SendStatus ==
    /\ pc = "report"
    /\ reported' = NotedDrops
    /\ told' = snapshot
    /\ pc' = "loop"
    /\ UNCHANGED <<ring, head, tail, bufovf, snapshot, dir, batch, accepted, sent>>

-----------------------------------------------------------------------------
(* The main loop: CMD_TX with AUTO_RX. enter_tx stops the receive          *)
(* interrupt, enter_rx empties the ring and listens again.                 *)

EnterTx ==
    /\ pc = "loop" /\ dir = "rx"
    /\ dir' = "tx"
    /\ pc' = "reset_tail"
    /\ UNCHANGED <<ring, head, tail, bufovf, countVars, batch, accepted, sent>>

ResetTail ==
    /\ pc = "reset_tail"
    /\ tail' = 0
    /\ pc' = "reset_head"
    /\ UNCHANGED <<ring, head, bufovf, countVars, dir, batch, accepted, sent>>

KeepHead == head
HeadOnReset == 0

ResetHead ==
    /\ pc = "reset_head"
    /\ head' = HeadOnReset
    /\ bufovf' = 0 /\ reported' = 0 /\ told' = 0
    /\ pc' = "listen"
    /\ UNCHANGED <<ring, tail, snapshot, dir, batch, accepted, sent>>

\* g_dir = DIR_RX, the interrupt armed: a new session.
Listen ==
    /\ pc = "listen"
    /\ dir' = "rx"
    /\ pc' = "loop"
    /\ accepted' = <<>> /\ sent' = 0
    /\ UNCHANGED <<ring, head, tail, bufovf, countVars, batch>>

-----------------------------------------------------------------------------

Main ==
    \/ ForwardBegin \/ CopyByte \/ AdvanceTail \/ SendBatch \/ ReadDrops \/ SendStatus
    \/ EnterTx \/ ResetTail \/ ResetHead \/ Listen

Next == Main \/ \E b \in Byte : ByteReceived(b)

Spec == Init /\ [][Next]_vars

\* The main loop never stops; a command need not ever come.
FairSpec == Spec /\ WF_vars(Main)

-----------------------------------------------------------------------------
(* Properties                                                              *)

\* A batch holds the next bytes of the stream, in order, although the interrupt
\* keeps writing to the ring while the main loop copies from it without a lock
\* (samd21 forward_rx_bytes, 968-971).
BatchInOrder ==
    dir = "rx" /\ pc \in {"fill", "advance"} =>
        /\ sent + Len(batch) <= Len(accepted)
        /\ \A i \in 1 .. Len(batch) : batch[i] = accepted[sent + i]

\* No byte is lost or doubled between the interrupt and the host: the accepted
\* bytes are those sent, those copied and those still in the ring; a session
\* starts with none of the last one's.
Copied == IF pc \in {"fill", "advance"} THEN Len(batch) ELSE 0
Unadvanced == IF pc = "advance" THEN 1 ELSE 0
NothingLost == dir = "rx" => sent + Copied + Used = Len(accepted) + Unadvanced

\* A byte is dropped only when RingSize - 1 bytes wait for the main loop.
DropsOnlyWhenFull == [][bufovf' > bufovf => Used = RingSize - 1]_vars

\* Every accepted byte is forwarded and every drop is told in an MSG_RX_STATUS, also
\* when the last of them come between the snapshot of the counter and the note of what
\* was reported, or after the ring was read; unless the session ends first.
EverythingReported ==
    /\ \A n \in 1 .. MaxBytes :
         (dir = "rx" /\ Len(accepted) >= n) ~> (dir = "tx" \/ sent >= n)
    /\ \A n \in 1 .. MaxDrops :
         (dir = "rx" /\ bufovf >= n) ~> (dir = "tx" \/ told >= n)
====
