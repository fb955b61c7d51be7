---- MODULE FrameParser ----
(***************************************************************************)
(* The wire frame of serial_frame.py: build_frame at the sender, and the   *)
(* FrameParser that test_rx feeds byte by byte with what the modem heard.  *)
(* The light path loses, garbles and invents bytes; the parser has neither *)
(* a timeout nor a caller of its reset(), so a wrong length makes it eat   *)
(* the frames that follow.                                                 *)
(***************************************************************************)
EXTENDS Integers, Sequences

CONSTANTS
    MaxPayload, \* MAX_PAYLOAD
    Crc(_),     \* the four bytes of zlib.crc32
    Frames,     \* what senders send: [id, flags, payload]
    Garbage,    \* the bytes a fault may produce
    MaxFaults   \* bound: bytes lost, garbled or invented

Byte == 0 .. 255
Word16 == 0 .. 256 * 256 - 1
Flags == 0 .. 63 \* FLAGS_MASK

ASSUME WireAssumption ==
    /\ MaxPayload \in 1 .. 1023
    /\ Frames \subseteq [id : Word16, flags : Flags, payload : Seq(Byte)]
    /\ \A f \in Frames : Len(f.payload) <= MaxPayload
    /\ Garbage \subseteq Byte
    /\ MaxFaults \in Nat

VARIABLES
    state,  \* _state
    region, \* _crc_buf so far: id, length and flags, padded payload
    crc,    \* the bytes of _crc_received
    frame,  \* the frame on the air
    toGo,   \* its bytes not yet sent
    faults, \* faults so far
    clean,  \* ghost: no fault has touched this frame
    insync, \* ghost: no fault since the last valid frame
    missed, \* ghost: untouched frames not delivered since the last fault or valid frame,
            \* counted up to one more than MostMissed
    wrong   \* ghost: a frame was delivered that had not just been sent

parserVars == <<state, region, crc>>
ghostVars == <<clean, insync, missed, wrong>>
vars == <<parserVars, frame, toGo, faults, ghostVars>>

-----------------------------------------------------------------------------
(* The format                                                              *)

AA == 170
FiveFive == 85
Preamble == <<AA, FiveFive, AA, FiveFive>>
LengthMask == 1024 \* length: the low 10 bits
Align == 4

Padded(n) == ((n + Align - 1) \div Align) * Align

Word(n) == <<n % 256, n \div 256>>
Zeros(n) == [i \in 1 .. n |-> 0]

Region(f) ==
    LET n == Len(f.payload) IN
      Word(f.id) \o Word(f.flags * LengthMask + n) \o f.payload \o Zeros(Padded(n) - n)

\* The checksum is four bytes, whatever its value.
ASSUME CrcAssumption ==
    \A f \in Frames : Crc(Region(f)) \in Seq(Byte) /\ Len(Crc(Region(f))) = 4

\* build_frame
Encoded(f) == Preamble \o Region(f) \o Crc(Region(f))

-----------------------------------------------------------------------------
(* FrameParser.feed, a byte at a time                                      *)

LenFlags(r) == r[3] + 256 * r[4]
Length(r) == LenFlags(r) % LengthMask
Decoded ==
    [id |-> region[1] + 256 * region[2], flags |-> LenFlags(region) \div LengthMask,
     payload |-> SubSeq(region, 5, 4 + Length(region))]

Goto(s) == state' = s

HuntAA0(b) ==
    /\ state = "HUNT_AA0"
    /\ Goto(IF b = AA THEN "HUNT_55_0" ELSE "HUNT_AA0")
    /\ UNCHANGED <<region, crc>>

Hunt550(b) ==
    /\ state = "HUNT_55_0"
    /\ Goto(CASE b = FiveFive -> "HUNT_AA_1" [] b = AA -> "HUNT_55_0" [] OTHER -> "HUNT_AA0")
    /\ UNCHANGED <<region, crc>>

HuntAA1(b) ==
    /\ state = "HUNT_AA_1"
    /\ Goto(IF b = AA THEN "HUNT_55_1" ELSE "HUNT_AA0")
    /\ UNCHANGED <<region, crc>>

Hunt551(b) ==
    /\ state = "HUNT_55_1"
    /\ Goto(CASE b = FiveFive -> "HEADER" [] b = AA -> "HUNT_55_0" [] OTHER -> "HUNT_AA0")
    /\ region' = <<>> /\ crc' = <<>>

\* ID_LO, ID_HI, LENFLAGS_LO
Header(b) ==
    /\ state = "HEADER" /\ Len(region) < 3
    /\ region' = Append(region, b)
    /\ UNCHANGED <<state, crc>>

AnyLength(n) == TRUE
BelowMax(n) == n < MaxPayload
LengthAllowed(n) == n <= MaxPayload

\* LENFLAGS_HI
HeaderEnds(b) ==
    /\ state = "HEADER" /\ Len(region) = 3
    /\ region' = Append(region, b)
    /\ Goto(CASE ~LengthAllowed(Length(region')) -> "HUNT_AA0"
              [] Length(region') = 0 -> "CRC_BYTES"
              [] OTHER -> "PAYLOAD")
    /\ UNCHANGED crc

Payload(b) ==
    /\ state = "PAYLOAD"
    /\ region' = Append(region, b)
    /\ Goto(IF Len(region') = 4 + Padded(Length(region)) THEN "CRC_BYTES" ELSE "PAYLOAD")
    /\ UNCHANGED crc

CrcByte(b) ==
    /\ state = "CRC_BYTES"
    /\ crc' = Append(crc, b)
    /\ Goto(IF Len(crc') = 4 THEN "HUNT_AA0" ELSE "CRC_BYTES")
    /\ UNCHANGED region

AnyCrc(received) == TRUE
CrcMatches(received) == received = Crc(region)

\* Does this byte complete a valid frame?
Completes(b) == state = "CRC_BYTES" /\ Len(crc) = 3 /\ CrcMatches(Append(crc, b))

Feed(b) ==
    \/ HuntAA0(b) \/ Hunt550(b) \/ HuntAA1(b) \/ Hunt551(b)
    \/ Header(b) \/ HeaderEnds(b) \/ Payload(b) \/ CrcByte(b)

-----------------------------------------------------------------------------
(* The air                                                                 *)

Init ==
    /\ state = "HUNT_AA0" /\ region = <<>> /\ crc = <<>>
    /\ frame \in Frames /\ toGo = <<>> /\ faults = 0
    /\ clean = TRUE /\ insync = TRUE /\ missed = 0 /\ wrong = FALSE

Send(f) ==
    /\ toGo = <<>>
    /\ frame' = f /\ toGo' = Encoded(f) /\ clean' = TRUE
    /\ UNCHANGED <<parserVars, faults, insync, missed, wrong>>

\* The untouched frames a fault may cost: those that a length taken from the wrong place
\* can eat, and the one it ends in.
ShortestFrame == 12
MostMissed == (4 + Padded(MaxPayload) + 4) \div ShortestFrame + 1
OneMissed == IF missed > MostMissed THEN missed ELSE missed + 1

\* The next byte arrives as it was sent.
Arrive ==
    /\ toGo # <<>>
    /\ Feed(Head(toGo))
    /\ toGo' = Tail(toGo)
    /\ LET valid == Completes(Head(toGo))
           last == Len(toGo) = 1
       IN /\ wrong' = (wrong \/ (valid /\ (~last \/ Decoded # frame)))
          /\ insync' = (insync \/ valid)
          /\ missed' = CASE valid -> 0 [] ~valid /\ last /\ clean -> OneMissed [] OTHER -> missed
    /\ UNCHANGED <<frame, faults, clean>>

Fault ==
    /\ faults < MaxFaults
    /\ faults' = faults + 1 /\ clean' = FALSE /\ insync' = FALSE /\ missed' = 0

Lose ==
    /\ toGo # <<>> /\ Fault
    /\ toGo' = Tail(toGo)
    /\ UNCHANGED <<parserVars, frame, wrong>>

\* A byte that is not the sender's: instead of its next one, or out of nothing.
Stray(b) ==
    /\ Fault
    /\ Feed(b)
    /\ toGo' \in {toGo} \cup (IF toGo = <<>> THEN {} ELSE {Tail(toGo)})
    /\ wrong' = (wrong \/ (Completes(b) /\ (Len(toGo) # 1 \/ Decoded # frame)))
    /\ UNCHANGED frame

Next ==
    \/ \E f \in Frames : Send(f)
    \/ Arrive \/ Lose
    \/ \E b \in Garbage : Stray(b)

Spec == Init /\ [][Next]_vars

-----------------------------------------------------------------------------
(* Properties                                                              *)

TypeOK ==
    /\ state \in {"HUNT_AA0", "HUNT_55_0", "HUNT_AA_1", "HUNT_55_1", "HEADER", "PAYLOAD",
                  "CRC_BYTES"}
    /\ \A i \in DOMAIN region : region[i] \in Byte
    /\ Len(region) <= 4 + Padded(MaxPayload) /\ Len(crc) <= 4
    /\ state = "PAYLOAD" => Len(region) < 4 + Padded(Length(region))
    /\ state = "CRC_BYTES" => Len(region) = 4 + Padded(Length(region))

\* What is delivered is the frame that has just arrived, with its id, flags and
\* payload: no garbled, partial or joined frame passes for a good one
\* (README.md:166-173).
NoFalseFrame == ~wrong

\* From a valid frame on, until the next fault, none is lost: padding, empty payloads
\* and payloads that look like the preamble do not cost the parser its place.
InSyncLosesNothing == insync => missed = 0

\* Frames follow each other so that a parser that hunts from anywhere takes only their
\* own preambles: another one is followed by a length that it refuses.
PreambleAt(s, p) == SubSeq(s, p, p + Len(Preamble) - 1) = Preamble
Refused(s, p) == p + 7 <= Len(s) /\ Length(SubSeq(s, p + 4, p + 7)) > MaxPayload
NoFalsePreamble ==
    \A f, g \in Frames : \A p \in 2 .. Len(Encoded(f)) :
        PreambleAt(Encoded(f) \o Encoded(g), p) => Refused(Encoded(f), p)

\* For such frames, and only for them, README.md:151-153 is right that the parser will
\* "re-synchronise after any optical dropout": a fault costs a bounded number of the frames
\* that follow untouched, although the parser never times out and may have taken anything
\* for a length.
LossBounded == NoFalsePreamble => missed <= MostMissed
====
