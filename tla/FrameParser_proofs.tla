---- MODULE FrameParser_proofs ----
(***************************************************************************)
(* The parser of serial_frame.py keeps its place: from a valid frame on,   *)
(* until a fault touches the light path, every frame that build_frame      *)
(* makes is delivered, as it was made, for every payload, id and set of    *)
(* flags. The checksum may be any function of the bytes: what the theorem  *)
(* needs is that the parser and the sender agree on it. What it tells      *)
(* apart (NoFalseFrame) is left to the model checker.                      *)
(***************************************************************************)
EXTENDS FrameParser, SequenceTheorems, TLAPS

-----------------------------------------------------------------------------
(* The format                                                              *)

\* The padded length of a payload is its length, rounded up.
LEMMA PaddedLength ==
    ASSUME NEW n \in 0 .. 1023
    PROVE  /\ Padded(n) \in Nat /\ n <= Padded(n) /\ Padded(n) < n + 4
           /\ n = 0 => Padded(n) = 0
BY DEF Padded, Align

LEMMA PaddedGrows ==
    ASSUME NEW n \in 0 .. 1023, NEW m \in n .. 1023
    PROVE  Padded(n) <= Padded(m)
BY DEF Padded, Align

\* A 16-bit word is its two bytes.
LEMMA WordBytes ==
    ASSUME NEW n \in Word16
    PROVE  /\ Word(n) \in Seq(Byte) /\ Len(Word(n)) = 2
           /\ Word(n)[1] + 256 * Word(n)[2] = n
<1>1. n % 256 \in Byte /\ n \div 256 \in Byte /\ (n % 256) + 256 * (n \div 256) = n
  BY DEF Byte, Word16
<1> QED
  BY <1>1 DEF Word

LEMMA BytesWord ==
    ASSUME NEW lo \in Byte, NEW hi \in Byte
    PROVE  lo + 256 * hi \in Word16
BY DEF Byte, Word16

\* Its ten low bits are the length, the others the flags.
LEMMA WordFields ==
    ASSUME NEW fl \in Flags, NEW n \in 0 .. 1023
    PROVE  /\ fl * LengthMask + n \in Word16
           /\ (fl * LengthMask + n) % LengthMask = n
           /\ (fl * LengthMask + n) \div LengthMask = fl
<1>1. fl * 1024 + n \in Word16
  BY SMTT(60) DEF Flags, Word16
<1>2. (fl * 1024 + n) % 1024 = n
  BY DEF Flags
<1>3. (fl * 1024 + n) \div 1024 = fl
  BY DEF Flags
<1> QED
  BY <1>1, <1>2, <1>3 DEF LengthMask

LEMMA LengthRange ==
    ASSUME NEW w \in Word16
    PROVE  w % LengthMask \in 0 .. 1023
BY DEF Word16, LengthMask

\* The header of a region names its length.
LEMMA LengthBounds ==
    ASSUME NEW r \in Seq(Byte), Len(r) >= 4
    PROVE  /\ LenFlags(r) \in Word16 /\ Length(r) \in 0 .. 1023
           /\ \A t \in Seq(Byte) : t[3] = r[3] /\ t[4] = r[4] => Length(t) = Length(r)
<1>1. r[3] \in Byte /\ r[4] \in Byte
  OBVIOUS
<1>2. LenFlags(r) \in Word16
  BY <1>1, BytesWord DEF LenFlags
<1>3. Length(r) \in 0 .. 1023
  BY <1>2, LengthRange DEF Length
<1> QED
  BY <1>2, <1>3 DEF LenFlags, Length

\* Two sequences in a row, element by element.
LEMMA InARow ==
    ASSUME NEW S, NEW s \in Seq(S), NEW t \in Seq(S)
    PROVE  /\ s \o t \in Seq(S) /\ Len(s) \in Nat /\ Len(t) \in Nat
           /\ Len(s \o t) = Len(s) + Len(t)
           /\ \A i \in 1 .. Len(s) : (s \o t)[i] = s[i]
           /\ \A i \in 1 .. Len(t) : (s \o t)[Len(s) + i] = t[i]
<1>1. /\ s \o t \in Seq(S) /\ Len(s \o t) = Len(s) + Len(t)
      /\ \A i \in 1 .. Len(s) + Len(t) : (s \o t)[i] = IF i <= Len(s) THEN s[i] ELSE t[i - Len(s)]
  BY ConcatProperties
<1>2. Len(s) \in Nat /\ Len(t) \in Nat
  OBVIOUS
<1>3. ASSUME NEW i \in 1 .. Len(t) PROVE (s \o t)[Len(s) + i] = t[i]
  <2>1. Len(s) + i \in 1 .. Len(s) + Len(t) /\ ~(Len(s) + i <= Len(s)) /\ (Len(s) + i) - Len(s) = i
    BY <1>2
  <2> QED
    BY <1>1, <2>1
<1>4. ASSUME NEW i \in 1 .. Len(s) PROVE (s \o t)[i] = s[i]
  BY <1>1, <1>2
<1> QED
  BY <1>1, <1>2, <1>3, <1>4

\* The fields of a frame, and the lengths of its payload.
LEMMA FrameFields ==
    ASSUME NEW f \in Frames
    PROVE  /\ f.id \in Word16 /\ f.flags \in Flags /\ f.payload \in Seq(Byte)
           /\ Len(f.payload) \in 0 .. MaxPayload /\ Len(f.payload) \in 0 .. 1023
           /\ Padded(Len(f.payload)) \in Nat /\ Len(f.payload) <= Padded(Len(f.payload))
<1>1. f \in [id : Word16, flags : Flags, payload : Seq(Byte)]
  BY WireAssumption
<1>2. f.id \in Word16 /\ f.flags \in Flags /\ f.payload \in Seq(Byte)
  BY <1>1
<1> DEFINE n == Len(f.payload)
<1>3. n \in Nat /\ n <= MaxPayload
  BY <1>2, WireAssumption
<1> HIDE DEF n
<1>4. MaxPayload \in 1 .. 1023
  BY WireAssumption
<1>5. n \in 0 .. MaxPayload /\ n \in 0 .. 1023
  BY <1>3, <1>4
<1>6. Padded(n) \in Nat /\ n <= Padded(n)
  BY <1>5, PaddedLength
<1>7. Len(f.payload) \in 0 .. MaxPayload /\ Len(f.payload) \in 0 .. 1023
  BY <1>5 DEF n
<1>8. Padded(Len(f.payload)) \in Nat /\ Len(f.payload) <= Padded(Len(f.payload))
  BY <1>6 DEF n
<1> QED
  BY <1>2, <1>7, <1>8

\* What the checksum covers: the header says whose region it is, and the payload is there.
LEMMA RegionBytes ==
    ASSUME NEW f \in Frames
    PROVE  /\ Region(f) \in Seq(Byte) /\ Len(Region(f)) = 4 + Padded(Len(f.payload))
           /\ Len(f.payload) \in 0 .. MaxPayload
           /\ Region(f)[1] + 256 * Region(f)[2] = f.id
           /\ LenFlags(Region(f)) = f.flags * LengthMask + Len(f.payload)
           /\ \A i \in 1 .. Len(f.payload) : Region(f)[4 + i] = f.payload[i]
<1> DEFINE n == Len(f.payload)
<1>0. f.id \in Word16 /\ f.flags \in Flags /\ f.payload \in Seq(Byte)
  BY FrameFields
<1>1. n \in 0 .. 1023 /\ n \in 0 .. MaxPayload /\ Padded(n) \in Nat /\ n <= Padded(n)
  <2>1. n \in 0 .. 1023
    BY FrameFields
  <2>2. n \in 0 .. MaxPayload
    BY FrameFields
  <2>3. Padded(n) \in Nat
    BY FrameFields
  <2>4. n <= Padded(n)
    BY FrameFields
  <2> QED
    BY <2>1, <2>2, <2>3, <2>4
<1> DEFINE lf == f.flags * LengthMask + n
           a == Word(f.id)
           b == Word(lf)
           z == Zeros(Padded(n) - n)
<1> HIDE DEF n
<1>2. lf \in Word16
  BY <1>0, <1>1, WordFields
<1> HIDE DEF lf
<1>3. /\ a \in Seq(Byte) /\ Len(a) = 2 /\ a[1] + 256 * a[2] = f.id
      /\ b \in Seq(Byte) /\ Len(b) = 2 /\ b[1] + 256 * b[2] = lf
  BY <1>0, <1>2, WordBytes
<1>4. z \in Seq(Byte) /\ Len(z) = Padded(n) - n
  <2>1. Padded(n) - n \in Nat
    BY <1>1
  <2> QED
    BY <2>1 DEF Zeros, Byte
<1>5. Region(f) = ((a \o b) \o f.payload) \o z
  BY DEF Region, n, lf
<1> HIDE DEF a, b, z
<1>6. /\ a \o b \in Seq(Byte) /\ Len(a \o b) = 4
      /\ (a \o b)[1] = a[1] /\ (a \o b)[2] = a[2] /\ (a \o b)[3] = b[1] /\ (a \o b)[4] = b[2]
  <2>1. /\ a \o b \in Seq(Byte) /\ Len(a \o b) = Len(a) + Len(b)
        /\ \A i \in 1 .. Len(a) : (a \o b)[i] = a[i]
        /\ \A i \in 1 .. Len(b) : (a \o b)[Len(a) + i] = b[i]
    <3>1. a \in Seq(Byte) /\ b \in Seq(Byte)
      BY <1>3
    <3> QED
      BY <3>1, InARow
  <2>2. (a \o b)[2 + 1] = b[1] /\ (a \o b)[2 + 2] = b[2] /\ (a \o b)[1] = a[1] /\ (a \o b)[2] = a[2]
    BY <1>3, <2>1
  <2> QED
    BY <1>3, <2>1, <2>2
<1> DEFINE h == a \o b
<1> HIDE DEF h
<1>7. h \in Seq(Byte) /\ f.payload \in Seq(Byte) /\ Len(h) = 4
  BY <1>0, <1>6 DEF h
<1>8. /\ h \o f.payload \in Seq(Byte) /\ Len(h \o f.payload) = 4 + n
      /\ \A i \in 1 .. 4 : (h \o f.payload)[i] = h[i]
      /\ \A i \in 1 .. n : (h \o f.payload)[4 + i] = f.payload[i]
  <2>1. /\ h \o f.payload \in Seq(Byte) /\ Len(h \o f.payload) = Len(h) + Len(f.payload)
        /\ \A i \in 1 .. Len(h) : (h \o f.payload)[i] = h[i]
        /\ \A i \in 1 .. Len(f.payload) : (h \o f.payload)[Len(h) + i] = f.payload[i]
    <3>1. h \in Seq(Byte) /\ f.payload \in Seq(Byte)
      BY <1>7
    <3> QED
      BY <3>1, InARow
  <2> QED
    BY <1>7, <2>1 DEF n
<1> DEFINE q == h \o f.payload
<1> HIDE DEF q
<1>9. q \in Seq(Byte) /\ z \in Seq(Byte) /\ Len(q) = 4 + n
  BY <1>4, <1>8 DEF q
<1>10. /\ q \o z \in Seq(Byte) /\ Len(q \o z) = Len(q) + Len(z)
       /\ \A i \in 1 .. Len(q) : (q \o z)[i] = q[i]
  BY <1>9, InARow
<1>11. Region(f) = q \o z
  BY <1>5 DEF q, h
<1>12. Padded(n) \in Nat /\ Len(Region(f)) = 4 + Padded(n)
  BY <1>1, <1>4, <1>9, <1>10, <1>11
<1>13. ASSUME NEW i \in 1 .. 4 PROVE Region(f)[i] = (a \o b)[i]
  <2>1. i \in 1 .. Len(q)
    BY <1>1, <1>9
  <2>2. (q \o z)[i] = q[i]
    BY <1>10, <2>1
  <2>3. q[i] = h[i]
    BY <1>8 DEF q
  <2> QED
    BY <1>11, <2>2, <2>3 DEF h
<1>14. ASSUME NEW i \in 1 .. n PROVE Region(f)[4 + i] = f.payload[i]
  <2>1. 4 + i \in 1 .. Len(q)
    BY <1>1, <1>9
  <2>2. (q \o z)[4 + i] = q[4 + i]
    BY <1>10, <2>1
  <2>3. q[4 + i] = f.payload[i]
    BY <1>8 DEF q
  <2> QED
    BY <1>11, <2>2, <2>3
<1>15. /\ Region(f)[1] = a[1] /\ Region(f)[2] = a[2] /\ Region(f)[3] = b[1] /\ Region(f)[4] = b[2]
  BY <1>6, <1>13
<1>16. LenFlags(Region(f)) = lf
  BY <1>3, <1>15 DEF LenFlags
<1> QED
  BY <1>0, <1>1, <1>3, <1>9, <1>10, <1>11, <1>12, <1>14, <1>15, <1>16 DEF n, lf

\* What is sent: the preamble, the region, the checksum.
LEMMA EncodedBytes ==
    ASSUME NEW f \in Frames
    PROVE  /\ Encoded(f) \in Seq(Byte) /\ Len(Encoded(f)) = 12 + Padded(Len(f.payload))
           /\ Encoded(f)[1] = AA /\ Encoded(f)[2] = FiveFive
           /\ Encoded(f)[3] = AA /\ Encoded(f)[4] = FiveFive
           /\ \A i \in 1 .. Len(Region(f)) : Encoded(f)[4 + i] = Region(f)[i]
           /\ \A i \in 1 .. 4 : Encoded(f)[4 + Len(Region(f)) + i] = Crc(Region(f))[i]
<1> DEFINE r == Region(f)
           c == Crc(r)
           p == Preamble
<1>1. /\ r \in Seq(Byte) /\ Len(r) = 4 + Padded(Len(f.payload))
      /\ Padded(Len(f.payload)) \in Nat
  BY RegionBytes, FrameFields
<1>2. c \in Seq(Byte) /\ Len(c) = 4
  BY CrcAssumption
<1>3. /\ p \in Seq(Byte) /\ Len(p) = 4
      /\ p[1] = AA /\ p[2] = FiveFive /\ p[3] = AA /\ p[4] = FiveFive
  BY DEF Preamble, AA, FiveFive, Byte
<1>4. Encoded(f) = (p \o r) \o c
  BY DEF Encoded
<1> HIDE DEF r, c, p
<1> DEFINE q == p \o r
<1>5. /\ q \in Seq(Byte) /\ Len(q) = Len(p) + Len(r) /\ Len(r) \in Nat
      /\ \A i \in 1 .. Len(p) : q[i] = p[i]
      /\ \A i \in 1 .. Len(r) : q[Len(p) + i] = r[i]
  <2>1. p \in Seq(Byte) /\ r \in Seq(Byte)
    BY <1>1, <1>3
  <2> QED
    BY <2>1, InARow
<1> HIDE DEF q
<1>6. q \in Seq(Byte) /\ c \in Seq(Byte)
  BY <1>2, <1>5
<1>7. /\ q \o c \in Seq(Byte) /\ Len(q \o c) = Len(q) + Len(c)
      /\ \A i \in 1 .. Len(q) : (q \o c)[i] = q[i]
      /\ \A i \in 1 .. Len(c) : (q \o c)[Len(q) + i] = c[i]
  BY <1>6, InARow
<1>8. Encoded(f) = q \o c
  BY <1>4 DEF q
<1>9. Len(q) = 4 + Len(r)
  BY <1>3, <1>5
<1>10. \A i \in 1 .. Len(q) : Encoded(f)[i] = q[i]
  BY <1>7, <1>8
<1>11. \A i \in 1 .. 4 : q[i] = p[i]
  BY <1>3, <1>5
<1>12. \A i \in 1 .. 4 : Encoded(f)[i] = p[i]
  BY <1>5, <1>9, <1>10, <1>11
<1>13. ASSUME NEW i \in 1 .. Len(r) PROVE Encoded(f)[4 + i] = r[i]
  <2>1. q[4 + i] = r[i] /\ 4 + i \in 1 .. Len(q)
    BY <1>3, <1>5, <1>9
  <2> QED
    BY <1>10, <2>1
<1>14. ASSUME NEW i \in 1 .. 4 PROVE Encoded(f)[4 + Len(r) + i] = c[i]
  BY <1>2, <1>7, <1>8, <1>9
<1>15. Len(Encoded(f)) = 12 + Padded(Len(f.payload))
  BY <1>1, <1>2, <1>7, <1>8, <1>9
<1>16. \A i \in 1 .. Len(r) : Encoded(f)[4 + i] = r[i]
  BY <1>13
<1>17. \A i \in 1 .. 4 : Encoded(f)[4 + Len(r) + i] = c[i]
  BY <1>14
<1>18. /\ Encoded(f)[1] = p[1] /\ Encoded(f)[2] = p[2]
       /\ Encoded(f)[3] = p[3] /\ Encoded(f)[4] = p[4]
  BY <1>12
<1>19. /\ Encoded(f)[1] = AA /\ Encoded(f)[2] = FiveFive
       /\ Encoded(f)[3] = AA /\ Encoded(f)[4] = FiveFive
  BY <1>3, <1>18
<1>20. Encoded(f) \in Seq(Byte)
  BY <1>7, <1>8
<1> QED
  BY <1>15, <1>16, <1>17, <1>19, <1>20 DEF r, c
-----------------------------------------------------------------------------
(* Types                                                                   *)

States == {"HUNT_AA0", "HUNT_55_0", "HUNT_AA_1", "HUNT_55_1", "HEADER", "PAYLOAD", "CRC_BYTES"}

\* Where the parser is in a frame tells how much of it has been stored.
ParserTyped ==
    /\ state \in States /\ region \in Seq(Byte) /\ crc \in Seq(Byte)
    /\ Len(region) <= 4 + Padded(MaxPayload) /\ Len(crc) <= 4
    /\ state = "HEADER" => Len(region) <= 3 /\ crc = <<>>
    /\ state = "PAYLOAD" =>
         /\ Len(region) >= 4 /\ Length(region) \in 1 .. MaxPayload /\ crc = <<>>
         /\ Len(region) < 4 + Padded(Length(region))
    /\ state = "CRC_BYTES" =>
         /\ Length(region) \in 0 .. MaxPayload /\ Len(crc) <= 3
         /\ Len(region) = 4 + Padded(Length(region))

\* What is still to come is the end of the frame.
Gone == Len(Encoded(frame)) - Len(toGo)
OnAir ==
    /\ frame \in Frames /\ toGo \in Seq(Byte) /\ Len(toGo) <= Len(Encoded(frame))
    /\ \A i \in 1 .. Len(toGo) : toGo[i] = Encoded(frame)[Gone + i]

GhostsTyped == insync \in BOOLEAN /\ wrong \in BOOLEAN

\* With ParserTyped and OnAir, the inductive invariant for the types.
Typed == ParserTyped /\ OnAir /\ GhostsTyped

\* A byte more leaves the bytes before it.
LEMMA OneMore ==
    ASSUME NEW s \in Seq(Byte), NEW b \in Byte
    PROVE  /\ Append(s, b) \in Seq(Byte) /\ Len(Append(s, b)) = Len(s) + 1
           /\ Len(s) \in Nat /\ Append(s, b)[Len(s) + 1] = b
           /\ \A i \in 1 .. Len(s) : Append(s, b)[i] = s[i]
           /\ Len(s) >= 4 => Length(Append(s, b)) = Length(s)
<1>1. /\ Append(s, b) \in Seq(Byte) /\ Len(Append(s, b)) = Len(s) + 1
      /\ Len(s) \in Nat /\ Append(s, b)[Len(s) + 1] = b
      /\ \A i \in 1 .. Len(s) : Append(s, b)[i] = s[i]
  OBVIOUS
<1>2. ASSUME Len(s) >= 4 PROVE Length(Append(s, b)) = Length(s)
  <2>1. 3 \in 1 .. Len(s) /\ 4 \in 1 .. Len(s)
    BY <1>1, <1>2
  <2>2. Append(s, b)[3] = s[3] /\ Append(s, b)[4] = s[4]
    BY <1>1, <2>1
  <2> QED
    BY <2>2 DEF Length, LenFlags
<1> QED
  BY <1>1, <1>2

LEMMA MaxPadded ==
    /\ Padded(MaxPayload) \in Nat /\ MaxPayload \in 1 .. 1023
    /\ \A n \in 0 .. MaxPayload : Padded(n) \in Nat /\ Padded(n) <= Padded(MaxPayload)
<1>1. MaxPayload \in 1 .. 1023
  BY WireAssumption
<1>2. MaxPayload \in 0 .. 1023
  BY <1>1
<1>3. ASSUME NEW n \in 0 .. MaxPayload PROVE Padded(n) \in Nat /\ Padded(n) <= Padded(MaxPayload)
  <2>1. n \in 0 .. 1023 /\ MaxPayload \in n .. 1023
    BY <1>1
  <2> QED
    BY <2>1, PaddedLength, PaddedGrows
<1>4. Padded(MaxPayload) \in Nat
  BY <1>2, PaddedLength
<1> QED
  BY <1>1, <1>3, <1>4

\* Whatever byte the parser is fed, it keeps its types.
LEMMA TypedFeed ==
    ASSUME ParserTyped, NEW b \in Byte, Feed(b)
    PROVE  ParserTyped'
<1>1. CASE HuntAA0(b)
  BY <1>1 DEF HuntAA0, Goto, ParserTyped, States
<1>2. CASE Hunt550(b)
  BY <1>2 DEF Hunt550, Goto, ParserTyped, States
<1>3. CASE HuntAA1(b)
  BY <1>3 DEF HuntAA1, Goto, ParserTyped, States
<1>4. CASE Hunt551(b)
  BY <1>4, MaxPadded DEF Hunt551, Goto, ParserTyped, States
<1>5. CASE Header(b)
  <2>1. /\ state = "HEADER" /\ state' = state /\ region' = Append(region, b) /\ crc' = crc
        /\ Len(region) < 3 /\ crc = <<>> /\ region \in Seq(Byte)
    BY <1>5 DEF Header, ParserTyped
  <2>2. region' \in Seq(Byte) /\ Len(region') = Len(region) + 1 /\ Len(region) \in Nat
    BY <2>1, OneMore
  <2> QED
    BY <2>1, <2>2, MaxPadded DEF ParserTyped, States
<1>6. CASE HeaderEnds(b)
  <2>1. /\ state = "HEADER" /\ region' = Append(region, b) /\ crc' = crc
        /\ Len(region) = 3 /\ crc = <<>> /\ region \in Seq(Byte)
    BY <1>6 DEF HeaderEnds, ParserTyped
  <2>2. region' \in Seq(Byte) /\ Len(region') = Len(region) + 1
    BY <2>1, OneMore
  <2>3. Len(region') = 4
    BY <2>1, <2>2
  <2> DEFINE n == Length(region')
  <2>4. n \in 0 .. 1023 /\ MaxPayload \in 1 .. 1023
    <3>1. Len(region') >= 4
      BY <2>3
    <3>2. n \in 0 .. 1023
      BY <2>2, <3>1, LengthBounds
    <3> QED
      BY <3>2, MaxPadded
  <2> HIDE DEF n
  <2>5. /\ ~(n <= MaxPayload) => state' = "HUNT_AA0"
        /\ n <= MaxPayload /\ n = 0 => state' = "CRC_BYTES"
        /\ n <= MaxPayload /\ n # 0 => state' = "PAYLOAD"
    <3>1. state' = CASE ~LengthAllowed(n) -> "HUNT_AA0"
                     [] n = 0 -> "CRC_BYTES"
                     [] OTHER -> "PAYLOAD"
      BY <1>6 DEF HeaderEnds, Goto, n
    <3>2. LengthAllowed(n) <=> n <= MaxPayload
      BY DEF LengthAllowed
    <3>3. ~(n <= MaxPayload) => n # 0
      BY <2>4
    <3> QED
      BY <3>1, <3>2, <3>3
  <2>6. CASE ~(n <= MaxPayload)
    BY <2>1, <2>2, <2>3, <2>5, <2>6, MaxPadded DEF ParserTyped, States
  <2>7. CASE n = 0
    <3>1. Padded(n) = 0 /\ state' = "CRC_BYTES" /\ n \in 0 .. MaxPayload
      BY <2>4, <2>5, <2>7, PaddedLength
    <3> QED
      BY <2>1, <2>2, <2>3, <3>1, MaxPadded DEF ParserTyped, States, n
  <2>8. CASE n <= MaxPayload /\ n # 0
    <3>1. n \in 1 .. MaxPayload /\ n > 0
      BY <2>4, <2>8
    <3>2. Padded(n) \in Nat /\ n <= Padded(n)
      BY <2>4, PaddedLength
    <3>3. 4 < 4 + Padded(n)
      BY <3>1, <3>2
    <3> QED
      BY <2>1, <2>2, <2>3, <2>5, <2>8, <3>1, <3>3, MaxPadded DEF ParserTyped, States, n
  <2> QED
    BY <2>6, <2>7, <2>8
<1>7. CASE Payload(b)
  <2> DEFINE n == Length(region)
  <2>1. /\ state = "PAYLOAD" /\ region' = Append(region, b) /\ crc' = crc
        /\ Len(region) >= 4 /\ crc = <<>> /\ region \in Seq(Byte)
        /\ n \in 1 .. MaxPayload /\ Len(region) < 4 + Padded(n)
        /\ state' = IF Len(region') = 4 + Padded(n) THEN "CRC_BYTES" ELSE "PAYLOAD"
    BY <1>7 DEF Payload, Goto, ParserTyped
  <2>2. /\ region' \in Seq(Byte) /\ Len(region') = Len(region) + 1 /\ Len(region) \in Nat
        /\ Length(region') = n
    BY <2>1, OneMore
  <2>3. Padded(n) \in Nat /\ Padded(n) <= Padded(MaxPayload) /\ n \in 0 .. MaxPayload
    BY <2>1, MaxPadded
  <2> HIDE DEF n
  <2>4. Len(region') <= 4 + Padded(n) /\ Len(region') >= 4 /\ Len(region') <= 4 + Padded(MaxPayload)
    BY <2>1, <2>2, <2>3, MaxPadded
  <2>5. CASE Len(region') = 4 + Padded(n)
    BY <2>1, <2>2, <2>3, <2>4, <2>5 DEF ParserTyped, States
  <2>6. CASE Len(region') # 4 + Padded(n)
    <3>1. Len(region') < 4 + Padded(n)
      BY <2>2, <2>3, <2>4, <2>6
    <3> QED
      BY <2>1, <2>2, <2>3, <2>4, <2>6, <3>1 DEF ParserTyped, States
  <2> QED
    BY <2>5, <2>6
<1>8. CASE CrcByte(b)
  <2>1. /\ state = "CRC_BYTES" /\ crc' = Append(crc, b) /\ region' = region
        /\ Len(crc) <= 3 /\ crc \in Seq(Byte)
        /\ state' = IF Len(crc') = 4 THEN "HUNT_AA0" ELSE "CRC_BYTES"
    BY <1>8 DEF CrcByte, Goto, ParserTyped
  <2>2. crc' \in Seq(Byte) /\ Len(crc') = Len(crc) + 1 /\ Len(crc) \in Nat
    BY <2>1, OneMore
  <2> QED
    BY <2>1, <2>2 DEF ParserTyped, States
<1> QED
  BY <1>1, <1>2, <1>3, <1>4, <1>5, <1>6, <1>7, <1>8 DEF Feed

\* A byte that leaves the air leaves the rest of the frame on it.
LEMMA OneLess ==
    ASSUME OnAir, toGo # <<>>, toGo' = Tail(toGo), frame' = frame
    PROVE  /\ OnAir' /\ Gone' = Gone + 1 /\ Gone \in Nat
           /\ Head(toGo) \in Byte /\ Head(toGo) = Encoded(frame)[Gone + 1]
           /\ Gone + 1 \in 1 .. Len(Encoded(frame))
           /\ Len(toGo) = 1 <=> Gone + 1 = Len(Encoded(frame))
<1>1. /\ Encoded(frame) \in Seq(Byte) /\ Len(Encoded(frame)) \in Nat
      /\ toGo \in Seq(Byte) /\ Len(toGo) \in Nat \ {0} /\ Len(toGo) <= Len(Encoded(frame))
  BY EncodedBytes DEF OnAir
<1>2. /\ Len(toGo') = Len(toGo) - 1 /\ toGo' \in Seq(Byte) /\ Head(toGo) = toGo[1]
      /\ Head(toGo) \in Byte /\ \A i \in 1 .. Len(toGo') : toGo'[i] = toGo[i + 1]
  BY <1>1
<1>3. Gone \in Nat /\ Gone' = Gone + 1 /\ Gone + Len(toGo) = Len(Encoded(frame))
  BY <1>1, <1>2 DEF Gone
<1>4. toGo[1] = Encoded(frame)[Gone + 1]
  BY <1>1 DEF OnAir
<1>5. ASSUME NEW i \in 1 .. Len(toGo') PROVE toGo'[i] = Encoded(frame)[Gone' + i]
  <2>1. i + 1 \in 1 .. Len(toGo) /\ Gone + (i + 1) = Gone' + i
    BY <1>1, <1>2, <1>3
  <2>2. toGo[i + 1] = Encoded(frame)[Gone + (i + 1)]
    BY <2>1 DEF OnAir
  <2> QED
    BY <1>2, <2>1, <2>2
<1>6. OnAir'
  BY <1>1, <1>2, <1>5 DEF OnAir
<1> QED
  BY <1>1, <1>2, <1>3, <1>4, <1>6

\* The types hold initially, and every step keeps them.
LEMMA TypedInit == Init => Typed
<1> SUFFICES ASSUME Init PROVE Typed
  OBVIOUS
<1>1. ParserTyped
  BY MaxPadded DEF Init, ParserTyped, States
<1>2. OnAir
  <2>1. frame \in Frames /\ toGo = <<>> /\ Encoded(frame) \in Seq(Byte)
    BY EncodedBytes DEF Init
  <2> QED
    BY <2>1 DEF OnAir
<1> QED
  BY <1>1, <1>2 DEF Init, Typed, GhostsTyped

LEMMA TypedStep == Typed /\ [Next]_vars => Typed'
<1> SUFFICES ASSUME Typed, [Next]_vars PROVE Typed'
  OBVIOUS
<1> USE DEF parserVars
<1>1. CASE UNCHANGED vars
  BY <1>1 DEF vars, ghostVars, Typed, ParserTyped, OnAir, Gone, GhostsTyped
<1>2. ASSUME NEW f \in Frames, Send(f) PROVE Typed'
  <2>1. ParserTyped' /\ GhostsTyped'
    BY <1>2 DEF Send, Typed, ParserTyped, GhostsTyped
  <2>2. /\ frame' = f /\ toGo' = Encoded(f) /\ Encoded(f) \in Seq(Byte)
        /\ Len(Encoded(f)) \in Nat
    BY <1>2, EncodedBytes DEF Send
  <2>3. Gone' = 0
    BY <2>2 DEF Gone
  <2>4. ASSUME NEW i \in 1 .. Len(toGo') PROVE toGo'[i] = Encoded(frame')[Gone' + i]
    BY <2>2, <2>3
  <2>5. OnAir'
    BY <2>2, <2>4 DEF OnAir
  <2> QED
    BY <2>1, <2>5 DEF Typed
<1>3. CASE Arrive
  <2>1. OnAir' /\ Head(toGo) \in Byte
    BY <1>3, OneLess DEF Arrive, Typed
  <2>2. ParserTyped'
    BY <1>3, <2>1, TypedFeed DEF Arrive, Typed
  <2>3. GhostsTyped'
    BY <1>3 DEF Arrive, Typed, GhostsTyped, Completes
  <2> QED
    BY <2>1, <2>2, <2>3 DEF Typed
<1>4. CASE Lose
  <2>1. OnAir'
    BY <1>4, OneLess DEF Lose, Typed
  <2>2. ParserTyped' /\ GhostsTyped'
    BY <1>4 DEF Lose, Fault, Typed, ParserTyped, GhostsTyped
  <2> QED
    BY <2>1, <2>2 DEF Typed
<1>5. ASSUME NEW b \in Garbage, Stray(b) PROVE Typed'
  <2>1. b \in Byte
    BY WireAssumption
  <2>2. ParserTyped'
    BY <1>5, <2>1, TypedFeed DEF Stray, Typed
  <2>3. OnAir'
    <3>1. frame' = frame /\ (toGo' = toGo \/ (toGo # <<>> /\ toGo' = Tail(toGo)))
      BY <1>5 DEF Stray
    <3>2. CASE toGo' = toGo
      BY <3>1, <3>2 DEF Typed, OnAir, Gone
    <3> QED
      BY <3>1, <3>2, OneLess DEF Typed
  <2>4. GhostsTyped'
    BY <1>5 DEF Stray, Fault, Typed, GhostsTyped, Completes
  <2> QED
    BY <2>2, <2>3, <2>4 DEF Typed
<1> QED
  BY <1>1, <1>2, <1>3, <1>4, <1>5 DEF Next

\* In every state, whatever the light path does, the parser's buffers hold what its state
\* says: never more than a region of the greatest length (_crc_buf), nor four bytes of
\* checksum.
THEOREM TypeCorrect == Spec => []TypeOK
<1>1. Typed => TypeOK
  <2> SUFFICES ASSUME Typed PROVE TypeOK
    OBVIOUS
  <2>1. \A i \in DOMAIN region : region[i] \in Byte
    BY DEF Typed, ParserTyped
  <2> QED
    BY <2>1 DEF Typed, ParserTyped, TypeOK, States
<1> QED
  BY <1>1, TypedInit, TypedStep, PTL DEF Spec

-----------------------------------------------------------------------------
(* In step                                                                 *)

Prefix(s, t) == Len(s) <= Len(t) /\ \A i \in 1 .. Len(s) : s[i] = t[i]
Stored(n) == Len(region) = n /\ Prefix(region, Region(frame)) /\ crc = <<>>

\* The parser's place in the frame is the sender's, and what it has stored is what has
\* been sent.
Place ==
    \/ (Gone = 0 \/ toGo = <<>>) /\ state = "HUNT_AA0"
    \/ Gone = 1 /\ state = "HUNT_55_0"
    \/ Gone = 2 /\ state = "HUNT_AA_1"
    \/ Gone = 3 /\ state = "HUNT_55_1"
    \/ Gone \in 4 .. 7 /\ state = "HEADER" /\ Stored(Gone - 4)
    \/ Gone \in 8 .. 3 + Len(Region(frame)) /\ state = "PAYLOAD" /\ Stored(Gone - 4)
    \/ /\ Gone \in 4 + Len(Region(frame)) .. 7 + Len(Region(frame)) /\ state = "CRC_BYTES"
       /\ region = Region(frame)
       /\ Len(crc) = Gone - 4 - Len(region) /\ Prefix(crc, Crc(region))

\* With Typed, the inductive invariant.
InStep == insync /\ ~wrong => missed = 0 /\ Place

\* The next byte of t makes a longer prefix of it, the last one t itself.
LEMMA LongerPrefix ==
    ASSUME NEW s \in Seq(Byte), NEW t \in Seq(Byte), NEW b \in Byte,
           Prefix(s, t), Len(s) < Len(t), b = t[Len(s) + 1]
    PROVE  /\ Append(s, b) \in Seq(Byte) /\ Len(Append(s, b)) = Len(s) + 1 /\ Len(s) \in Nat
           /\ Prefix(Append(s, b), t)
<1> DEFINE a == Append(s, b)
<1>1. /\ a \in Seq(Byte) /\ Len(a) = Len(s) + 1 /\ Len(s) \in Nat /\ a[Len(s) + 1] = b
      /\ \A i \in 1 .. Len(s) : a[i] = s[i]
  BY OneMore
<1> HIDE DEF a
<1>2. ASSUME NEW i \in 1 .. Len(a) PROVE a[i] = t[i]
  <2>1. i \in 1 .. Len(s) \/ i = Len(s) + 1
    BY <1>1
  <2>2. CASE i \in 1 .. Len(s)
    BY <1>1, <2>2 DEF Prefix
  <2>3. CASE i = Len(s) + 1
    BY <1>1, <2>3
  <2> QED
    BY <2>1, <2>2, <2>3
<1>3. Len(a) <= Len(t)
  BY <1>1
<1> QED
  BY <1>1, <1>2, <1>3 DEF Prefix, a

LEMMA WholePrefix ==
    ASSUME NEW s \in Seq(Byte), NEW t \in Seq(Byte), Prefix(s, t), Len(s) = Len(t)
    PROVE  s = t
BY SeqEqual DEF Prefix

\* What is decoded of a frame's region is the frame.
LEMMA DecodedFrame ==
    ASSUME frame \in Frames, region = Region(frame)
    PROVE  Decoded = frame
<1> DEFINE n == Len(frame.payload)
           r == Region(frame)
<1>0. frame.flags \in Flags /\ frame.payload \in Seq(Byte)
  BY FrameFields
<1>1. n \in 0 .. 1023
  BY FrameFields
<1>2. /\ r \in Seq(Byte) /\ Len(r) = 4 + Padded(n) /\ LenFlags(r) = frame.flags * LengthMask + n
      /\ r[1] + 256 * r[2] = frame.id
      /\ \A i \in 1 .. n : r[4 + i] = frame.payload[i]
  BY RegionBytes
<1>3. Padded(n) \in Nat /\ n <= Padded(n)
  BY FrameFields
<1> HIDE DEF n, r
<1>4. Length(r) = n /\ LenFlags(r) \div LengthMask = frame.flags
  <2> DEFINE w == frame.flags * LengthMask + n
  <2>1. w % LengthMask = n /\ w \div LengthMask = frame.flags
    BY <1>0, <1>1, WordFields
  <2>2. LenFlags(r) = w
    BY <1>2
  <2> HIDE DEF w
  <2> QED
    BY <2>1, <2>2 DEF Length
<1> DEFINE p == SubSeq(r, 5, 4 + n)
<1>5. p \in Seq(Byte) /\ Len(p) = n /\ \A i \in 1 .. n : p[i] = r[4 + i]
  <2>1. ASSUME NEW i \in 5 .. 4 + n PROVE r[i] \in Byte
    <3>1. i \in 1 .. Len(r)
      BY <1>1, <1>2, <1>3
    <3> QED
      BY <1>2, <3>1
  <2>2. Len(p) = n /\ \A i \in 1 .. n : p[i] = r[4 + i]
    <3>1. Len(p) = IF 5 <= 4 + n THEN (4 + n) - 5 + 1 ELSE 0
      BY <1>1, <1>2
    <3>2. ASSUME NEW i \in 1 .. n PROVE p[i] = r[4 + i]
      <4>1. p[i] = r[5 + i - 1]
        BY <1>1, <1>2
      <4>2. 5 + i - 1 = 4 + i
        BY <1>1
      <4> QED
        BY <4>1, <4>2
    <3> QED
      BY <1>1, <3>1, <3>2
  <2>3. p \in Seq(Byte)
    BY <1>1, <1>2, <1>3, <2>1, SubSeqProperties
  <2> QED
    BY <2>2, <2>3
<1> HIDE DEF p
<1>6. p = frame.payload
  <2>1. Len(p) = Len(frame.payload) /\ \A i \in 1 .. Len(p) : p[i] = frame.payload[i]
    <3>1. \A i \in 1 .. Len(p) : p[i] = frame.payload[i]
      BY <1>2, <1>5
    <3> QED
      BY <1>5, <3>1 DEF n
  <2> QED
    BY <1>0, <1>5, <2>1, SeqEqual
<1>7. Decoded = [id |-> frame.id, flags |-> frame.flags, payload |-> frame.payload]
  <2>1. Decoded = [id |-> r[1] + 256 * r[2], flags |-> LenFlags(r) \div LengthMask,
                   payload |-> SubSeq(r, 5, 4 + Length(r))]
    BY DEF Decoded, r
  <2> QED
    BY <1>2, <1>4, <1>6, <2>1 DEF p
<1>8. frame \in [id : Word16, flags : Flags, payload : Seq(Byte)]
  BY WireAssumption
<1> QED
  BY <1>7, <1>8

\* Hunting, the parser follows the preamble.
LEMMA PreambleStep ==
    ASSUME Typed, Place, NEW b, Feed(b), Gone \in 0 .. 3, Gone' = Gone + 1, toGo # <<>>,
           b = Encoded(frame)[Gone + 1], frame' = frame
    PROVE  Place' /\ state # "CRC_BYTES"
<1>1. /\ Encoded(frame)[1] = 170 /\ Encoded(frame)[2] = 85
      /\ Encoded(frame)[3] = 170 /\ Encoded(frame)[4] = 85
  BY EncodedBytes DEF Typed, OnAir, AA, FiveFive
<1>2. Len(Region(frame)) \in Nat /\ Len(Region(frame)) >= 4
  <2>1. frame \in Frames
    BY DEF Typed, OnAir
  <2>2. Len(Region(frame)) = 4 + Padded(Len(frame.payload))
    BY <2>1, RegionBytes
  <2>3. Padded(Len(frame.payload)) \in Nat
    BY <2>1, FrameFields
  <2> QED
    BY <2>2, <2>3
<1>3. CASE Gone = 0
  <2>1. state = "HUNT_AA0" /\ b = 170
    BY <1>1, <1>2, <1>3 DEF Place
  <2>2. state' = "HUNT_55_0"
    BY <2>1 DEF Feed, HuntAA0, Hunt550, HuntAA1, Hunt551, Header, HeaderEnds, Payload, CrcByte,
                Goto, AA
  <2> QED
    BY <1>3, <2>1, <2>2 DEF Place
<1>4. CASE Gone = 1
  <2>1. state = "HUNT_55_0" /\ b = 85
    BY <1>1, <1>2, <1>4 DEF Place
  <2>2. state' = "HUNT_AA_1"
    BY <2>1 DEF Feed, HuntAA0, Hunt550, HuntAA1, Hunt551, Header, HeaderEnds, Payload, CrcByte,
                Goto, AA, FiveFive
  <2> QED
    BY <1>4, <2>1, <2>2 DEF Place
<1>5. CASE Gone = 2
  <2>1. state = "HUNT_AA_1" /\ b = 170
    BY <1>1, <1>2, <1>5 DEF Place
  <2>2. state' = "HUNT_55_1"
    BY <2>1 DEF Feed, HuntAA0, Hunt550, HuntAA1, Hunt551, Header, HeaderEnds, Payload, CrcByte,
                Goto, AA
  <2> QED
    BY <1>5, <2>1, <2>2 DEF Place
<1>6. CASE Gone = 3
  <2>1. state = "HUNT_55_1" /\ b = 85
    BY <1>1, <1>2, <1>6 DEF Place
  <2>2. state' = "HEADER" /\ region' = <<>> /\ crc' = <<>>
    BY <2>1 DEF Feed, HuntAA0, Hunt550, HuntAA1, Hunt551, Header, HeaderEnds, Payload, CrcByte,
                Goto, AA, FiveFive
  <2>3. Stored(0)'
    BY <1>2, <2>2 DEF Stored, Prefix
  <2>4. Gone' = 4
    BY <1>6
  <2> QED
    BY <2>1, <2>2, <2>3, <2>4 DEF Place
<1> QED
  BY <1>3, <1>4, <1>5, <1>6

\* In the region the parser stores what was sent, and the header's length, which the
\* sender put there, says where the region ends.
LEMMA RegionStep ==
    ASSUME Typed, Place, NEW b \in Byte, Feed(b), toGo # <<>>, Gone' = Gone + 1,
           Gone \in 4 .. 3 + Len(Region(frame)), b = Encoded(frame)[Gone + 1], frame' = frame
    PROVE  Place' /\ state # "CRC_BYTES"
<1> DEFINE r == Region(frame)
           n == Len(frame.payload)
<1>1. /\ r \in Seq(Byte) /\ Len(r) = 4 + Padded(n) /\ n \in 0 .. MaxPayload
      /\ n \in 0 .. 1023 /\ LenFlags(r) = frame.flags * LengthMask + n /\ frame.flags \in Flags
  <2>1. frame \in Frames
    BY DEF Typed, OnAir
  <2>2. /\ r \in Seq(Byte) /\ Len(r) = 4 + Padded(n)
        /\ LenFlags(r) = frame.flags * LengthMask + n
    BY <2>1, RegionBytes
  <2>3. n \in 0 .. MaxPayload
    BY <2>1, FrameFields
  <2>4. n \in 0 .. 1023
    BY <2>1, FrameFields
  <2>5. frame.flags \in Flags
    BY <2>1, FrameFields
  <2> QED
    BY <2>2, <2>3, <2>4, <2>5
<1>2. Length(r) = n
  <2>1. (frame.flags * LengthMask + n) % LengthMask = n
    BY <1>1, WordFields
  <2>2. LenFlags(r) % LengthMask = n
    BY <1>1, <2>1
  <2> QED
    BY <2>2 DEF Length
<1>3. \A i \in 1 .. Len(r) : Encoded(frame)[4 + i] = r[i]
  BY EncodedBytes DEF Typed, OnAir
<1> HIDE DEF n, r
<1>4. Padded(n) \in Nat /\ n <= Padded(n) /\ (n = 0 => Padded(n) = 0)
  BY <1>1, PaddedLength
<1>5. Gone \in 4 .. 3 + Len(r) /\ Len(r) \in Nat /\ Len(r) >= 4
  BY <1>1, <1>4 DEF r
<1>6. /\ state = IF Gone <= 7 THEN "HEADER" ELSE "PAYLOAD"
      /\ Len(region) = Gone - 4 /\ Prefix(region, r) /\ crc = <<>> /\ region \in Seq(Byte)
  <2>1. /\ state = IF Gone <= 7 THEN "HEADER" ELSE "PAYLOAD"
        /\ Stored(Gone - 4)
    <3>1. ~(Gone = 0 \/ toGo = <<>>) /\ ~(Gone = 1) /\ ~(Gone = 2) /\ ~(Gone = 3)
          /\ ~(Gone \in 4 + Len(r) .. 7 + Len(r))
      BY <1>5
    <3>2. CASE Gone <= 7
      <4>1. ~(Gone \in 8 .. 3 + Len(r))
        BY <1>5, <3>2
      <4> QED
        BY <3>1, <3>2, <4>1 DEF Place, r
    <3>3. CASE ~(Gone <= 7)
      <4>1. ~(Gone \in 4 .. 7)
        BY <3>3
      <4> QED
        BY <3>1, <3>3, <4>1 DEF Place, r
    <3> QED
      BY <3>2, <3>3
  <2> QED
    BY <2>1 DEF Stored, Typed, ParserTyped, r
<1>7. region' = Append(region, b) /\ crc' = crc
  BY <1>6 DEF Feed, HuntAA0, Hunt550, HuntAA1, Hunt551, Header, HeaderEnds, Payload, CrcByte
<1>8. b = r[Len(region) + 1] /\ Len(region) < Len(r)
  <2>1. Len(region) + 1 \in 1 .. Len(r) /\ 4 + (Len(region) + 1) = Gone + 1
    BY <1>5, <1>6
  <2>2. Encoded(frame)[4 + (Len(region) + 1)] = r[Len(region) + 1]
    BY <1>3, <2>1
  <2> QED
    BY <2>1, <2>2
<1>9. region' \in Seq(Byte) /\ Len(region') = Gone - 3 /\ Prefix(region', r)
  <2>1. /\ Append(region, b) \in Seq(Byte) /\ Len(Append(region, b)) = Len(region) + 1
        /\ Prefix(Append(region, b), r)
    BY <1>1, <1>6, <1>8, LongerPrefix
  <2> QED
    BY <1>5, <1>6, <1>7, <2>1
<1>10. Stored(Gone - 4)'
  <2>1. Gone' - 4 = Gone - 3
    BY <1>5
  <2>2. Len(region') = Gone' - 4 /\ crc' = <<>>
    BY <1>6, <1>7, <1>9, <2>1
  <2> QED
    BY <1>9, <2>2 DEF Stored, r
<1>11. ASSUME Gone' = 4 + Len(r) PROVE region' = r
  <2>1. Len(region') = Len(r)
    BY <1>5, <1>9, <1>11
  <2> QED
    BY <1>1, <1>9, <2>1, WholePrefix
<1>12. CASE Gone < 7
  <2>1. state' = "HEADER"
    BY <1>5, <1>6, <1>12 DEF Feed, HuntAA0, Hunt550, HuntAA1, Hunt551, Header, HeaderEnds,
                             Payload, CrcByte
  <2>2. Gone' \in 4 .. 7
    BY <1>5, <1>12
  <2> QED
    BY <1>6, <1>10, <2>1, <2>2 DEF Place
<1>13. CASE Gone >= 7
  <2>1. /\ Len(region') >= 4 /\ 3 \in 1 .. Len(region') /\ 4 \in 1 .. Len(region')
    BY <1>5, <1>9, <1>13
  <2>2. Length(region') = n
    <3>1. region'[3] = r[3] /\ region'[4] = r[4]
      BY <1>9, <2>1 DEF Prefix
    <3> QED
      BY <1>2, <3>1 DEF Length, LenFlags
  <2>3. state' = IF Gone' = 4 + Len(r) THEN "CRC_BYTES" ELSE "PAYLOAD"
    <3>1. CASE Gone = 7
      <4>1. state = "HEADER" /\ Len(region) = 3
        BY <1>6, <3>1
      <4>2. HeaderEnds(b)
        BY <4>1 DEF Feed, HuntAA0, Hunt550, HuntAA1, Hunt551, Header, Payload, CrcByte
      <4>3. LengthAllowed(Length(region'))
        BY <1>1, <2>2, MaxPadded DEF LengthAllowed
      <4>4. state' = IF n = 0 THEN "CRC_BYTES" ELSE "PAYLOAD"
        BY <2>2, <4>2, <4>3 DEF HeaderEnds, Goto
      <4>5. n = 0 <=> Gone' = 4 + Len(r)
        BY <1>1, <1>4, <3>1
      <4> QED
        BY <4>4, <4>5
    <3>2. CASE Gone > 7
      <4>1. state = "PAYLOAD"
        BY <1>5, <1>6, <3>2
      <4>2. Payload(b)
        BY <4>1 DEF Feed, HuntAA0, Hunt550, HuntAA1, Hunt551, Header, HeaderEnds, CrcByte
      <4>3. Length(region) = n
        <5>1. Len(region) >= 4
          BY <1>5, <1>6, <3>2
        <5>2. Length(Append(region, b)) = Length(region)
          BY <1>6, <5>1, OneMore
        <5> QED
          BY <1>7, <2>2, <5>2
      <4>4. state' = IF Len(region') = 4 + Padded(n) THEN "CRC_BYTES" ELSE "PAYLOAD"
        BY <4>2, <4>3 DEF Payload, Goto
      <4>5. Len(region') = 4 + Padded(n) <=> Gone' = 4 + Len(r)
        BY <1>1, <1>4, <1>5, <1>9
      <4> QED
        BY <4>4, <4>5
    <3> QED
      BY <1>5, <1>13, <3>1, <3>2
  <2>4. state # "CRC_BYTES"
    BY <1>6
  <2>5. CASE Gone' = 4 + Len(r)
    <3>1. region' = r /\ state' = "CRC_BYTES" /\ crc' = <<>>
      BY <1>6, <1>7, <1>11, <2>3, <2>5
    <3>2. Gone' \in 4 + Len(r) .. 7 + Len(r) /\ Len(crc') = Gone' - 4 - Len(region')
      BY <1>5, <2>5, <3>1
    <3>3. Prefix(crc', Crc(r))
      <4>1. Len(Crc(r)) = 4
        BY CrcAssumption DEF r, Typed, OnAir
      <4> QED
        BY <3>1, <4>1 DEF Prefix
    <3> QED
      BY <2>4, <3>1, <3>2, <3>3 DEF Place, r
  <2>6. CASE Gone' # 4 + Len(r)
    <3>1. Gone' \in 8 .. 3 + Len(r)
      BY <1>5, <1>13, <2>6
    <3> QED
      BY <1>10, <2>3, <2>4, <2>6, <3>1 DEF Place, r
  <2> QED
    BY <2>5, <2>6
<1> QED
  BY <1>5, <1>12, <1>13

\* In the checksum it compares, and a frame in step passes at its last byte, and only there.
LEMMA ChecksumStep ==
    ASSUME Typed, Place, NEW b \in Byte, Feed(b), toGo # <<>>, Gone' = Gone + 1,
           Gone \in 4 + Len(Region(frame)) .. 7 + Len(Region(frame)),
           b = Encoded(frame)[Gone + 1], frame' = frame,
           Gone + 1 = Len(Encoded(frame)) => toGo' = <<>>
    PROVE  /\ Place' /\ region = Region(frame)
           /\ Completes(b) <=> Gone + 1 = Len(Encoded(frame))
<1> DEFINE r == Region(frame)
           c == Crc(Region(frame))
<1>1. frame \in Frames
  BY DEF Typed, OnAir
<1>2. /\ c \in Seq(Byte) /\ Len(c) = 4
      /\ \A i \in 1 .. 4 : Encoded(frame)[4 + Len(r) + i] = c[i]
  BY <1>1, CrcAssumption, EncodedBytes
<1>3. Len(Encoded(frame)) = 8 + Len(r) /\ Len(r) \in Nat /\ Len(r) >= 4
  <2>1. Len(r) = 4 + Padded(Len(frame.payload))
    BY <1>1, RegionBytes
  <2>2. Len(Encoded(frame)) = 12 + Padded(Len(frame.payload))
    BY <1>1, EncodedBytes
  <2>3. Padded(Len(frame.payload)) \in Nat
    BY <1>1, FrameFields
  <2> QED
    BY <2>1, <2>2, <2>3
<1> HIDE DEF r, c
<1>4. Gone \in 4 + Len(r) .. 7 + Len(r)
  BY DEF r
<1>5. /\ state = "CRC_BYTES" /\ region = r /\ Len(crc) = Gone - 4 - Len(r)
      /\ Prefix(crc, c) /\ crc \in Seq(Byte)
  <2>1. /\ ~(Gone = 0 \/ toGo = <<>>) /\ ~(Gone = 1) /\ ~(Gone = 2) /\ ~(Gone = 3)
        /\ ~(Gone \in 4 .. 7) /\ ~(Gone \in 8 .. 3 + Len(r))
    BY <1>3, <1>4
  <2> QED
    BY <2>1 DEF Place, Typed, ParserTyped, r, c
<1>6. CrcByte(b)
  BY <1>5 DEF Feed, HuntAA0, Hunt550, HuntAA1, Hunt551, Header, HeaderEnds, Payload
<1>7. /\ crc' = Append(crc, b) /\ region' = region
      /\ state' = IF Len(crc') = 4 THEN "HUNT_AA0" ELSE "CRC_BYTES"
  BY <1>6 DEF CrcByte, Goto
<1>8. b = c[Len(crc) + 1] /\ Len(crc) < Len(c) /\ Len(crc) \in 0 .. 3
  <2>1. Len(crc) + 1 \in 1 .. 4 /\ 4 + Len(r) + (Len(crc) + 1) = Gone + 1
    BY <1>3, <1>4, <1>5
  <2>2. Encoded(frame)[4 + Len(r) + (Len(crc) + 1)] = c[Len(crc) + 1]
    BY <1>2, <2>1
  <2>3. Len(crc) \in 0 .. 3 /\ Len(crc) < Len(c)
    BY <1>2, <1>3, <1>4, <1>5
  <2> QED
    BY <2>1, <2>2, <2>3
<1> DEFINE d == Append(crc, b)
<1>9. /\ d \in Seq(Byte) /\ Len(d) = Len(crc) + 1 /\ Prefix(d, c)
  BY <1>2, <1>5, <1>8, LongerPrefix
<1> HIDE DEF d
<1>10. Len(d) = 4 <=> Gone + 1 = Len(Encoded(frame))
  BY <1>3, <1>4, <1>5, <1>9
<1>11. Len(d) = 4 => d = c
  BY <1>2, <1>9, WholePrefix
<1>12. Completes(b) <=> Len(d) = 4
  <2>1. Len(crc) = 3 <=> Len(d) = 4
    <3>1. Len(d) = Len(crc) + 1
      BY <1>9
    <3>2. Len(crc) \in Nat
      BY <1>8
    <3>3. \A m \in Nat : m = 3 <=> m + 1 = 4
      OBVIOUS
    <3> QED
      BY <3>1, <3>2, <3>3
  <2>2. CrcMatches(d) <=> d = c
    BY <1>5 DEF CrcMatches, r, c
  <2> QED
    BY <1>5, <1>11, <2>1, <2>2 DEF Completes, d
<1>13. Place'
  <2>1. CASE Len(d) = 4
    <3>1. state' = "HUNT_AA0" /\ toGo' = <<>>
      BY <1>7, <1>10, <2>1 DEF d
    <3> QED
      BY <3>1 DEF Place
  <2>2. CASE Len(d) # 4
    <3>1. state' = "CRC_BYTES" /\ crc' = d /\ region' = r
      BY <1>5, <1>7, <2>2 DEF d
    <3>2. Gone' \in 4 + Len(r) .. 7 + Len(r)
      BY <1>3, <1>4, <1>10, <2>2
    <3>3. Len(crc') = Gone' - 4 - Len(region')
      BY <1>3, <1>4, <1>5, <1>9, <3>1
    <3>4. Prefix(crc', Crc(region'))
      BY <1>9, <3>1 DEF c, r
    <3> QED
      BY <3>1, <3>2, <3>3, <3>4 DEF Place, r
  <2> QED
    BY <2>1, <2>2
<1> QED
  BY <1>5, <1>10, <1>12, <1>13 DEF r

\* A byte that arrives finds the parser where the sender is, and leaves it there.
LEMMA InStepArrive ==
    ASSUME Typed, Place, Arrive
    PROVE  /\ Place' /\ (Completes(Head(toGo)) <=> Len(toGo) = 1)
           /\ Len(toGo) = 1 => Decoded = frame
<1> DEFINE b == Head(toGo)
           l == Len(Region(frame))
<1>1. toGo # <<>> /\ toGo' = Tail(toGo) /\ frame' = frame /\ Feed(b)
  BY DEF Arrive
<1>2. /\ Gone' = Gone + 1 /\ Gone \in Nat /\ b \in Byte /\ b = Encoded(frame)[Gone + 1]
      /\ Gone + 1 \in 1 .. Len(Encoded(frame))
      /\ Len(toGo) = 1 <=> Gone + 1 = Len(Encoded(frame))
  BY <1>1, OneLess DEF Typed
<1>3. frame \in Frames /\ toGo \in Seq(Byte)
  BY DEF Typed, OnAir
<1>4. Len(Encoded(frame)) = 8 + l /\ l \in Nat /\ l >= 4
  <2>1. l = 4 + Padded(Len(frame.payload))
    BY <1>3, RegionBytes
  <2>2. Len(Encoded(frame)) = 12 + Padded(Len(frame.payload))
    BY <1>3, EncodedBytes
  <2>3. Padded(Len(frame.payload)) \in Nat
    BY <1>3, FrameFields
  <2> QED
    BY <2>1, <2>2, <2>3
<1>5. Gone + 1 = Len(Encoded(frame)) => toGo' = <<>>
  BY <1>1, <1>2, <1>3
<1> HIDE DEF b, l
<1>6. CASE Gone \in 0 .. 3
  <2>1. Place' /\ state # "CRC_BYTES"
    BY <1>1, <1>2, <1>6, PreambleStep
  <2>2. Gone + 1 # Len(Encoded(frame))
    BY <1>4, <1>6
  <2> QED
    BY <1>2, <2>1, <2>2 DEF Completes, b
<1>7. CASE Gone \in 4 .. 3 + l
  <2>1. Place' /\ state # "CRC_BYTES"
    BY <1>1, <1>2, <1>7, RegionStep DEF l
  <2>2. Gone + 1 # Len(Encoded(frame))
    BY <1>4, <1>7
  <2> QED
    BY <1>2, <2>1, <2>2 DEF Completes, b
<1>8. CASE Gone \in 4 + l .. 7 + l
  <2>1. /\ Place' /\ region = Region(frame)
        /\ Completes(b) <=> Gone + 1 = Len(Encoded(frame))
    BY <1>1, <1>2, <1>5, <1>8, ChecksumStep DEF l
  <2> QED
    BY <1>2, <1>3, <2>1, DecodedFrame DEF b
<1>9. Gone \in 0 .. 3 \/ Gone \in 4 .. 3 + l \/ Gone \in 4 + l .. 7 + l
  BY <1>2, <1>4
<1> QED
  BY <1>6, <1>7, <1>8, <1>9

\* Every step keeps the parser in step.
LEMMA InStepStep ==
    ASSUME Typed, InStep, [Next]_vars
    PROVE  InStep'
<1> USE DEF parserVars
<1>1. CASE UNCHANGED vars
  BY <1>1 DEF vars, ghostVars, InStep, Place, Stored, Gone
<1>2. ASSUME NEW f \in Frames, Send(f), insync', ~wrong' PROVE missed' = 0 /\ Place'
  <2>1. /\ toGo = <<>> /\ frame' = f /\ toGo' = Encoded(f)
        /\ UNCHANGED <<state, region, crc, insync, missed, wrong>>
    BY <1>2 DEF Send
  <2>2. missed = 0 /\ Place
    BY <1>2, <2>1 DEF InStep
  <2>3. Gone' = 0
    <3>1. Len(Encoded(f)) \in Nat
      BY EncodedBytes
    <3> QED
      BY <2>1, <3>1 DEF Gone
  <2>4. state = "HUNT_AA0"
    <3>1. frame \in Frames
      BY DEF Typed, OnAir
    <3>2. Len(Region(frame)) = 4 + Padded(Len(frame.payload))
      BY <3>1, RegionBytes
    <3>3. Len(Encoded(frame)) = 12 + Padded(Len(frame.payload))
      BY <3>1, EncodedBytes
    <3>4. Padded(Len(frame.payload)) \in Nat
      BY <3>1, FrameFields
    <3>5. Gone = 8 + Len(Region(frame)) /\ Len(Region(frame)) \in Nat
      BY <2>1, <3>2, <3>3, <3>4 DEF Gone
    <3> QED
      BY <2>2, <3>5 DEF Place
  <2> QED
    BY <2>1, <2>2, <2>3, <2>4 DEF Place
<1>3. ASSUME Arrive, insync', ~wrong' PROVE missed' = 0 /\ Place'
  <2>1. /\ toGo # <<>> /\ toGo' = Tail(toGo) /\ ~wrong
        /\ Completes(Head(toGo)) => Len(toGo) = 1 /\ missed' = 0
        /\ insync \/ Completes(Head(toGo))
        /\ ~Completes(Head(toGo)) /\ Len(toGo) # 1 => missed' = missed
        /\ Feed(Head(toGo))
    BY <1>3 DEF Arrive, Completes
  <2>2. CASE insync
    BY <1>3, <2>1, <2>2, InStepArrive DEF InStep
  <2>3. CASE ~insync
    <3>1. Completes(Head(toGo)) /\ Len(toGo) = 1
      BY <2>1, <2>3
    <3>2. toGo' = <<>>
      BY <2>1, <3>1 DEF Typed, OnAir
    <3>3. state' = "HUNT_AA0"
      <4>1. state = "CRC_BYTES" /\ Len(crc) = 3 /\ Head(toGo) \in Byte /\ crc \in Seq(Byte)
        BY <2>1, <3>1, OneLess DEF Completes, Typed, ParserTyped, OnAir
      <4>2. CrcByte(Head(toGo))
        BY <2>1, <4>1 DEF Feed, HuntAA0, Hunt550, HuntAA1, Hunt551, Header, HeaderEnds, Payload
      <4>3. Len(crc') = 4
        <5>1. crc' = Append(crc, Head(toGo))
          BY <4>2 DEF CrcByte
        <5>2. Len(crc') = Len(crc) + 1
          BY <4>1, <5>1, OneMore
        <5> QED
          BY <4>1, <5>2
      <4> QED
        BY <4>2, <4>3 DEF CrcByte, Goto
    <3> QED
      BY <2>1, <3>1, <3>2, <3>3 DEF Place
  <2> QED
    BY <2>2, <2>3
<1>4. ASSUME Lose \/ \E b \in Garbage : Stray(b) PROVE ~insync'
  BY <1>4 DEF Lose, Stray, Fault
<1> QED
  BY <1>1, <1>2, <1>3, <1>4 DEF Next, InStep

LEMMA InStepInit == Init => InStep
BY DEF Init, InStep, Place

\* As long as no garbage has passed for a frame (NoFalseFrame, the checksum's business),
\* a parser in step loses nothing: whatever the payloads contain.
THEOREM InStepNothingIsLost == Spec => [](NoFalseFrame => InSyncLosesNothing)
<1>1. InStep => (NoFalseFrame => InSyncLosesNothing)
  BY DEF InStep, NoFalseFrame, InSyncLosesNothing
<1> QED
  BY <1>1, TypedInit, TypedStep, InStepInit, InStepStep, PTL DEF Spec

\* A parser in step delivers a frame with the last byte of each frame that is sent, and
\* with no other byte; and what it delivers then is that frame: feed takes apart what
\* build_frame put together.
DeliversWhatWasSent ==
    [][Arrive /\ insync /\ ~wrong
       => /\ Completes(Head(toGo)) <=> Len(toGo) = 1
          /\ Completes(Head(toGo)) => Decoded = frame]_vars

THEOREM ParserInvertsBuild == Spec => DeliversWhatWasSent
<1>1. Typed /\ InStep /\ [Next]_vars
      => [Arrive /\ insync /\ ~wrong
          => /\ Completes(Head(toGo)) <=> Len(toGo) = 1
             /\ Completes(Head(toGo)) => Decoded = frame]_vars
  <2> SUFFICES ASSUME Typed, InStep, Arrive, insync, ~wrong
               PROVE  /\ Completes(Head(toGo)) <=> Len(toGo) = 1
                      /\ Completes(Head(toGo)) => Decoded = frame
    OBVIOUS
  <2> QED
    BY InStepArrive DEF InStep
<1> QED
  BY <1>1, TypedInit, TypedStep, InStepInit, InStepStep, PTL DEF Spec, DeliversWhatWasSent
====
