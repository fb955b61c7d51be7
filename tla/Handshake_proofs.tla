---- MODULE Handshake_proofs ----
(***************************************************************************)
(* A tool that goes to work does so with the configuration it asked for,   *)
(* and reads its own answers, whatever runs before it were interrupted:    *)
(* for every length of a frame and of a chunk, every payload and any       *)
(* number of runs. And a modem that a Ctrl-C has left in the middle of a   *)
(* command swallows two commands a run until that command is complete,     *)
(* which bounds the handshakes it can refuse.                              *)
(***************************************************************************)
EXTENDS Handshake, FiniteSetTheorems, SequenceTheorems, TLAPS

-----------------------------------------------------------------------------
(* What the modem has read of a command, and what is under way to it       *)

Seen ==
    CASE cstate = "SOF" -> <<>>
      [] cstate = "TYPE" -> <<USB_SOF>>
      [] cstate = "LEN_LO" -> <<USB_SOF, ctype>>
      [] cstate = "LEN_HI" -> <<USB_SOF, ctype, clen>>
      [] OTHER -> <<USB_SOF, ctype, clen % 256, clen \div 256>> \o cbuf

Sent == Seen \o down

Stop == Command(CMD_STOP, <<>>)
Ping == Command(CMD_PING, <<>>)

\* A command announces the length of its payload; what comes after it.
Announced(s) == s[3] + 256 * s[4]
Payload(s) == SubSeq(s, 5, 4 + Announced(s))
After(s) == SubSeq(s, 5 + Announced(s), Len(s))

\* Bytes that begin no command; the beginning of one; a whole one; a CMD_TX cut
\* off, which takes the bytes it is owed from whatever comes next.
Junk(s) == \A i \in 1 .. Len(s) : s[i] # USB_SOF
Headed(s) == Len(s) >= 4 /\ s[1] = USB_SOF /\ Announced(s) <= MaxFrame
Whole(s) == Headed(s) /\ 4 + Announced(s) <= Len(s)
Lost(s) == Headed(s) /\ s[2] = CMD_TX /\ Len(s) < 4 + Announced(s)
Owed(s) == 4 + Announced(s) - Len(s)

\* Nothing of use, but a STOP perhaps.
Harmless(s) == \E z \in Seq(Byte) : Junk(z) /\ (s = z \/ s = z \o Stop)

\* What a run finds under way, and what it may leave behind.
Simple(s) == Junk(s) \/ Lost(s) \/ (Whole(s) /\ Junk(After(s)))
Loose(s) == Harmless(s) \/ Lost(s) \/ (Whole(s) /\ Harmless(After(s)))

-----------------------------------------------------------------------------
(* Sequences of bytes                                                      *)

\* Two sequences in a row, element by element.
LEMMA InARow ==
    ASSUME NEW S, NEW s \in Seq(S), NEW t \in Seq(S)
    PROVE  /\ s \o t \in Seq(S) /\ Len(s) \in Nat /\ Len(t) \in Nat
           /\ Len(s \o t) = Len(s) + Len(t)
           /\ \A i \in 1 .. Len(s) : (s \o t)[i] = s[i]
           /\ \A i \in 1 .. Len(t) : (s \o t)[Len(s) + i] = t[i]
<1>1. /\ s \o t \in Seq(S) /\ Len(s \o t) = Len(s) + Len(t)
      /\ \A i \in 1 .. Len(s) + Len(t) : (s \o t)[i] = IF i <= Len(s) THEN s[i] ELSE t[i - Len(s)]
  BY ConcatProperties
<1>2. Len(s) \in Nat /\ Len(t) \in Nat
  OBVIOUS
<1>3. ASSUME NEW i \in 1 .. Len(t) PROVE (s \o t)[Len(s) + i] = t[i]
  <2>1. Len(s) + i \in 1 .. Len(s) + Len(t) /\ ~(Len(s) + i <= Len(s)) /\ (Len(s) + i) - Len(s) = i
    BY <1>2
  <2> QED
    BY <1>1, <2>1
<1>4. ASSUME NEW i \in 1 .. Len(s) PROVE (s \o t)[i] = s[i]
  BY <1>1, <1>2
<1> QED
  BY <1>1, <1>2, <1>3, <1>4

\* A part of a sequence, element by element.
LEMMA PartOf ==
    ASSUME NEW S, NEW s \in Seq(S), NEW n \in 1 .. Len(s) + 1
    PROVE  /\ SubSeq(s, n, Len(s)) \in Seq(S)
           /\ Len(SubSeq(s, n, Len(s))) = Len(s) + 1 - n
           /\ \A i \in 1 .. Len(s) + 1 - n : SubSeq(s, n, Len(s))[i] = s[n - 1 + i]
<1>1. Len(s) \in Nat
  OBVIOUS
<1>2. \A i \in n .. Len(s) : s[i] \in S
  BY <1>1
<1> QED
  BY <1>1, <1>2, SubSeqProperties

\* The two bytes of a length, and back.
LEMMA LengthBytes ==
    ASSUME NEW n \in Word16
    PROVE  /\ n % 256 \in Byte /\ n \div 256 \in Byte
           /\ (n % 256) + 256 * (n \div 256) = n
BY DEF Byte, Word16

LEMMA BytesLength ==
    ASSUME NEW lo \in Byte, NEW hi \in Byte
    PROVE  /\ lo + 256 * hi \in Word16
           /\ (lo + 256 * hi) % 256 = lo /\ (lo + 256 * hi) \div 256 = hi
<1>1. lo + 256 * hi \in Word16
  BY DEF Byte, Word16
<1>2. (lo + 256 * hi) % 256 = lo
  BY DEF Byte
<1>3. (lo + 256 * hi) \div 256 = hi
  BY DEF Byte
<1> QED
  BY <1>1, <1>2, <1>3

LEMMA ShorterIsWord ==
    ASSUME NEW n \in Word16, NEW m \in Nat, m <= n
    PROVE  m \in Word16
<1> DEFINE top == 256 * 256 - 1
<1>1. top \in Int
  OBVIOUS
<1>2. Word16 = 0 .. top
  BY DEF Word16
<1> HIDE DEF top
<1> QED
  BY <1>1, <1>2

LEMMA ByteIsWord ==
    ASSUME NEW n \in Byte
    PROVE  n \in Word16
BY DEF Byte, Word16

\* What is announced is a number.
LEMMA AnnouncedIsLength ==
    ASSUME NEW s \in Seq(Byte), Len(s) >= 4
    PROVE  Announced(s) \in Word16 /\ Announced(s) \in Nat
<1>1. s[3] \in Byte /\ s[4] \in Byte
  OBVIOUS
<1>2. Announced(s) \in Word16
  BY <1>1, BytesLength DEF Announced
<1>3. \A n \in Word16 : n \in Nat
  BY DEF Word16
<1> QED
  BY <1>2, <1>3

\* A command is what its header says.
Reads(c, type, p) ==
    /\ c \in Seq(Byte) /\ Len(c) = 4 + Len(p) /\ c # <<>>
    /\ c[1] = USB_SOF /\ c[2] = type /\ Announced(c) = Len(p)
    /\ Payload(c) = p /\ After(c) = <<>>
    /\ Whole(c) /\ Simple(c) /\ ~Lost(c) /\ ~Junk(c)

LEMMA CommandIsWhole ==
    ASSUME NEW type \in Byte, NEW p \in Seq(Byte), Len(p) \in 0 .. MaxFrame
    PROVE  Reads(Command(type, p), type, p)
<1> DEFINE h == <<USB_SOF, type, Len(p) % 256, Len(p) \div 256>>
           c == Command(type, p)
           n == Len(p)
<1>0. n \in Nat /\ MaxFrame \in Nat /\ n <= MaxFrame /\ n \in Word16
  <2>1. MaxFrame \in Word16
    BY ModemAssumption
  <2>2. MaxFrame \in Nat
    BY <2>1 DEF Word16
  <2>3. n \in Nat /\ n <= MaxFrame
    BY <2>2
  <2>4. n \in Word16
    BY <2>1, <2>2, <2>3, ShorterIsWord
  <2> QED
    BY <2>2, <2>3, <2>4
<1>1. n % 256 \in Byte /\ n \div 256 \in Byte /\ (n % 256) + 256 * (n \div 256) = n
  BY <1>0, LengthBytes
<1>2. USB_SOF \in Byte
  BY DEF Byte, USB_SOF
<1>3. /\ h \in Seq(Byte) /\ Len(h) = 4 /\ h[1] = USB_SOF /\ h[2] = type
      /\ h[3] = n % 256 /\ h[4] = n \div 256
  BY <1>1, <1>2
<1>4. c = h \o p
  BY DEF Command
<1> HIDE DEF h, c
<1>5. /\ c \in Seq(Byte) /\ Len(c) = 4 + n
      /\ \A i \in 1 .. 4 : c[i] = h[i]
      /\ \A i \in 1 .. n : c[4 + i] = p[i]
  <2>0. h \in Seq(Byte) /\ p \in Seq(Byte)
    BY <1>3
  <2>1. /\ h \o p \in Seq(Byte) /\ Len(h \o p) = Len(h) + n
        /\ \A i \in 1 .. Len(h) : (h \o p)[i] = h[i]
        /\ \A i \in 1 .. n : (h \o p)[Len(h) + i] = p[i]
    BY <2>0, InARow
  <2> QED
    BY <1>3, <1>4, <2>1
<1>6. c[1] = USB_SOF /\ c[2] = type /\ c[3] = n % 256 /\ c[4] = n \div 256
  BY <1>3, <1>5
<1>7. Announced(c) = n
  BY <1>1, <1>6 DEF Announced
<1>8. Payload(c) = p
  <2>0. \A i \in 5 .. 4 + n : i \in 1 .. Len(c)
    BY <1>0, <1>5
  <2>1. SubSeq(c, 5, 4 + n) \in Seq(Byte) /\ Len(SubSeq(c, 5, 4 + n)) = n
    <3>1. \A i \in 5 .. 4 + n : c[i] \in Byte
      BY <2>0, <1>5
    <3> QED
      BY <3>1, <1>0, <1>5, SubSeqProperties
  <2>2. ASSUME NEW i \in 1 .. n PROVE SubSeq(c, 5, 4 + n)[i] = p[i]
    <3>1. SubSeq(c, 5, 4 + n)[i] = c[5 + i - 1]
      BY <2>0, <1>0, <1>5, SubSeqProperties
    <3>2. 5 + i - 1 = 4 + i
      BY <1>0
    <3> QED
      BY <3>1, <3>2, <1>5
  <2>3. SubSeq(c, 5, 4 + n) = p
    BY <2>1, <2>2, SeqEqual
  <2> QED
    BY <2>3, <1>7 DEF Payload
<1>9. After(c) = <<>>
  <2>1. SubSeq(c, 5 + n, 4 + n) = <<>>
    BY <1>0, <1>5, SubSeqEmpty
  <2> QED
    BY <2>1, <1>5, <1>7 DEF After
<1>10. Whole(c)
  BY <1>0, <1>5, <1>6, <1>7 DEF Whole, Headed
<1>11. ~Lost(c) /\ ~Junk(c)
  <2>1. 1 \in 1 .. Len(c)
    BY <1>0, <1>5
  <2> QED
    BY <2>1, <1>0, <1>5, <1>6, <1>7 DEF Lost, Junk
<1>12. Junk(<<>>)
  BY DEF Junk
<1>13. Simple(c)
  BY <1>9, <1>10, <1>12 DEF Simple
<1>14. c # <<>>
  <2>1. Len(c) # 0
    BY <1>0, <1>5
  <2> QED
    BY <2>1
<1> QED
  BY <1>5, <1>6, <1>7, <1>8, <1>9, <1>10, <1>11, <1>13, <1>14 DEF c, n, Reads

\* STOP and PING are four bytes, of which only the first is a start byte.
LEMMA FourBytes ==
    ASSUME NEW c \in {Stop, Ping}
    PROVE  /\ c \in Seq(Byte) /\ Len(c) = 4 /\ c[1] = USB_SOF /\ c # <<>>
           /\ \A i \in 2 .. 4 : c[i] # USB_SOF
           /\ Announced(c) = 0 /\ Payload(c) = <<>> /\ After(c) = <<>> /\ c[2] # CMD_TX
           /\ Whole(c) /\ Simple(c) /\ ~Lost(c) /\ ~Junk(c)
<1> DEFINE p == <<>>
<1>1. PICK type \in {CMD_STOP, CMD_PING} : c = Command(type, p)
  BY DEF Stop, Ping
<1>2. type \in Byte /\ type # CMD_TX /\ type # USB_SOF
  BY DEF CMD_STOP, CMD_PING, CMD_TX, USB_SOF, Byte
<1>3. p \in Seq(Byte) /\ Len(p) = 0 /\ Len(p) \in 0 .. MaxFrame
  BY ModemAssumption DEF Word16
<1> HIDE DEF p
<1>4. Reads(Command(type, p), type, p)
  BY <1>2, <1>3, CommandIsWhole
<1>5. c \in Seq(Byte) /\ Len(c) = 4
  BY <1>1, <1>3, <1>4 DEF Reads
<1>6. /\ c[1] = USB_SOF /\ c[2] = type /\ c # <<>>
      /\ Announced(c) = 0 /\ Payload(c) = p /\ After(c) = <<>>
  BY <1>1, <1>3, <1>4 DEF Reads
<1>7. Whole(c) /\ Simple(c) /\ ~Lost(c) /\ ~Junk(c)
  BY <1>1, <1>4 DEF Reads
<1>8. c[3] = 0 /\ c[4] = 0
  <2>1. \A i \in 1 .. 4 : c[i] \in Byte
    BY <1>5, ElementOfSeq
  <2>2. c[3] \in Byte /\ c[4] \in Byte
    BY <2>1
  <2>3. c[3] + 256 * c[4] = 0
    BY <1>6 DEF Announced
  <2>4. \A a, b \in Byte : a + 256 * b = 0 => a = 0 /\ b = 0
    BY DEF Byte
  <2> QED
    BY <2>2, <2>3, <2>4
<1>9. \A i \in 2 .. 4 : c[i] # USB_SOF
  BY <1>2, <1>6, <1>8 DEF USB_SOF
<1> QED
  BY <1>2, <1>5, <1>6, <1>7, <1>9 DEF p

\* Nothing is under way.
LEMMA NothingIsSimple ==
    /\ Junk(<<>>) /\ Simple(<<>>) /\ Loose(<<>>)
    /\ ~Lost(<<>>) /\ ~Whole(<<>>) /\ ~Headed(<<>>)
<1>1. <<>> \in Seq(Byte) /\ Len(<<>>) = 0
  OBVIOUS
<1>2. Junk(<<>>)
  BY DEF Junk
<1>3. ~Headed(<<>>)
  BY DEF Headed
<1> QED
  BY <1>1, <1>2, <1>3 DEF Simple, Loose, Harmless, Lost, Whole

\* A command is whole or cut off, not both.
LEMMA WholeIsNotLost ==
    ASSUME NEW s \in Seq(Byte), Whole(s)
    PROVE  ~Lost(s)
<1>1. Len(s) >= 4 /\ 4 + Announced(s) <= Len(s) /\ Len(s) \in Nat
  BY DEF Whole, Headed
<1>2. Announced(s) \in Nat
  BY <1>1, AnnouncedIsLength
<1> QED
  BY <1>1, <1>2 DEF Lost

\* What is left of a whole command is a sequence of bytes.
LEMMA AfterIsBytes ==
    ASSUME NEW s \in Seq(Byte), Whole(s)
    PROVE  /\ After(s) \in Seq(Byte)
           /\ Len(After(s)) = Len(s) - 4 - Announced(s)
           /\ \A i \in 1 .. Len(After(s)) : After(s)[i] = s[4 + Announced(s) + i]
<1> DEFINE a == Announced(s)
<1>1. a \in Nat /\ Len(s) \in Nat /\ 4 + a <= Len(s)
  BY AnnouncedIsLength DEF Whole, Headed
<1> DEFINE m == 5 + a
<1>2. After(s) = SubSeq(s, m, Len(s))
  BY DEF After
<1> HIDE DEF a
<1>3. m \in 1 .. Len(s) + 1 /\ Len(s) + 1 - m = Len(s) - 4 - a
  BY <1>1
<1>4. \A i \in Nat : m - 1 + i = 4 + a + i
  BY <1>1
<1> HIDE DEF m
<1>5. /\ After(s) \in Seq(Byte) /\ Len(After(s)) = Len(s) + 1 - m
      /\ \A i \in 1 .. Len(s) + 1 - m : After(s)[i] = s[m - 1 + i]
  BY <1>2, <1>3, PartOf
<1>6. ASSUME NEW i \in 1 .. Len(After(s)) PROVE After(s)[i] = s[4 + a + i]
  <2>1. i \in Nat /\ i \in 1 .. Len(s) + 1 - m
    BY <1>5
  <2>2. After(s)[i] = s[m - 1 + i]
    BY <2>1, <1>5
  <2> QED
    BY <2>1, <2>2, <1>4
<1> QED
  BY <1>3, <1>5, <1>6 DEF a

\* A run may leave behind what it finds.
LEMMA SimpleIsLoose ==
    ASSUME NEW s \in Seq(Byte), Simple(s)
    PROVE  Loose(s)
<1>1. CASE Whole(s) /\ Junk(After(s))
  BY <1>1, AfterIsBytes DEF Loose, Harmless
<1> QED
  BY <1>1 DEF Simple, Loose, Harmless

\* What follows a command does not change what it announces.
LEMMA HeadStays ==
    ASSUME NEW s \in Seq(Byte), NEW t \in Seq(Byte), Len(s) >= 4
    PROVE  /\ s \o t \in Seq(Byte) /\ Len(s \o t) = Len(s) + Len(t) /\ Len(s \o t) >= 4
           /\ (s \o t)[1] = s[1] /\ (s \o t)[2] = s[2]
           /\ Announced(s \o t) = Announced(s)
           /\ Headed(s) => Headed(s \o t)
<1>1. /\ s \o t \in Seq(Byte) /\ Len(s) \in Nat /\ Len(t) \in Nat
      /\ Len(s \o t) = Len(s) + Len(t)
      /\ \A i \in 1 .. Len(s) : (s \o t)[i] = s[i]
  BY InARow
<1>2. \A i \in 1 .. 4 : (s \o t)[i] = s[i]
  BY <1>1
<1>3. Announced(s \o t) = Announced(s)
  BY <1>2 DEF Announced
<1> QED
  BY <1>1, <1>2, <1>3 DEF Headed

\* A command cut off takes four bytes more, or as many as it is owed, and the rest is
\* no command.
LEMMA LostTakes ==
    ASSUME NEW s \in Seq(Byte), Lost(s), NEW c \in {Stop, Ping}
    PROVE  /\ s \o c \in Seq(Byte) /\ (s \o c)[2] = CMD_TX
           /\ Owed(s) \in Nat /\ Owed(s) >= 1
           /\ \/ Lost(s \o c) /\ Owed(s \o c) = Owed(s) - 4
              \/ Whole(s \o c) /\ Junk(After(s \o c)) /\ Owed(s) <= 4
<1> DEFINE x == s \o c
           a == Announced(s)
<1>1. Headed(s) /\ s[2] = CMD_TX /\ Len(s) < 4 + a /\ Len(s) >= 4
  BY DEF Lost, Headed
<1>2. c \in Seq(Byte) /\ Len(c) = 4 /\ \A i \in 2 .. 4 : c[i] # USB_SOF
  BY FourBytes
<1>3. a \in Nat /\ Len(s) \in Nat
  BY <1>1, AnnouncedIsLength
<1>4. Owed(s) = 4 + a - Len(s)
  BY DEF Owed
<1> HIDE DEF a
<1>5. x \in Seq(Byte) /\ Len(x) = Len(s) + 4 /\ x[2] = CMD_TX /\ Announced(x) = a /\ Headed(x)
  <2>1. c \in Seq(Byte) /\ Len(s) >= 4
    BY <1>1, <1>2
  <2>2. /\ x \in Seq(Byte) /\ Len(x) = Len(s) + Len(c)
        /\ x[2] = s[2] /\ Announced(x) = Announced(s)
        /\ Headed(s) => Headed(x)
    BY <2>1, HeadStays
  <2> QED
    BY <2>2, <1>1, <1>2 DEF a
<1>6. \A i \in 1 .. 4 : x[Len(s) + i] = c[i]
  <2>1. c \in Seq(Byte)
    BY <1>2
  <2>2. \A i \in 1 .. Len(c) : x[Len(s) + i] = c[i]
    BY <2>1, InARow
  <2> QED
    BY <2>2, <1>2
<1> HIDE DEF x
<1>7. Owed(s) \in Nat /\ Owed(s) >= 1
  BY <1>1, <1>3, <1>4
<1>8. CASE Len(x) < 4 + a
  <2>1. Lost(x)
    BY <1>5, <1>8 DEF Lost
  <2>2. Owed(x) = 4 + a - (Len(s) + 4)
    BY <1>5 DEF Owed
  <2>3. Owed(x) = Owed(s) - 4
    BY <2>2, <1>3, <1>4
  <2> QED
    BY <2>1, <2>3, <1>5, <1>7 DEF x
<1>9. CASE ~(Len(x) < 4 + a)
  <2>1. Whole(x) /\ Owed(s) <= 4
    BY <1>3, <1>4, <1>5, <1>9 DEF Whole
  <2>2. /\ After(x) \in Seq(Byte) /\ Len(After(x)) = Len(x) - 4 - Announced(x)
        /\ \A i \in 1 .. Len(After(x)) : After(x)[i] = x[4 + Announced(x) + i]
    BY <2>1, <1>5, AfterIsBytes
  <2>3. ASSUME NEW i \in 1 .. Len(After(x)) PROVE After(x)[i] # USB_SOF
    <3> DEFINE j == 4 + a + i - Len(s)
    <3>1. i \in Nat /\ i >= 1 /\ i <= Len(s) - a
      BY <2>2, <1>3, <1>5
    <3>2. j \in 2 .. 4 /\ 4 + a + i = Len(s) + j
      BY <3>1, <1>1, <1>3
    <3> HIDE DEF j
    <3>3. After(x)[i] = c[j]
      BY <3>2, <2>2, <1>5, <1>6
    <3> QED
      BY <3>2, <3>3, <1>2
  <2>4. Junk(After(x))
    BY <2>3 DEF Junk
  <2> QED
    BY <2>1, <2>4, <1>5, <1>7 DEF x
<1> QED
  BY <1>8, <1>9

\* A STOP sent after nothing of use is at most taken for nothing of use.
LEMMA StopFollowsJunk ==
    ASSUME NEW s \in Seq(Byte), Junk(s)
    PROVE  Harmless(s \o Stop)
BY DEF Harmless

\* After a whole command come the bytes that follow it.
LEMMA AfterInARow ==
    ASSUME NEW s \in Seq(Byte), NEW t \in Seq(Byte), Whole(s)
    PROVE  Whole(s \o t) /\ After(s \o t) = After(s) \o t
<1> DEFINE x == s \o t
           a == Announced(s)
           u == After(s)
           v == u \o t
<1>1. Headed(s) /\ 4 + a <= Len(s) /\ Len(s) >= 4
  BY DEF Whole, Headed
<1>2. a \in Nat /\ Len(s) \in Nat /\ Len(t) \in Nat
  BY <1>1, AnnouncedIsLength
<1>3. u \in Seq(Byte) /\ Len(u) = Len(s) - 4 - a /\ \A i \in 1 .. Len(u) : u[i] = s[4 + a + i]
  BY AfterIsBytes
<1>4. /\ x \in Seq(Byte) /\ Len(x) = Len(s) + Len(t) /\ Announced(x) = a
      /\ Headed(s) => Headed(x)
  BY <1>1, HeadStays
<1>5. /\ \A i \in 1 .. Len(s) : x[i] = s[i]
      /\ \A i \in 1 .. Len(t) : x[Len(s) + i] = t[i]
  BY InARow
<1> HIDE DEF u
<1>6. /\ v \in Seq(Byte) /\ Len(v) = Len(u) + Len(t)
      /\ \A i \in 1 .. Len(u) : v[i] = u[i]
      /\ \A i \in 1 .. Len(t) : v[Len(u) + i] = t[i]
  <2>1. u \in Seq(Byte)
    BY <1>3
  <2> QED
    BY <2>1, InARow
<1> HIDE DEF a, v, x
<1>7. Whole(x)
  BY <1>1, <1>2, <1>4 DEF Whole
<1>8. /\ After(x) \in Seq(Byte) /\ Len(After(x)) = Len(x) - 4 - a
      /\ \A i \in 1 .. Len(After(x)) : After(x)[i] = x[4 + a + i]
  <2>1. /\ After(x) \in Seq(Byte) /\ Len(After(x)) = Len(x) - 4 - Announced(x)
        /\ \A i \in 1 .. Len(After(x)) : After(x)[i] = x[4 + Announced(x) + i]
    BY <1>4, <1>7, AfterIsBytes
  <2> QED
    BY <2>1, <1>4
<1>9. Len(After(x)) = Len(v) /\ Len(u) \in Nat
  BY <1>1, <1>2, <1>3, <1>4, <1>6, <1>8
<1>10. ASSUME NEW i \in 1 .. Len(After(x)) PROVE After(x)[i] = v[i]
  <2>1. i \in Nat /\ i >= 1 /\ After(x)[i] = x[4 + a + i] /\ i <= Len(u) + Len(t)
    BY <1>6, <1>8, <1>9
  <2>2. CASE i <= Len(u)
    <3>1. i \in 1 .. Len(u) /\ 4 + a + i \in 1 .. Len(s)
      BY <2>1, <2>2, <1>2, <1>3, <1>9
    <3> QED
      BY <3>1, <2>1, <1>3, <1>5, <1>6
  <2>3. CASE ~(i <= Len(u))
    <3> DEFINE j == i - Len(u)
    <3>1. j \in 1 .. Len(t) /\ i = Len(u) + j /\ 4 + a + i = Len(s) + j
      BY <2>1, <2>3, <1>2, <1>3, <1>9
    <3> HIDE DEF j
    <3> QED
      BY <3>1, <2>1, <1>5, <1>6
  <2> QED
    BY <2>2, <2>3
<1>11. After(x) = v
  BY <1>6, <1>8, <1>9, <1>10, SeqEqual
<1> QED
  BY <1>7, <1>11 DEF x, v, u

\* A STOP sent by a run that ends leaves what a run may leave behind.
LEMMA StopFollows ==
    ASSUME NEW s \in Seq(Byte), Simple(s)
    PROVE  /\ s \o Stop \in Seq(Byte) /\ Loose(s \o Stop)
           /\ Lost(s \o Stop) => Lost(s) /\ Owed(s \o Stop) = Owed(s) - 4
<1>1. Stop \in Seq(Byte) /\ Len(Stop) = 4
  BY FourBytes
<1>2. s \o Stop \in Seq(Byte)
  BY <1>1, InARow
<1>3. CASE Junk(s)
  <2>1. Harmless(s \o Stop)
    BY <1>3, StopFollowsJunk
  <2>2. ~Lost(s \o Stop)
    <3>1. SUFFICES ASSUME Lost(s \o Stop) PROVE FALSE
      OBVIOUS
    <3>2. /\ Len(s \o Stop) = Len(s) + 4 /\ Len(s) \in Nat
          /\ \A i \in 1 .. Len(s) : (s \o Stop)[i] = s[i]
          /\ \A i \in 1 .. 4 : (s \o Stop)[Len(s) + i] = Stop[i]
      BY <1>1, InARow
    <3>3. (s \o Stop)[1] = USB_SOF
      BY <3>1 DEF Lost, Headed
    <3>4. CASE Len(s) # 0
      BY <3>2, <3>3, <3>4, <1>3 DEF Junk
    <3>5. CASE Len(s) = 0
      <4>1. s = <<>>
        BY <3>5
      <4>2. s \o Stop = Stop
        BY <4>1, <1>1, ConcatEmptySeq
      <4> QED
        BY <4>2, <3>1, FourBytes
    <3> QED
      BY <3>4, <3>5
  <2> QED
    BY <2>1, <2>2, <1>2 DEF Loose
<1>4. CASE Lost(s)
  <2>1. \/ Lost(s \o Stop) /\ Owed(s \o Stop) = Owed(s) - 4
        \/ Whole(s \o Stop) /\ Junk(After(s \o Stop)) /\ Owed(s) <= 4
    BY <1>4, LostTakes
  <2>2. Loose(s \o Stop)
    BY <2>1, <1>2, SimpleIsLoose DEF Simple
  <2>3. Whole(s \o Stop) => ~Lost(s \o Stop)
    BY <1>2, WholeIsNotLost
  <2> QED
    BY <2>1, <2>2, <2>3, <1>2, <1>4
<1>5. CASE Whole(s) /\ Junk(After(s))
  <2>1. Whole(s \o Stop) /\ After(s \o Stop) = After(s) \o Stop
    BY <1>1, <1>5, AfterInARow
  <2>2. Harmless(After(s \o Stop))
    BY <2>1, <1>5, AfterIsBytes, StopFollowsJunk
  <2>3. ~Lost(s \o Stop)
    BY <2>1, <1>2, WholeIsNotLost
  <2> QED
    BY <2>1, <2>2, <2>3, <1>2 DEF Loose
<1> QED
  BY <1>3, <1>4, <1>5 DEF Simple

\* Of nothing of use but a STOP, either the first byte is of no use or it is the STOP's.
LEMMA HarmlessGoesOn ==
    ASSUME NEW s \in Seq(Byte), Harmless(s), s # <<>>
    PROVE  /\ s[1] = USB_SOF => s = Stop
           /\ s[1] # USB_SOF => Tail(s) \in Seq(Byte) /\ Harmless(Tail(s))
<1>1. PICK z \in Seq(Byte) : Junk(z) /\ (s = z \/ s = z \o Stop)
  BY DEF Harmless
<1>2. Stop \in Seq(Byte) /\ Len(Stop) = 4 /\ Stop[1] = USB_SOF
  BY FourBytes
<1>3. CASE z = <<>>
  <2>1. <<>> \o Stop = Stop
    BY <1>2, ConcatEmptySeq
  <2> QED
    BY <2>1, <1>1, <1>2, <1>3
<1>4. CASE z # <<>>
  <2>1. Len(z) \in Nat /\ Len(z) >= 1 /\ 1 \in 1 .. Len(z)
    BY <1>4, EmptySeq
  <2>2. z[1] # USB_SOF
    BY <2>1, <1>1 DEF Junk
  <2>3. s[1] = z[1]
    <3>1. (z \o Stop)[1] = z[1]
      BY <1>2, <2>1, InARow
    <3> QED
      BY <3>1, <1>1
  <2>4. /\ Tail(z) \in Seq(Byte) /\ Len(Tail(z)) = Len(z) - 1
        /\ \A i \in 1 .. Len(Tail(z)) : Tail(z)[i] = z[i + 1]
    BY <1>4, HeadTailProperties
  <2>5. Junk(Tail(z))
    <3>1. \A i \in 1 .. Len(Tail(z)) : i + 1 \in 1 .. Len(z)
      BY <2>1, <2>4
    <3> QED
      BY <3>1, <2>4, <1>1 DEF Junk
  <2>6. Tail(z \o Stop) = Tail(z) \o Stop
    BY <1>2, <1>4
  <2> QED
    BY <1>1, <2>2, <2>3, <2>4, <2>5, <2>6, <1>2, InARow DEF Harmless
<1> QED
  BY <1>3, <1>4

LEMMA HarmlessIsNotLost ==
    ASSUME NEW s \in Seq(Byte), Harmless(s)
    PROVE  ~Lost(s)
<1>1. SUFFICES ASSUME Lost(s) PROVE FALSE
  OBVIOUS
<1>2. s # <<>> /\ s[1] = USB_SOF
  BY <1>1, NothingIsSimple DEF Lost, Headed
<1>3. s = Stop
  BY <1>2, HarmlessGoesOn
<1> QED
  BY <1>1, <1>3, FourBytes

LEMMA JunkIsHarmless ==
    ASSUME NEW s \in Seq(Byte), Junk(s)
    PROVE  Harmless(s) /\ ~Lost(s)
<1>1. Harmless(s)
  BY DEF Harmless
<1> QED
  BY <1>1, HarmlessIsNotLost

\* What the parser makes of what a run has left behind is such again: after a byte of
\* no use, and after a whole command.
LEMMA LooseGoesOn ==
    ASSUME NEW s \in Seq(Byte), Loose(s), s # <<>>
    PROVE  /\ s[1] = USB_SOF => Headed(s)
           /\ s[1] # USB_SOF => Loose(Tail(s)) /\ ~Lost(Tail(s))
           /\ Whole(s) => Loose(After(s)) /\ ~Lost(After(s))
<1>1. CASE Harmless(s)
  <2>1. s[1] = USB_SOF => s = Stop
    BY <1>1, HarmlessGoesOn
  <2>2. s[1] # USB_SOF => Loose(Tail(s)) /\ ~Lost(Tail(s))
    BY <1>1, HarmlessGoesOn, HarmlessIsNotLost DEF Loose
  <2>3. Headed(Stop) /\ After(Stop) = <<>>
    BY FourBytes DEF Whole
  <2>4. Whole(s) => s[1] = USB_SOF
    BY DEF Whole, Headed
  <2> QED
    BY <2>1, <2>2, <2>3, <2>4, NothingIsSimple
<1>2. CASE Lost(s)
  <2>1. Headed(s) /\ s[1] = USB_SOF
    BY <1>2 DEF Lost, Headed
  <2> QED
    BY <2>1, <1>2, WholeIsNotLost
<1>3. CASE Whole(s) /\ Harmless(After(s))
  <2>1. Headed(s) /\ s[1] = USB_SOF
    BY <1>3 DEF Whole, Headed
  <2> QED
    BY <2>1, <1>3, AfterIsBytes, HarmlessIsNotLost DEF Loose
<1> QED
  BY <1>1, <1>2, <1>3 DEF Loose

\* The same of what a run finds.
LEMMA SimpleGoesOn ==
    ASSUME NEW s \in Seq(Byte), Simple(s), s # <<>>
    PROVE  /\ s[1] = USB_SOF => Headed(s)
           /\ s[1] # USB_SOF => Tail(s) \in Seq(Byte) /\ Junk(Tail(s))
           /\ Whole(s) => After(s) \in Seq(Byte) /\ Junk(After(s))
<1>0. Len(s) \in Nat /\ Len(s) >= 1 /\ 1 \in 1 .. Len(s)
  BY EmptySeq
<1>1. CASE Junk(s)
  <2>1. s[1] # USB_SOF
    BY <1>0, <1>1 DEF Junk
  <2>2. /\ Tail(s) \in Seq(Byte) /\ Len(Tail(s)) = Len(s) - 1
        /\ \A i \in 1 .. Len(Tail(s)) : Tail(s)[i] = s[i + 1]
    BY HeadTailProperties
  <2>3. \A i \in 1 .. Len(Tail(s)) : i + 1 \in 1 .. Len(s)
    BY <1>0, <2>2
  <2> QED
    BY <1>1, <2>1, <2>2, <2>3 DEF Junk, Whole, Headed
<1>2. CASE Lost(s)
  <2>1. Headed(s) /\ s[1] = USB_SOF
    BY <1>2 DEF Lost, Headed
  <2> QED
    BY <2>1, <1>2, WholeIsNotLost
<1>3. CASE Whole(s) /\ Junk(After(s))
  BY <1>3, AfterIsBytes DEF Whole, Headed
<1> QED
  BY <1>1, <1>2, <1>3 DEF Simple

\* A frame of which a part is written is a command cut off.
LEMMA PartIsLost ==
    ASSUME NEW s \in Seq(Byte), NEW t \in Seq(Byte), NEW p \in Payloads,
           s \o t = Command(CMD_TX, p), Len(s) >= 4, t # <<>>
    PROVE  Lost(s) /\ Owed(s) = Len(t) /\ Owed(s) + Len(s) <= MaxFrame + 4
<1> DEFINE c == Command(CMD_TX, p)
<1>1. p \in Seq(Byte) /\ Len(p) \in 2 .. MaxFrame
  BY HandshakeAssumption
<1>2. MaxFrame \in Nat /\ CMD_TX \in Byte
  BY ModemAssumption DEF Word16, CMD_TX, Byte
<1>3. Len(p) \in 0 .. MaxFrame
  BY <1>1, <1>2
<1>4. Reads(c, CMD_TX, p)
  BY <1>1, <1>2, <1>3, CommandIsWhole
<1> HIDE DEF c
<1>5. /\ Len(c) = 4 + Len(p) /\ c[1] = USB_SOF /\ c[2] = CMD_TX /\ Announced(c) = Len(p)
      /\ Headed(c)
  BY <1>4 DEF Reads, Whole
<1>6. /\ Len(c) = Len(s) + Len(t) /\ c[1] = s[1] /\ c[2] = s[2] /\ Announced(c) = Announced(s)
  <2>1. /\ Len(s \o t) = Len(s) + Len(t) /\ (s \o t)[1] = s[1] /\ (s \o t)[2] = s[2]
        /\ Announced(s \o t) = Announced(s)
    BY HeadStays
  <2>2. c = s \o t
    BY DEF c
  <2> QED
    BY <2>1, <2>2
<1>7. Len(s) \in Nat /\ Len(t) \in Nat /\ Len(t) >= 1
  BY EmptySeq
<1>8. Headed(s)
  BY <1>5, <1>6 DEF Headed
<1>9. Announced(s) = Len(p) /\ 4 + Len(p) = Len(s) + Len(t) /\ Len(p) <= MaxFrame /\ Len(p) \in Nat
  BY <1>1, <1>2, <1>5, <1>6
<1>10. Owed(s) = Len(t)
  BY <1>7, <1>9 DEF Owed
<1>11. Lost(s)
  BY <1>5, <1>6, <1>7, <1>8, <1>9 DEF Lost
<1> QED
  BY <1>2, <1>7, <1>9, <1>10, <1>11

-----------------------------------------------------------------------------
(* Types, and what the parser remembers of a command                       *)

ParserTyped ==
    /\ cstate \in {"SOF", "TYPE", "LEN_LO", "LEN_HI", "PAYLOAD"}
    /\ ctype \in Byte /\ clen \in Word16
    /\ cbuf \in Seq(Byte) /\ Len(cbuf) <= MaxFrame
    /\ cstate = "LEN_HI" => clen \in Byte
    /\ cstate = "PAYLOAD" => Len(cbuf) < clen /\ clen <= MaxFrame
    /\ dir = "tx" => cstate = "SOF" /\ cbuf # <<>>

PipesTyped ==
    /\ down \in Seq(Byte) /\ up \in Seq(Replies \cup Async)
    /\ configured \in BOOLEAN /\ dir \in {"idle", "tx", "rx"}

HostTyped ==
    /\ pc \in {"closed", "failed", "park"} \cup Opening \cup Working
    /\ out \in Seq(Byte) /\ half \in BOOLEAN
    /\ want \in Configs \cup {0} /\ runs \in 0 .. MaxRuns
    /\ pc \in Opening \cup Working => want \in Configs
    /\ cut \in BOOLEAN /\ refusals \in 0 .. MaxRuns

ModemTyped == ParserTyped /\ PipesTyped

\* The steps of the parser: a byte is of no use, or it belongs to a command that is
\* not whole yet, or it completes one, which is then handled.
Skips ==
    /\ Sent[1] # USB_SOF /\ Sent' = Tail(Sent)
    /\ UNCHANGED <<up, configured, cfg, dir>>
Advances == Sent' = Sent /\ UNCHANGED <<up, configured, cfg, dir>>
Completes ==
    /\ Whole(Sent) /\ Sent' = After(Sent)
    /\ HandleCommand(Sent[2], Payload(Sent))

\* What has been read of a command is bytes, and the beginning of one.
LEMMA SeenIsBytes ==
    ASSUME ModemTyped
    PROVE  /\ Seen \in Seq(Byte) /\ Sent \in Seq(Byte)
           /\ cstate = "SOF" => Seen = <<>> /\ Sent = down
           /\ cstate # "SOF" => Seen # <<>> /\ Seen[1] = USB_SOF
           /\ cstate = "PAYLOAD" =>
                /\ Len(Seen) = 4 + Len(cbuf) /\ Announced(Seen) = clen /\ Seen[2] = ctype
                /\ \A i \in 1 .. Len(cbuf) : Seen[4 + i] = cbuf[i]
           /\ cstate \notin {"SOF", "PAYLOAD"} => Len(Seen) < 4
<1>0. USB_SOF \in Byte /\ ctype \in Byte /\ clen \in Word16 /\ cbuf \in Seq(Byte) /\ down \in Seq(Byte)
  BY DEF ModemTyped, ParserTyped, PipesTyped, USB_SOF, Byte
<1> DEFINE h == <<USB_SOF, ctype, clen % 256, clen \div 256>>
<1>1. clen % 256 \in Byte /\ clen \div 256 \in Byte /\ (clen % 256) + 256 * (clen \div 256) = clen
  BY <1>0, LengthBytes
<1>2. /\ h \in Seq(Byte) /\ Len(h) = 4 /\ h[1] = USB_SOF /\ h[2] = ctype
      /\ h[3] = clen % 256 /\ h[4] = clen \div 256
  BY <1>0, <1>1
<1>3. CASE cstate = "SOF"
  <2>1. Seen = <<>>
    BY <1>3 DEF Seen
  <2>2. <<>> \o down = down
    BY <1>0, ConcatEmptySeq
  <2> QED
    BY <2>1, <2>2, <1>0, <1>3 DEF Sent
<1>4. CASE cstate = "TYPE"
  <2>1. Seen = <<USB_SOF>>
    BY <1>4 DEF Seen
  <2>2. Seen \in Seq(Byte)
    BY <2>1, <1>0
  <2> QED
    BY <2>1, <2>2, <1>0, <1>4, InARow DEF Sent
<1>5. CASE cstate = "LEN_LO"
  <2>1. Seen = <<USB_SOF, ctype>>
    BY <1>5 DEF Seen
  <2>2. Seen \in Seq(Byte)
    BY <2>1, <1>0
  <2> QED
    BY <2>1, <2>2, <1>0, <1>5, InARow DEF Sent
<1>6. CASE cstate = "LEN_HI"
  <2>1. Seen = <<USB_SOF, ctype, clen>> /\ clen \in Byte
    BY <1>6 DEF Seen, ModemTyped, ParserTyped
  <2>2. Seen \in Seq(Byte)
    BY <2>1, <1>0
  <2> QED
    BY <2>1, <2>2, <1>0, <1>6, InARow DEF Sent
<1>7. CASE cstate = "PAYLOAD"
  <2>1. Seen = h \o cbuf
    BY <1>7 DEF Seen
  <2> HIDE DEF h
  <2>2. h \in Seq(Byte) /\ cbuf \in Seq(Byte)
    BY <1>0, <1>2
  <2>3. /\ Seen \in Seq(Byte) /\ Len(Seen) = 4 + Len(cbuf)
        /\ \A i \in 1 .. 4 : Seen[i] = h[i]
        /\ \A i \in 1 .. Len(cbuf) : Seen[4 + i] = cbuf[i]
    <3>1. /\ h \o cbuf \in Seq(Byte) /\ Len(h \o cbuf) = Len(h) + Len(cbuf)
          /\ \A i \in 1 .. Len(h) : (h \o cbuf)[i] = h[i]
          /\ \A i \in 1 .. Len(cbuf) : (h \o cbuf)[Len(h) + i] = cbuf[i]
      BY <2>2, InARow
    <3> QED
      BY <3>1, <2>1, <1>2
  <2>4. Seen[1] = USB_SOF /\ Seen[2] = ctype /\ Seen[3] = clen % 256 /\ Seen[4] = clen \div 256
    BY <2>3, <1>2
  <2>5. Announced(Seen) = clen
    BY <2>4, <1>1 DEF Announced
  <2>6. Seen # <<>>
    <3>1. Len(Seen) # 0
      BY <2>2, <2>3
    <3> QED
      BY <3>1
  <2>7. Sent \in Seq(Byte)
    BY <2>3, <1>0, InARow DEF Sent
  <2> QED
    BY <2>3, <2>4, <2>5, <2>6, <2>7, <1>7
<1> QED
  BY <1>3, <1>4, <1>5, <1>6, <1>7 DEF ModemTyped, ParserTyped

\* A command read to its end leaves what comes after it.
LEMMA ReadToItsEnd ==
    ASSUME NEW g \in Seq(Byte), NEW t \in Seq(Byte),
           Len(g) >= 4, g[1] = USB_SOF, Len(g) = 4 + Announced(g), Announced(g) <= MaxFrame
    PROVE  /\ Whole(g \o t) /\ After(g \o t) = t /\ (g \o t)[2] = g[2]
           /\ Payload(g \o t) = Payload(g)
           /\ Payload(g) \in Seq(Byte) /\ Len(Payload(g)) = Announced(g)
           /\ \A i \in 1 .. Announced(g) : Payload(g)[i] = g[4 + i]
<1> DEFINE a == Announced(g)
           x == g \o t
<1>1. a \in Nat /\ Len(g) \in Nat
  BY AnnouncedIsLength
<1>2. Whole(g)
  BY <1>1 DEF Whole, Headed
<1>3. After(g) = <<>>
  <2>1. SubSeq(g, 5 + a, 4 + a) = <<>>
    BY <1>1, SubSeqEmpty
  <2> QED
    BY <2>1 DEF After
<1>4. Whole(x) /\ After(x) = t
  <2>1. Whole(x) /\ After(x) = After(g) \o t
    BY <1>2, AfterInARow
  <2> QED
    BY <2>1, <1>3, ConcatEmptySeq
<1>5. x[2] = g[2] /\ Announced(x) = a
  BY HeadStays
<1>6. Payload(x) = SubSeq(x, 5, 4 + a) /\ Payload(g) = SubSeq(g, 5, 4 + a) /\ Len(g) = 4 + a
  BY <1>5 DEF Payload
<1>7. \A i \in 1 .. Len(g) : g[i] \in Byte
  BY ElementOfSeq
<1> HIDE DEF a
<1>8. \A i \in 5 .. 4 + a : i \in 1 .. Len(g)
  BY <1>1, <1>6
<1>9. /\ Payload(g) \in Seq(Byte) /\ Len(Payload(g)) = a
      /\ \A i \in 1 .. a : Payload(g)[i] = g[4 + i]
  <2>1. \A i \in 5 .. 4 + a : g[i] \in Byte
    BY <1>7, <1>8
  <2> DEFINE n == 4 + a
  <2>2. n \in Int /\ (5 <= n => n - 5 + 1 = a) /\ (~(5 <= n) => a = 0) /\ n - 5 + 1 = a
    BY <1>1
  <2>3. \A i \in 5 .. n : g[i] \in Byte
    BY <2>1
  <2>4. Payload(g) = SubSeq(g, 5, n)
    BY <1>6
  <2> HIDE DEF n
  <2>5. /\ SubSeq(g, 5, n) \in Seq(Byte)
        /\ Len(SubSeq(g, 5, n)) = IF 5 <= n THEN n - 5 + 1 ELSE 0
        /\ \A i \in 1 .. n - 5 + 1 : SubSeq(g, 5, n)[i] = g[5 + i - 1]
    BY <2>2, <2>3, SubSeqProperties
  <2>6. \A i \in Int : 5 + i - 1 = 4 + i
    OBVIOUS
  <2> QED
    BY <2>2, <2>4, <2>5, <2>6
<1>10. Payload(x) = Payload(g)
  <2>1. CASE a = 0
    <3>1. 4 + a < 5 /\ 4 + a \in Int
      BY <1>1, <2>1
    <3>2. SubSeq(x, 5, 4 + a) = <<>> /\ SubSeq(g, 5, 4 + a) = <<>>
      BY <3>1, SubSeqEmpty
    <3> QED
      BY <3>2, <1>6
  <2>2. CASE a # 0
    <3>1. 5 \in 1 .. Len(g) /\ 4 + a \in 1 .. Len(g)
      BY <1>1, <1>6, <2>2
    <3> QED
      BY <3>1, <1>6, SubSeqOfConcat1
  <2> QED
    BY <2>1, <2>2
<1> QED
  BY <1>4, <1>5, <1>9, <1>10 DEF a

\* What a handler answers, and what it needs to go on air.
LEMMA HandlerTypes ==
    ASSUME PipesTyped, NEW type \in Byte, NEW p \in Seq(Byte), HandleCommand(type, p), dir # "tx"
    PROVE  /\ up' \in Seq(Replies \cup Async)
           /\ configured' \in BOOLEAN /\ dir' \in {"idle", "tx", "rx"}
           /\ dir' = "tx" => type = CMD_TX /\ p # <<>>
<1> DEFINE M == Replies \cup Async
<1>0. up \in Seq(M) /\ configured \in BOOLEAN /\ dir \in {"idle", "tx", "rx"}
  BY DEF PipesTyped
<1>1. "ok" \in M /\ "pong" \in M /\ "err" \in M
  BY DEF Replies
<1> HIDE DEF M
<1>2. ASSUME NEW m \in M, Answer(m) PROVE up' \in Seq(M)
  BY <1>0, <1>2 DEF Answer
<1>3. p = <<>> => Len(p) = 0
  OBVIOUS
<1>4. up' \in Seq(M)
  <2>1. \/ up' = up \/ \E m \in M : Answer(m)
    BY <1>1 DEF HandleCommand, HandleConfig, HandleTx, HandleRx, HandleStop, HandlePing
  <2> QED
    BY <2>1, <1>0, <1>2
<1>5. configured' \in BOOLEAN
  BY <1>0 DEF HandleCommand, HandleConfig, HandleTx, HandleRx, HandleStop, HandlePing
<1>6. dir' \in {"idle", "tx", "rx"}
  BY <1>0 DEF HandleCommand, HandleConfig, HandleTx, HandleRx, HandleStop, HandlePing
<1>7. dir' = "tx" => type = CMD_TX /\ p # <<>>
  BY <1>3 DEF HandleCommand, HandleConfig, HandleTx, HandleRx, HandleStop, HandlePing
<1> QED
  BY <1>4, <1>5, <1>6, <1>7 DEF M

LEMMA Appended ==
    /\ \A x, y \in Byte : Append(<<x>>, y) = <<x, y>>
    /\ \A x, y, z \in Byte : Append(<<x, y>>, z) = <<x, y, z>>
    /\ \A w, x, y, z \in Byte : Append(<<w, x, y>>, z) = <<w, x, y, z>>
<1>1. ASSUME NEW x \in Byte, NEW y \in Byte PROVE Append(<<x>>, y) = <<x, y>>
  <2> DEFINE s == <<x>>
             u == <<x, y>>
             a == Append(s, y)
  <2>1. s \in Seq(Byte) /\ Len(s) = 1 /\ s[1] = x
    OBVIOUS
  <2>2. u \in Seq(Byte) /\ Len(u) = 2 /\ u[1] = x /\ u[2] = y
    OBVIOUS
  <2> HIDE DEF s, u
  <2>3. s \in Seq(Byte)
    BY <2>1
  <2>4. /\ a \in Seq(Byte) /\ Len(a) = Len(s) + 1
        /\ \A i \in 1 .. Len(s) : a[i] = s[i]
        /\ a[Len(s) + 1] = y
    BY <2>3, AppendProperties
  <2> HIDE DEF a
  <2>5. \A i \in 1 .. 2 : a[i] = u[i]
    BY <2>1, <2>2, <2>3, <2>4
  <2>6. a = u
    BY <2>1, <2>2, <2>4, <2>5, SeqEqual
  <2> QED
    BY <2>6 DEF a, s, u
<1>2. ASSUME NEW x \in Byte, NEW y \in Byte, NEW z \in Byte
      PROVE  Append(<<x, y>>, z) = <<x, y, z>>
  <2> DEFINE s == <<x, y>>
             u == <<x, y, z>>
             a == Append(s, z)
  <2>1. s \in Seq(Byte) /\ Len(s) = 2 /\ s[1] = x /\ s[2] = y
    OBVIOUS
  <2>2. u \in Seq(Byte) /\ Len(u) = 3 /\ u[1] = x /\ u[2] = y /\ u[3] = z
    OBVIOUS
  <2> HIDE DEF s, u
  <2>3. s \in Seq(Byte)
    BY <2>1
  <2>4. /\ a \in Seq(Byte) /\ Len(a) = Len(s) + 1
        /\ \A i \in 1 .. Len(s) : a[i] = s[i]
        /\ a[Len(s) + 1] = z
    BY <2>3, AppendProperties
  <2> HIDE DEF a
  <2>5. \A i \in 1 .. 3 : a[i] = u[i]
    BY <2>1, <2>2, <2>3, <2>4
  <2>6. a = u
    BY <2>1, <2>2, <2>4, <2>5, SeqEqual
  <2> QED
    BY <2>6 DEF a, s, u
<1>3. ASSUME NEW w \in Byte, NEW x \in Byte, NEW y \in Byte, NEW z \in Byte
      PROVE  Append(<<w, x, y>>, z) = <<w, x, y, z>>
  <2> DEFINE s == <<w, x, y>>
             u == <<w, x, y, z>>
             a == Append(s, z)
  <2>1. s \in Seq(Byte) /\ Len(s) = 3 /\ s[1] = w /\ s[2] = x /\ s[3] = y
    OBVIOUS
  <2>2. u \in Seq(Byte) /\ Len(u) = 4 /\ u[1] = w /\ u[2] = x /\ u[3] = y /\ u[4] = z
    OBVIOUS
  <2> HIDE DEF s, u
  <2>3. s \in Seq(Byte)
    BY <2>1
  <2>4. /\ a \in Seq(Byte) /\ Len(a) = Len(s) + 1
        /\ \A i \in 1 .. Len(s) : a[i] = s[i]
        /\ a[Len(s) + 1] = z
    BY <2>3, AppendProperties
  <2> HIDE DEF a
  <2>5. \A i \in 1 .. 4 : a[i] = u[i]
    BY <2>1, <2>2, <2>3, <2>4
  <2>6. a = u
    BY <2>1, <2>2, <2>4, <2>5, SeqEqual
  <2> QED
    BY <2>6 DEF a, s, u
<1> QED
  BY <1>1, <1>2, <1>3

\* The next byte is the first on the way, behind what has been read.
LEMMA NextByte ==
    ASSUME ModemTyped, ModemReadByte
    PROVE  /\ down # <<>> /\ Head(down) \in Byte /\ Tail(down) \in Seq(Byte) /\ down' = Tail(down)
           /\ Append(Seen, Head(down)) \in Seq(Byte)
           /\ Sent = Append(Seen, Head(down)) \o Tail(down)
           /\ Sent # <<>>
           /\ cstate # "SOF" => Sent[1] = USB_SOF
           /\ dir # "tx"
<1> DEFINE b == Head(down)
           t == Tail(down)
<1>1. down \in Seq(Byte) /\ Seen \in Seq(Byte) /\ Sent \in Seq(Byte)
  BY SeenIsBytes DEF ModemTyped, PipesTyped
<1>2. down # <<>> /\ down' = t /\ dir # "tx"
  BY DEF ModemReadByte
<1>3. b \in Byte /\ t \in Seq(Byte)
  BY <1>1, <1>2, HeadTailProperties
<1>4. down = <<b>> \o t
  BY <1>1, <1>2
<1>5. <<b>> \in Seq(Byte)
  BY <1>3
<1> HIDE DEF b, t
<1>6. Append(Seen, b) = Seen \o <<b>> /\ Append(Seen, b) \in Seq(Byte)
  BY <1>1, <1>3, AppendIsConcat, AppendProperties
<1>7. (Seen \o <<b>>) \o t = Seen \o (<<b>> \o t)
  BY <1>1, <1>3, <1>5, ConcatAssociative
<1>8. Sent = Append(Seen, b) \o t
  BY <1>4, <1>6, <1>7 DEF Sent
<1>9. Sent # <<>>
  BY <1>1, <1>2, ConcatEqualIffEmpty DEF Sent
<1>10. cstate # "SOF" => Sent[1] = USB_SOF
  <2>1. SUFFICES ASSUME cstate # "SOF" PROVE Sent[1] = USB_SOF
    OBVIOUS
  <2>2. Seen # <<>> /\ Seen[1] = USB_SOF
    BY <2>1, SeenIsBytes
  <2>3. Len(Seen) \in Nat /\ Len(Seen) # 0
    BY <2>2, <1>1, EmptySeq
  <2>4. 1 \in 1 .. Len(Seen)
    BY <2>3
  <2>5. (Seen \o down)[1] = Seen[1]
    BY <2>4, <1>1, InARow
  <2> QED
    BY <2>2, <2>5 DEF Sent
<1> QED
  BY <1>2, <1>3, <1>6, <1>8, <1>9, <1>10 DEF b, t

\* Reading a byte, the parser skips it, takes it into a command or completes one,
\* provided that what begins like a command is one.
LEMMA ParserStep ==
    ASSUME ModemTyped, ModemReadByte, Sent # <<>> /\ Sent[1] = USB_SOF => Headed(Sent)
    PROVE  ModemTyped' /\ Sent # <<>> /\ (Skips \/ Advances \/ Completes)
<1> DEFINE b == Head(down)
           t == Tail(down)
           g == Append(Seen, b)
<1>0. /\ b \in Byte /\ t \in Seq(Byte) /\ down' = t /\ g \in Seq(Byte)
      /\ Sent = g \o t /\ Sent # <<>> /\ dir # "tx" /\ (cstate # "SOF" => Sent[1] = USB_SOF)
  BY NextByte
<1>1. /\ down \in Seq(Byte) /\ Seen \in Seq(Byte) /\ ParserTyped /\ PipesTyped
      /\ USB_SOF \in Byte /\ ctype \in Byte /\ cbuf \in Seq(Byte) /\ clen \in Word16
  BY SeenIsBytes DEF ModemTyped, ParserTyped, PipesTyped, USB_SOF, Byte
<1>2. ASSUME Seen' = g PROVE Sent' = Sent
  BY <1>0, <1>2 DEF Sent
<1>3. ASSUME cstate' = "SOF" PROVE Sent' = t
  <2>1. Seen' = <<>>
    BY <1>3 DEF Seen
  <2> QED
    BY <2>1, <1>0, ConcatEmptySeq DEF Sent
<1>4. ASSUME Stay PROVE UNCHANGED <<up, configured, cfg, dir>> /\ PipesTyped'
  BY <1>0, <1>1, <1>4 DEF Stay, PipesTyped
<1>5. ASSUME OnSof(b) PROVE ModemTyped' /\ (Skips \/ Advances)
  <2>1. cstate = "SOF" /\ Seen = <<>> /\ Sent = down
    BY <1>5, SeenIsBytes DEF OnSof
  <2>2. Sent[1] = b /\ Tail(Sent) = t
    BY <2>1
  <2>3. ModemTyped'
    BY <1>0, <1>1, <1>4, <1>5 DEF OnSof, Goto, ModemTyped, ParserTyped, Stay
  <2>4. CASE b = USB_SOF
    <3>1. cstate' = "TYPE"
      BY <1>5, <2>4 DEF OnSof, Goto
    <3>2. Seen' = <<USB_SOF>> /\ g = <<USB_SOF>>
      BY <3>1, <2>1, <2>4 DEF Seen
    <3> QED
      BY <3>2, <2>3, <1>2, <1>4, <1>5 DEF OnSof, Advances
  <2>5. CASE b # USB_SOF
    <3>1. cstate' = "SOF"
      BY <1>5, <2>5 DEF OnSof, Goto
    <3> QED
      BY <3>1, <2>2, <2>3, <2>5, <1>3, <1>4, <1>5 DEF OnSof, Skips
  <2> QED
    BY <2>4, <2>5
<1>6. ASSUME OnType(b) PROVE ModemTyped' /\ Advances
  <2>1. cstate = "TYPE" /\ cstate' = "LEN_LO" /\ ctype' = b
    BY <1>6 DEF OnType, Goto
  <2>2. Seen' = <<USB_SOF, b>> /\ Seen = <<USB_SOF>>
    BY <2>1 DEF Seen
  <2>3. g = <<USB_SOF, b>>
    BY <2>2, <1>0, <1>1, Appended
  <2>4. ModemTyped'
    BY <2>1, <1>0, <1>1, <1>4, <1>6 DEF OnType, Goto, ModemTyped, ParserTyped, Stay
  <2> QED
    BY <2>2, <2>3, <2>4, <1>2, <1>4, <1>6 DEF OnType, Advances
<1>7. ASSUME OnLenLo(b) PROVE ModemTyped' /\ Advances
  <2>1. cstate = "LEN_LO" /\ cstate' = "LEN_HI" /\ clen' = b /\ ctype' = ctype
    BY <1>7 DEF OnLenLo, Goto
  <2>2. Seen' = <<USB_SOF, ctype, b>> /\ Seen = <<USB_SOF, ctype>>
    BY <2>1 DEF Seen
  <2>3. g = <<USB_SOF, ctype, b>>
    BY <2>2, <1>0, <1>1, Appended
  <2>4. b \in Word16
    BY <1>0, ByteIsWord
  <2>5. ModemTyped'
    BY <2>1, <2>4, <1>0, <1>1, <1>4, <1>7 DEF OnLenLo, Goto, ModemTyped, ParserTyped, Stay
  <2> QED
    BY <2>2, <2>3, <2>5, <1>2, <1>4, <1>7 DEF OnLenLo, Advances
<1>8. ASSUME OnLenHi(b) PROVE ModemTyped' /\ (Advances \/ Completes)
  <2>1. cstate = "LEN_HI" /\ clen' = clen + 256 * b /\ cbuf' = <<>> /\ ctype' = ctype /\ clen \in Byte
    BY <1>1, <1>8 DEF OnLenHi, ParserTyped
  <2>0. Seen = <<USB_SOF, ctype, clen>>
    BY <2>1 DEF Seen
  <2>2. g = <<USB_SOF, ctype, clen, b>>
    BY <2>0, <2>1, <1>0, <1>1, Appended
  <2> HIDE DEF g, b, t
  <2>3. Len(g) = 4 /\ g[1] = USB_SOF /\ g[2] = ctype /\ g[3] = clen /\ g[4] = b
    BY <2>2
  <2>4. Announced(g) = clen'
    BY <2>1, <2>3 DEF Announced
  <2>5. clen' \in Word16 /\ clen' % 256 = clen /\ clen' \div 256 = b
    <3>1. clen \in Byte /\ b \in Byte
      BY <2>1, <1>0
    <3>2. /\ clen + 256 * b \in Word16
          /\ (clen + 256 * b) % 256 = clen /\ (clen + 256 * b) \div 256 = b
      BY <3>1, BytesLength
    <3> QED
      BY <3>2, <2>1
  <2>6. clen' <= MaxFrame /\ Announced(Sent) = clen' /\ clen' \in Nat /\ MaxFrame \in Nat
    <3>1. Announced(Sent) = Announced(g)
      <4>1. g \in Seq(Byte) /\ t \in Seq(Byte) /\ Len(g) >= 4
        BY <1>0, <2>3
      <4>2. Announced(g \o t) = Announced(g)
        BY <4>1, HeadStays
      <4> QED
        BY <4>2, <1>0
    <3>2. Headed(Sent)
      BY <1>0, <2>1
    <3>3. \A n \in Word16 : n \in Nat
      BY DEF Word16
    <3> QED
      BY <3>1, <3>2, <3>3, <2>4, <2>5, ModemAssumption DEF Headed
  <2>7. CASE clen' = 0
    <3>1. cstate' = "SOF" /\ HandleCommand(ctype, <<>>)
      BY <2>6, <2>7, <1>8 DEF OnLenHi, Goto, AfterLength
    <3>2. /\ Whole(g \o t) /\ After(g \o t) = t /\ (g \o t)[2] = g[2]
          /\ Payload(g \o t) = Payload(g) /\ Payload(g) \in Seq(Byte) /\ Len(Payload(g)) = 0
      <4>1. g \in Seq(Byte) /\ t \in Seq(Byte)
        BY <1>0
      <4>2. Len(g) >= 4 /\ g[1] = USB_SOF /\ Len(g) = 4 + Announced(g) /\ Announced(g) <= MaxFrame
        BY <2>3, <2>4, <2>6, <2>7
      <4>3. Announced(g) = 0
        BY <2>4, <2>7
      <4> QED
        BY <4>1, <4>2, <4>3, ReadToItsEnd
    <3>3. Payload(g) = <<>>
      BY <3>2
    <3>4. Completes
      BY <3>1, <3>2, <3>3, <2>3, <1>0, <1>3 DEF Completes
    <3>5. <<>> \in Seq(Byte)
      OBVIOUS
    <3>6. /\ up' \in Seq(Replies \cup Async)
          /\ configured' \in BOOLEAN /\ dir' \in {"idle", "tx", "rx"} /\ dir' # "tx"
      BY <3>1, <3>5, <1>0, <1>1, HandlerTypes
    <3>7. Len(<<>>) <= MaxFrame
      BY <2>6
    <3>8. ModemTyped'
      BY <3>1, <3>5, <3>6, <3>7, <2>1, <2>5, <1>0, <1>1 DEF ModemTyped, ParserTyped, PipesTyped
    <3> QED
      BY <3>4, <3>8
  <2>8. CASE clen' # 0
    <3>1. clen' \in 1 .. MaxFrame /\ ~(clen' > MaxFrame)
      BY <2>6, <2>8
    <3>2. cstate' = "PAYLOAD" /\ Stay
      BY <3>1, <2>8, <1>8 DEF OnLenHi, Goto, AfterLength
    <3>3. Seen' = <<USB_SOF, ctype', clen' % 256, clen' \div 256>> \o cbuf'
      BY <3>2 DEF Seen
    <3>4. Seen' = <<USB_SOF, ctype, clen, b>> \o <<>>
      BY <3>3, <2>1, <2>5
    <3>5. Seen' = g
      BY <3>4, <2>2, <1>0, ConcatEmptySeq
    <3>6. Len(<<>>) <= MaxFrame /\ <<>> \in Seq(Byte) /\ Len(<<>>) < clen'
      BY <2>6, <3>1
    <3>7. ModemTyped'
      BY <3>1, <3>2, <3>6, <2>1, <2>5, <1>0, <1>1, <1>4 DEF ModemTyped, ParserTyped, Stay
    <3> QED
      BY <3>2, <3>5, <3>7, <1>2, <1>4 DEF Advances
  <2> QED
    BY <2>7, <2>8
<1>9. ASSUME OnPayload(b) PROVE ModemTyped' /\ (Advances \/ Completes)
  <2>1. /\ cstate = "PAYLOAD" /\ cbuf' = Append(cbuf, b) /\ ctype' = ctype /\ clen' = clen
        /\ Len(cbuf) < clen /\ clen <= MaxFrame
    BY <1>1, <1>9 DEF OnPayload, ParserTyped
  <2>2. /\ Len(Seen) = 4 + Len(cbuf) /\ Announced(Seen) = clen /\ Seen[2] = ctype
        /\ Seen[1] = USB_SOF /\ \A i \in 1 .. Len(cbuf) : Seen[4 + i] = cbuf[i]
    BY <2>1, SeenIsBytes
  <2>3. /\ cbuf' \in Seq(Byte) /\ Len(cbuf') = Len(cbuf) + 1 /\ Len(cbuf) \in Nat
        /\ \A i \in 1 .. Len(cbuf) : cbuf'[i] = cbuf[i]
        /\ cbuf'[Len(cbuf) + 1] = b
    BY <2>1, <1>0, <1>1, AppendProperties
  <2>4. /\ Len(g) = Len(Seen) + 1 /\ \A i \in 1 .. Len(Seen) : g[i] = Seen[i]
        /\ g[Len(Seen) + 1] = b
    BY <1>0, <1>1, AppendProperties
  <2>5. clen \in Nat /\ MaxFrame \in Nat
    <3>1. \A n \in Word16 : n \in Nat
      BY DEF Word16
    <3>2. clen \in Word16 /\ MaxFrame \in Word16
      BY <1>1, ModemAssumption
    <3> QED
      BY <3>1, <3>2
  <2> HIDE DEF g
  <2>6. g[1] = USB_SOF /\ g[2] = ctype /\ Announced(g) = clen /\ Len(g) = 4 + Len(cbuf')
    <3>1. \A i \in 1 .. 4 : g[i] = Seen[i]
      BY <2>2, <2>3, <2>4
    <3> QED
      BY <3>1, <2>2, <2>3, <2>4 DEF Announced
  <2>7. CASE Len(cbuf') >= clen
    <3>1. Len(cbuf') = clen
      BY <2>1, <2>3, <2>5, <2>7
    <3>2. cstate' = "SOF" /\ HandleCommand(ctype, cbuf')
      BY <2>7, <1>9 DEF OnPayload, Goto
    <3>3. Len(g) >= 4 /\ Len(g) = 4 + Announced(g) /\ Announced(g) <= MaxFrame
      BY <3>1, <2>1, <2>5, <2>6
    <3>4. /\ Whole(g \o t) /\ After(g \o t) = t /\ (g \o t)[2] = g[2]
          /\ Payload(g \o t) = Payload(g) /\ Payload(g) \in Seq(Byte)
          /\ Len(Payload(g)) = Announced(g)
          /\ \A i \in 1 .. Announced(g) : Payload(g)[i] = g[4 + i]
      BY <3>3, <2>6, <1>0, ReadToItsEnd
    <3>5. ASSUME NEW i \in 1 .. clen PROVE Payload(g)[i] = cbuf'[i]
      <4>1. Payload(g)[i] = g[4 + i]
        BY <3>4, <2>6
      <4>2. CASE i \in 1 .. Len(cbuf)
        <5>1. 4 + i \in 1 .. Len(Seen)
          BY <4>2, <2>2, <2>3
        <5> QED
          BY <5>1, <4>1, <4>2, <2>2, <2>3, <2>4
      <4>3. CASE i = Len(cbuf) + 1
        <5>1. 4 + i = Len(Seen) + 1
          BY <4>3, <2>2, <2>3
        <5> QED
          BY <5>1, <4>1, <4>3, <2>3, <2>4
      <4> QED
        BY <4>2, <4>3, <3>1, <2>3
    <3>6. Payload(g) = cbuf'
      BY <3>1, <3>4, <3>5, <2>3, <2>6, SeqEqual
    <3>7. Completes
      BY <3>2, <3>4, <3>6, <2>6, <1>0, <1>3 DEF Completes
    <3>8. /\ up' \in Seq(Replies \cup Async)
          /\ configured' \in BOOLEAN /\ dir' \in {"idle", "tx", "rx"}
      BY <3>2, <2>3, <1>0, <1>1, HandlerTypes
    <3>9. cbuf' # <<>>
      BY <2>3
    <3>10. ModemTyped'
      BY <3>1, <3>2, <3>8, <3>9, <2>1, <2>3, <1>0, <1>1 DEF ModemTyped, ParserTyped, PipesTyped
    <3> QED
      BY <3>7, <3>10
  <2>8. CASE ~(Len(cbuf') >= clen)
    <3>1. cstate' = "PAYLOAD" /\ Stay /\ Len(cbuf') < clen /\ Len(cbuf') <= MaxFrame
      BY <2>1, <2>3, <2>5, <2>8, <1>9 DEF OnPayload, Goto
    <3> DEFINE h == <<USB_SOF, ctype, clen % 256, clen \div 256>>
    <3>2. Seen = h \o cbuf
      BY <2>1 DEF Seen
    <3>3. Seen' = h \o cbuf'
      BY <3>1, <2>1 DEF Seen
    <3>4. h \in Seq(Byte)
      BY <1>1, LengthBytes
    <3>5. <<b>> \in Seq(Byte)
      BY <1>0
    <3> HIDE DEF h
    <3>6. cbuf' = cbuf \o <<b>> /\ g = Seen \o <<b>>
      BY <2>1, <1>0, <1>1, AppendIsConcat DEF g
    <3>7. (h \o cbuf) \o <<b>> = h \o (cbuf \o <<b>>)
      BY <3>4, <3>5, <1>1, ConcatAssociative
    <3>8. Seen' = g
      BY <3>2, <3>3, <3>6, <3>7
    <3>9. ModemTyped'
      BY <3>1, <2>1, <2>3, <1>0, <1>1, <1>4 DEF ModemTyped, ParserTyped, Stay
    <3> QED
      BY <3>1, <3>8, <3>9, <1>2, <1>4 DEF Advances
  <2> QED
    BY <2>7, <2>8
<1> QED
  BY <1>0, <1>5, <1>6, <1>7, <1>8, <1>9 DEF ModemReadByte

\* A modem that has read everything waits for a command, or for what it is owed.
LEMMA Parked ==
    ASSUME ModemTyped, down = <<>>, Loose(Sent)
    PROVE  Sent = <<>> \/ Lost(Sent)
<1>1. CASE cstate = "SOF"
  BY <1>1, SeenIsBytes
<1>2. CASE cstate # "SOF"
  <2>1. Seen \in Seq(Byte) /\ Seen # <<>> /\ Seen[1] = USB_SOF
    BY <1>2, SeenIsBytes
  <2>2. Sent = Seen
    BY <2>1, ConcatEmptySeq DEF Sent
  <2>3. Headed(Sent)
    BY <2>1, <2>2, LooseGoesOn
  <2>4. cstate = "PAYLOAD"
    <3>1. Len(Sent) >= 4 /\ Len(Sent) \in Nat
      BY <2>1, <2>2, <2>3 DEF Headed
    <3> QED
      BY <3>1, <1>2, <2>2, SeenIsBytes
  <2>5. ~Whole(Sent)
    <3>1. Len(Sent) = 4 + Len(cbuf) /\ Announced(Sent) = clen
      BY <2>2, <2>4, SeenIsBytes
    <3>2. Len(cbuf) \in Nat /\ clen \in Nat /\ Len(cbuf) < clen
      BY <2>4 DEF ModemTyped, ParserTyped, Word16
    <3> QED
      BY <3>1, <3>2 DEF Whole
  <2>6. CASE Harmless(Sent)
    <3>1. Sent = Stop
      BY <2>1, <2>2, <2>6, HarmlessGoesOn
    <3> QED
      BY <3>1, <2>5, FourBytes
  <2> QED
    BY <2>5, <2>6 DEF Loose
<1> QED
  BY <1>1, <1>2

-----------------------------------------------------------------------------
(* Messages on their way to the host                                       *)

Message == Replies \cup Async
Silent(u) == \A i \in 1 .. Len(u) : u[i] \in Async
Once(u, r) == \E k \in 1 .. Len(u) : u[k] = r /\ \A i \in 1 .. Len(u) : i # k => u[i] \in Async
Last(u, r) == \E v \in Seq(Message) : Silent(v) /\ u = Append(v, r)
First(u, r) == u # <<>> /\ Head(u) = r /\ Silent(Tail(u))
Never(u, r) == \A i \in 1 .. Len(u) : u[i] # r

LEMMA NoneIsBoth == \A m \in Replies : m \notin Async /\ m \in Message
BY DEF Replies, Async, Message

LEMMA NothingIsSilent == Silent(<<>>) /\ (\A r : Never(<<>>, r)) /\ <<>> \in Seq(Message)
BY DEF Silent, Never

\* A message is added.
LEMMA Added ==
    ASSUME NEW u \in Seq(Message), NEW m \in Message
    PROVE  /\ Append(u, m) \in Seq(Message)
           /\ Silent(u) /\ m \in Async => Silent(Append(u, m))
           /\ Silent(u) => Once(Append(u, m), m) /\ Last(Append(u, m), m)
           /\ \A r \in Replies : Once(u, r) /\ m \in Async => Once(Append(u, m), r)
           /\ \A r \in Replies : Never(u, r) /\ m # r => Never(Append(u, m), r)
           /\ \A r \in Replies : First(u, r) /\ m \in Async => First(Append(u, m), r)
           /\ u = <<>> => First(Append(u, m), m)
<1> DEFINE a == Append(u, m)
           n == Len(u)
<1>1. /\ a \in Seq(Message) /\ a # <<>> /\ Len(a) = n + 1 /\ n \in Nat
      /\ \A i \in 1 .. n : a[i] = u[i]
      /\ a[n + 1] = m
  BY AppendProperties
<1>2. \A i \in 1 .. n + 1 : i \in 1 .. n \/ i = n + 1
  BY <1>1
<1>3. Silent(u) /\ m \in Async => Silent(a)
  <2> HIDE DEF a
  <2> QED
    BY <1>1, <1>2 DEF Silent
<1>4. ASSUME Silent(u) PROVE Once(a, m) /\ Last(a, m)
  <2>1. Last(a, m)
    BY <1>4 DEF Last
  <2> HIDE DEF a, n
  <2>2. n + 1 \in 1 .. Len(a) /\ a[n + 1] = m
    BY <1>1
  <2>3. ASSUME NEW i \in 1 .. Len(a), i # n + 1 PROVE a[i] \in Async
    <3>1. i \in 1 .. n
      BY <2>3, <1>1, <1>2
    <3> QED
      BY <3>1, <1>1, <1>4 DEF Silent, n
  <2>4. Once(a, m)
    BY <2>2, <2>3 DEF Once
  <2> QED
    BY <2>1, <2>4
<1>5. ASSUME NEW r \in Replies, Once(u, r), m \in Async PROVE Once(a, r)
  <2>1. PICK k \in 1 .. n : u[k] = r /\ \A i \in 1 .. n : i # k => u[i] \in Async
    BY <1>5 DEF Once
  <2> HIDE DEF a, n
  <2>2. k \in 1 .. Len(a) /\ a[k] = r
    BY <2>1, <1>1
  <2>3. ASSUME NEW i \in 1 .. Len(a), i # k PROVE a[i] \in Async
    BY <2>1, <2>3, <1>1, <1>2, <1>5
  <2> QED
    BY <2>2, <2>3 DEF Once
<1>6. ASSUME NEW r \in Replies, Never(u, r), m # r PROVE Never(a, r)
  <2> HIDE DEF a
  <2> QED
    BY <1>1, <1>2, <1>6 DEF Never
<1>7. ASSUME NEW r \in Replies, First(u, r), m \in Async PROVE First(a, r)
  <2>1. u # <<>> /\ Head(u) = r /\ Silent(Tail(u)) /\ Tail(u) \in Seq(Message)
    BY <1>7, HeadTailProperties DEF First
  <2>2. Head(a) = r /\ Tail(a) = Append(Tail(u), m)
    BY <2>1, HeadTailAppend
  <2> DEFINE t == Tail(u)
             b == Append(t, m)
  <2>3. /\ Len(b) = Len(t) + 1 /\ Len(t) \in Nat
        /\ \A i \in 1 .. Len(t) : b[i] = t[i]
        /\ b[Len(t) + 1] = m
    BY <2>1, AppendProperties
  <2>4. Silent(t)
    BY <2>1
  <2> HIDE DEF b, t
  <2>5. Silent(b)
    <3>1. \A i \in 1 .. Len(t) + 1 : i \in 1 .. Len(t) \/ i = Len(t) + 1
      BY <2>3
    <3> QED
      BY <3>1, <2>3, <2>4, <1>7 DEF Silent
  <2> QED
    BY <2>2, <2>5, <1>1 DEF First, b, t
<1>8. ASSUME u = <<>> PROVE First(a, m)
  <2>1. Head(a) = m /\ Tail(a) = <<>>
    BY <1>8, HeadTailAppend
  <2> QED
    BY <2>1, <1>1, NothingIsSilent DEF First
<1> QED
  BY <1>1, <1>3, <1>4, <1>5, <1>6, <1>7, <1>8

\* A message is read.
LEMMA Taken ==
    ASSUME NEW u \in Seq(Message), u # <<>>, NEW r \in Replies
    PROVE  /\ Head(u) \in Message /\ Tail(u) \in Seq(Message)
           /\ Silent(u) => Head(u) \in Async /\ Silent(Tail(u))
           /\ Never(u, r) => Head(u) # r /\ Never(Tail(u), r)
           /\ Once(u, r) => \/ Head(u) = r /\ Silent(Tail(u))
                            \/ Head(u) \in Async /\ Once(Tail(u), r)
           /\ Last(u, r) => \/ Head(u) = r /\ Tail(u) = <<>>
                            \/ Head(u) \in Async /\ Last(Tail(u), r)
<1> DEFINE t == Tail(u)
<1>1. /\ Head(u) \in Message /\ t \in Seq(Message) /\ Len(t) = Len(u) - 1
      /\ \A i \in 1 .. Len(t) : t[i] = u[i + 1]
  BY HeadTailProperties
<1>2. Head(u) = u[1] /\ Len(u) \in Nat /\ Len(u) >= 1 /\ 1 \in 1 .. Len(u)
  BY EmptySeq
<1> HIDE DEF t
<1>3. \A i \in 1 .. Len(t) : i \in Nat /\ i + 1 \in 1 .. Len(u)
  BY <1>1, <1>2
<1>4. ASSUME Silent(u) PROVE Head(u) \in Async /\ Silent(t)
  BY <1>1, <1>2, <1>3, <1>4 DEF Silent
<1>5. ASSUME Never(u, r) PROVE Head(u) # r /\ Never(t, r)
  BY <1>1, <1>2, <1>3, <1>5 DEF Never
<1>6. ASSUME Once(u, r)
      PROVE  \/ Head(u) = r /\ Silent(t)
             \/ Head(u) \in Async /\ Once(t, r)
  <2>1. PICK k \in 1 .. Len(u) : u[k] = r /\ \A i \in 1 .. Len(u) : i # k => u[i] \in Async
    BY <1>6 DEF Once
  <2>2. CASE k = 1
    <3>1. \A i \in 1 .. Len(t) : i + 1 # 1
      BY <1>3
    <3> QED
      BY <3>1, <2>1, <2>2, <1>1, <1>2, <1>3 DEF Silent
  <2>3. CASE k # 1
    <3> DEFINE j == k - 1
    <3>1. j \in 1 .. Len(t) /\ k = j + 1
      BY <2>3, <1>1, <1>2
    <3> HIDE DEF j
    <3>2. t[j] = r
      BY <3>1, <2>1, <1>1
    <3>3. ASSUME NEW i \in 1 .. Len(t), i # j PROVE t[i] \in Async
      <4>1. i + 1 \in 1 .. Len(u) /\ i + 1 # k /\ t[i] = u[i + 1]
        BY <3>1, <3>3, <1>1, <1>3
      <4> QED
        BY <4>1, <2>1
    <3>4. Once(t, r)
      BY <3>1, <3>2, <3>3 DEF Once
    <3>5. Head(u) \in Async
      BY <2>1, <2>3, <1>2
    <3> QED
      BY <3>4, <3>5
  <2> QED
    BY <2>2, <2>3
<1>7. ASSUME Last(u, r)
      PROVE  \/ Head(u) = r /\ t = <<>>
             \/ Head(u) \in Async /\ Last(t, r)
  <2>1. PICK v \in Seq(Message) : Silent(v) /\ u = Append(v, r)
    BY <1>7 DEF Last
  <2>2. /\ Head(u) = IF v = <<>> THEN r ELSE Head(v)
        /\ Tail(u) = IF v = <<>> THEN <<>> ELSE Append(Tail(v), r)
    BY <2>1, HeadTailAppend
  <2>3. CASE v = <<>>
    BY <2>2, <2>3 DEF t
  <2>4. CASE v # <<>>
    <3>1. Tail(v) \in Seq(Message) /\ Len(Tail(v)) = Len(v) - 1
          /\ \A i \in 1 .. Len(Tail(v)) : Tail(v)[i] = v[i + 1]
      BY <2>1, <2>4, HeadTailProperties
    <3>2. Len(v) \in Nat /\ 1 \in 1 .. Len(v) /\ Head(v) = v[1]
      BY <2>1, <2>4, EmptySeq
    <3>3. \A i \in 1 .. Len(Tail(v)) : i + 1 \in 1 .. Len(v)
      BY <3>1, <3>2
    <3>4. Silent(Tail(v)) /\ Head(v) \in Async
      BY <3>1, <3>2, <3>3, <2>1 DEF Silent
    <3> QED
      BY <3>1, <3>4, <2>2, <2>4 DEF Last, t
  <2> QED
    BY <2>3, <2>4
<1> QED
  BY <1>1, <1>4, <1>5, <1>6, <1>7 DEF t

\* A message that is there has to be read first.
LEMMA SomeIsThere ==
    ASSUME NEW u \in Seq(Message), NEW r \in Replies
    PROVE  /\ Once(u, r) => u # <<>>
           /\ Last(u, r) => u # <<>> /\ Once(u, r)
           /\ First(u, r) => u # <<>> /\ Once(u, r)
<1>1. ASSUME Once(u, r) PROVE u # <<>>
  <2>1. PICK k \in 1 .. Len(u) : u[k] = r
    BY <1>1 DEF Once
  <2>2. Len(u) # 0
    BY <2>1
  <2> QED
    BY <2>2
<1>2. ASSUME Last(u, r) PROVE Once(u, r)
  <2>1. PICK v \in Seq(Message) : Silent(v) /\ u = Append(v, r)
    BY <1>2 DEF Last
  <2> QED
    BY <2>1, NoneIsBoth, Added
<1>3. ASSUME First(u, r) PROVE u # <<>> /\ Once(u, r)
  <2>1. u # <<>> /\ Head(u) = r /\ Silent(Tail(u))
    BY <1>3 DEF First
  <2>2. /\ Len(Tail(u)) = Len(u) - 1 /\ \A i \in 1 .. Len(Tail(u)) : Tail(u)[i] = u[i + 1]
    BY <2>1, HeadTailProperties
  <2>3. Len(u) \in Nat /\ 1 \in 1 .. Len(u) /\ Head(u) = u[1]
    BY <2>1, EmptySeq
  <2>4. ASSUME NEW i \in 1 .. Len(u), i # 1 PROVE u[i] \in Async
    <3> DEFINE j == i - 1
    <3>1. j \in 1 .. Len(Tail(u)) /\ i = j + 1
      BY <2>2, <2>3, <2>4
    <3> HIDE DEF j
    <3> QED
      BY <3>1, <2>1, <2>2 DEF Silent
  <2> QED
    BY <2>1, <2>3, <2>4 DEF Once
<1> QED
  BY <1>1, <1>2, <1>3

-----------------------------------------------------------------------------
(* Where a run is, and what is under way                                   *)

\* A command cut off is owed at most what the handshakes refused so far, and the n
\* bytes of this one, have left of the longest frame less its first chunk.
OwedAtMost(s, n) ==
    Lost(s) => cut /\ Owed(s) + n + 8 * refusals + Chunk <= MaxFrame + 4

Quiet == dir # "tx"
Clear == Sent = <<>> /\ out = <<>>
Pending(c) == (out = c /\ Sent = <<>>) \/ (out = <<>> /\ Sent = c)
Asked == configured /\ cfg = want

Config == Command(CMD_CONFIG, ConfigPayload)
Rx == Command(CMD_RX, <<>>)
Tx(p) == Command(CMD_TX, p)

AtRest == out = <<>> /\ Loose(Sent) /\ OwedAtMost(Sent, 0)

AtPark == AtRest \/ (out = Stop /\ Simple(Sent) /\ OwedAtMost(Sent, 0))

AtStop ==
    \/ out = Stop /\ (Sent = <<>> \/ Lost(Sent)) /\ OwedAtMost(Sent, 0)
    \/ out = <<>> /\ Simple(Sent) /\ OwedAtMost(Sent, 4)

\* The PING is for a command cut off.
Astray ==
    /\ cut /\ 8 * refusals + 1 + Chunk <= MaxFrame
    /\ Never(up, "pong")
    /\ \/ out = Ping /\ Lost(Sent) /\ OwedAtMost(Sent, 4)
       \/ out = <<>> /\ Simple(Sent) /\ OwedAtMost(Sent, 8) /\ (Whole(Sent) => Sent[2] = CMD_TX)

AtPing ==
    \/ Pending(Ping) /\ Quiet /\ Silent(up)
    \/ Clear /\ Quiet /\ Once(up, "pong")
    \/ Astray

AtConfig ==
    \/ Pending(Config) /\ Quiet /\ Silent(up)
    \/ Clear /\ dir = "idle" /\ Asked /\ Last(up, "ok")

AtReady == Clear /\ dir = "idle" /\ Asked /\ up = <<>>

AtWorking == Clear /\ Quiet /\ Asked /\ Silent(up)

HalfSent(p) ==
    /\ pc = "tx" /\ half /\ out # <<>> /\ Chunk <= Len(Sent)
    /\ Sent \o out = Tx(p)

AtTx ==
    /\ Asked
    /\ \/ \E p \in Payloads : (Pending(Tx(p)) \/ HalfSent(p)) /\ Quiet /\ Silent(up)
       \/ Clear /\ dir = "tx" /\ Silent(up)
       \/ Clear /\ Quiet /\ Once(up, "tx_done")

AtRx ==
    /\ Asked
    /\ \/ Pending(Rx) /\ dir = "idle" /\ up = <<>>
       \/ Clear /\ dir = "rx" /\ First(up, "ok")

Place ==
    /\ pc \in {"closed", "failed"} => AtRest
    /\ pc = "park" => AtPark
    /\ pc = "stop" => AtStop
    /\ pc \in {"ping", "pong"} => AtPing
    /\ pc \in {"config", "ok"} => AtConfig
    /\ pc = "ready" => AtReady
    /\ pc = "working" => AtWorking
    /\ pc \in {"tx", "tx_wait"} => AtTx
    /\ pc \in {"rx", "rx_wait"} => AtRx
    /\ pc \in {"pong", "ok", "tx_wait", "rx_wait"} => out = <<>>
    /\ half => \E p \in Payloads : HalfSent(p)

Counted ==
    /\ refusals <= runs
    /\ pc \in Opening \cup Working => refusals < runs
    /\ pc \in Working => refusals = 0
    /\ pc = "failed" => cut
    /\ refusals > 0 => 8 * refusals + Chunk < MaxFrame + 8

IInv == ModemTyped /\ HostTyped /\ Place /\ Counted

-----------------------------------------------------------------------------
(* What the invariant says of the bytes under way                          *)

LEMMA Numbers ==
    /\ MaxFrame \in Nat /\ Chunk \in Nat /\ ConfigLen \in Nat /\ MaxRuns \in Nat
    /\ ConfigLen <= MaxFrame /\ 1 <= ConfigLen /\ 2 <= MaxFrame /\ 4 + ConfigLen <= Chunk
<1>1. MaxFrame \in Nat
  BY ModemAssumption DEF Word16
<1> QED
  BY <1>1, ModemAssumption, HandshakeAssumption

\* The commands of a run are whole, and each but a frame is a single chunk.
LEMMA RunCommands ==
    /\ Reads(Stop, CMD_STOP, <<>>) /\ Reads(Ping, CMD_PING, <<>>) /\ Reads(Rx, CMD_RX, <<>>)
    /\ \A p \in Payloads : Reads(Tx(p), CMD_TX, p) /\ Len(p) >= 2
    /\ want \in Configs =>
         /\ Reads(Config, CMD_CONFIG, ConfigPayload)
         /\ Len(ConfigPayload) = ConfigLen /\ NewCfg(ConfigPayload) = want
    /\ Len(Stop) <= Chunk /\ Len(Ping) <= Chunk /\ Len(Rx) <= Chunk
<1> DEFINE e == <<>>
<1>1. e \in Seq(Byte) /\ Len(e) = 0 /\ Len(e) \in 0 .. MaxFrame
  BY Numbers
<1>2. /\ CMD_STOP \in Byte /\ CMD_PING \in Byte /\ CMD_RX \in Byte /\ CMD_TX \in Byte
      /\ CMD_CONFIG \in Byte
  BY DEF CMD_STOP, CMD_PING, CMD_RX, CMD_TX, CMD_CONFIG, Byte
<1> HIDE DEF e
<1>3. Reads(Command(CMD_STOP, e), CMD_STOP, e)
  BY <1>1, <1>2, CommandIsWhole
<1>4. Reads(Command(CMD_PING, e), CMD_PING, e)
  BY <1>1, <1>2, CommandIsWhole
<1>5. Reads(Command(CMD_RX, e), CMD_RX, e)
  BY <1>1, <1>2, CommandIsWhole
<1>6. Reads(Stop, CMD_STOP, e) /\ Reads(Ping, CMD_PING, e) /\ Reads(Rx, CMD_RX, e)
  BY <1>3, <1>4, <1>5 DEF Stop, Ping, Rx, e
<1>7. ASSUME NEW p \in Payloads PROVE Reads(Tx(p), CMD_TX, p) /\ Len(p) >= 2
  <2>1. p \in Seq(Byte) /\ Len(p) \in 2 .. MaxFrame /\ Len(p) \in 0 .. MaxFrame /\ Len(p) >= 2
    BY HandshakeAssumption, Numbers
  <2> QED
    BY <2>1, <1>2, CommandIsWhole DEF Tx
<1>8. ASSUME want \in Configs
      PROVE  /\ Reads(Config, CMD_CONFIG, ConfigPayload)
             /\ Len(ConfigPayload) = ConfigLen /\ NewCfg(ConfigPayload) = want
  <2>1. want \in Byte
    BY <1>8, HandshakeAssumption
  <2>2. /\ ConfigPayload \in Seq(Byte) /\ Len(ConfigPayload) = ConfigLen
        /\ ConfigPayload[1] = want
    BY <2>1, Numbers DEF ConfigPayload
  <2>3. Len(ConfigPayload) \in 0 .. MaxFrame
    BY <2>2, Numbers
  <2> QED
    BY <2>2, <2>3, <1>2, CommandIsWhole DEF Config, NewCfg
<1>9. Len(Stop) <= Chunk /\ Len(Ping) <= Chunk /\ Len(Rx) <= Chunk
  BY <1>1, <1>6, Numbers DEF Reads
<1> QED
  BY <1>6, <1>7, <1>8, <1>9 DEF e

\* In the middle of a run nothing is under way but a command, bytes of no use, or a
\* command cut off before; or one that will have been, should the run end now.
LEMMA UnderWay ==
    ASSUME IInv, pc \in Opening \cup Working
    PROVE  /\ Simple(Sent)
           /\ Lost(Sent) => (cut \/ half) /\ Owed(Sent) + 8 * refusals + Chunk <= MaxFrame + 4
<1>0. Sent \in Seq(Byte) /\ out \in Seq(Byte) /\ want \in Configs /\ refusals \in Nat
  BY SeenIsBytes DEF IInv, HostTyped
<1> DEFINE Fine == Simple(Sent) /\ ~Lost(Sent)
<1>1. Sent = <<>> => Fine
  BY NothingIsSimple
<1>2. /\ \A c \in {Stop, Ping, Rx, Config} : Sent = c => Fine
      /\ \A p \in Payloads : Sent = Tx(p) => Fine
  BY <1>0, RunCommands DEF Reads
<1>3. Lost(Sent) => Owed(Sent) \in Nat
  <2>1. SUFFICES ASSUME Lost(Sent) PROVE Owed(Sent) \in Nat
    OBVIOUS
  <2> QED
    BY <2>1, <1>0, LostTakes
<1>4. CASE pc = "stop"
  <2>1. Simple(Sent) /\ (OwedAtMost(Sent, 0) \/ OwedAtMost(Sent, 4))
    BY <1>1, <1>4 DEF IInv, Place, AtStop, Simple
  <2>2. Lost(Sent) => cut /\ Owed(Sent) + 8 * refusals + Chunk <= MaxFrame + 4
    BY <2>1, <1>0, <1>3, Numbers DEF OwedAtMost
  <2> QED
    BY <2>1, <2>2
<1>5. CASE pc \in {"ping", "pong"}
  <2>1. CASE Astray
    BY <1>0, <1>3, <2>1, Numbers DEF Astray, OwedAtMost, Simple
  <2>2. CASE ~Astray
    BY <1>1, <1>2, <1>5, <2>2 DEF IInv, Place, AtPing, Pending, Clear
  <2> QED
    BY <2>1, <2>2
<1>6. CASE pc \in {"config", "ok"}
  BY <1>1, <1>2, <1>6 DEF IInv, Place, AtConfig, Pending, Clear
<1>7. CASE pc \in {"ready", "working"}
  BY <1>1, <1>7 DEF IInv, Place, AtReady, AtWorking, Clear
<1>8. CASE pc \in {"tx", "tx_wait"}
  <2>1. ASSUME NEW p \in Payloads, HalfSent(p)
        PROVE  /\ Lost(Sent) /\ Owed(Sent) + Len(Sent) <= MaxFrame + 4 /\ Chunk <= Len(Sent)
               /\ pc = "tx" /\ half
    <3>1. Sent \o out = Command(CMD_TX, p) /\ Len(Sent) >= 4 /\ out # <<>>
      BY <2>1, <1>0, Numbers DEF HalfSent, Tx
    <3> QED
      BY <3>1, <2>1, <1>0, PartIsLost DEF HalfSent
  <2>2. CASE \E p \in Payloads : HalfSent(p)
    <3>1. refusals = 0
      BY <1>8 DEF IInv, Counted, Working
    <3>2. /\ Lost(Sent) /\ Owed(Sent) + Len(Sent) <= MaxFrame + 4 /\ Chunk <= Len(Sent) /\ half
      BY <2>1, <2>2
    <3>3. Len(Sent) \in Nat /\ Owed(Sent) \in Nat
      BY <3>2, <1>0, <1>3
    <3> QED
      BY <3>1, <3>2, <3>3, Numbers DEF Simple
  <2>3. CASE ~\E p \in Payloads : HalfSent(p)
    BY <1>1, <1>2, <1>8, <2>3 DEF IInv, Place, AtTx, Pending, Clear
  <2> QED
    BY <2>2, <2>3
<1>9. CASE pc \in {"rx", "rx_wait"}
  BY <1>1, <1>2, <1>9 DEF IInv, Place, AtRx, Pending, Clear
<1>10. \/ pc = "stop" \/ pc \in {"ping", "pong"} \/ pc \in {"config", "ok"}
       \/ pc \in {"ready", "working"} \/ pc \in {"tx", "tx_wait"} \/ pc \in {"rx", "rx_wait"}
  BY DEF Opening, Working
<1> QED
  BY <1>4, <1>5, <1>6, <1>7, <1>8, <1>9, <1>10

\* Whatever is under way is what a run may leave behind.
LEMMA AlwaysLoose ==
    ASSUME IInv
    PROVE  Sent \in Seq(Byte) /\ Loose(Sent)
<1>1. Sent \in Seq(Byte)
  BY SeenIsBytes DEF IInv
<1>2. CASE pc \in Opening \cup Working
  BY <1>1, <1>2, UnderWay, SimpleIsLoose
<1>3. CASE pc \notin Opening \cup Working
  BY <1>1, <1>3, SimpleIsLoose DEF IInv, HostTyped, Place, AtRest, AtPark
<1> QED
  BY <1>1, <1>2, <1>3

-----------------------------------------------------------------------------
(* The steps of the modem                                                  *)

LEMMA SentStays ==
    ASSUME UNCHANGED <<down, cstate, ctype, clen, cbuf>>
    PROVE  Sent' = Sent
BY DEF Sent, Seen

\* A byte taken into a command changes nothing of what is under way.
LEMMA AdvanceKeepsPlace ==
    ASSUME IInv, Advances, UNCHANGED hostVars
    PROVE  Place'
<1>1. /\ Sent' = Sent /\ up' = up /\ configured' = configured /\ cfg' = cfg /\ dir' = dir
      /\ pc' = pc /\ out' = out /\ half' = half /\ want' = want /\ cut' = cut /\ refusals' = refusals
  BY DEF Advances, hostVars, ghostVars
<1>2. (AtRest <=> AtRest') /\ (AtPark <=> AtPark') /\ (AtStop <=> AtStop')
  BY <1>1 DEF AtRest, AtPark, AtStop, OwedAtMost
<1>3. AtPing <=> AtPing'
  BY <1>1 DEF AtPing, Astray, OwedAtMost, Pending, Clear, Quiet
<1>4. AtConfig <=> AtConfig'
  BY <1>1 DEF AtConfig, Pending, Clear, Quiet, Asked, Config, ConfigPayload
<1>5. (AtReady <=> AtReady') /\ (AtWorking <=> AtWorking') /\ (AtRx <=> AtRx')
  BY <1>1 DEF AtReady, AtWorking, AtRx, Pending, Clear, Quiet, Asked
<1>6. ASSUME NEW p PROVE (Pending(Tx(p)) <=> Pending(Tx(p))') /\ (HalfSent(p) <=> HalfSent(p)')
  BY <1>1 DEF Pending, HalfSent
<1>7. AtTx <=> AtTx'
  BY <1>1, <1>6 DEF AtTx, Clear, Quiet, Asked
<1> QED
  BY <1>1, <1>2, <1>3, <1>4, <1>5, <1>6, <1>7 DEF IInv, Place

\* A command cut off is read on and on: only what is whole is handled.
LEMMA OnlyWhole ==
    ASSUME IInv, Sent # <<>>, Skips \/ Completes
    PROVE  /\ ~Lost(Sent)
           /\ Skips => /\ ~Whole(Sent)
                       /\ Simple(Sent) => Sent' \in Seq(Byte) /\ Junk(Sent')
                       /\ Loose(Sent') /\ ~Lost(Sent')
           /\ Completes => /\ Whole(Sent)
                           /\ Simple(Sent) => Sent' \in Seq(Byte) /\ Junk(Sent')
                           /\ Loose(Sent') /\ ~Lost(Sent')
<1>1. Sent \in Seq(Byte) /\ Loose(Sent)
  BY AlwaysLoose
<1>2. Skips => Sent[1] # USB_SOF /\ Sent' = Tail(Sent)
  BY DEF Skips
<1>3. Completes => Whole(Sent) /\ Sent' = After(Sent)
  BY DEF Completes
<1>4. Sent[1] # USB_SOF => ~Lost(Sent) /\ ~Whole(Sent)
  BY DEF Lost, Whole, Headed
<1>5. Whole(Sent) => ~Lost(Sent)
  BY <1>1, WholeIsNotLost
<1>6. /\ Sent[1] # USB_SOF => Loose(Tail(Sent)) /\ ~Lost(Tail(Sent))
      /\ Whole(Sent) => Loose(After(Sent)) /\ ~Lost(After(Sent))
  BY <1>1, LooseGoesOn
<1>7. Simple(Sent) =>
        /\ Sent[1] # USB_SOF => Tail(Sent) \in Seq(Byte) /\ Junk(Tail(Sent))
        /\ Whole(Sent) => After(Sent) \in Seq(Byte) /\ Junk(After(Sent))
  BY <1>1, SimpleGoesOn
<1> QED
  BY <1>2, <1>3, <1>4, <1>5, <1>6, <1>7

\* What is of no use is neither a command nor one cut off.
LEMMA JunkIsNothing ==
    ASSUME NEW s \in Seq(Byte), Junk(s)
    PROVE  Simple(s) /\ ~Lost(s) /\ ~Whole(s)
<1>1. Simple(s)
  BY DEF Simple
<1>2. ~Headed(s)
  <2>1. SUFFICES ASSUME Headed(s) PROVE FALSE
    OBVIOUS
  <2>2. 1 \in 1 .. Len(s) /\ s[1] = USB_SOF
    BY <2>1 DEF Headed
  <2> QED
    BY <2>2 DEF Junk
<1> QED
  BY <1>1, <1>2 DEF Lost, Whole

\* What a command of a run, read to its end, does.
LEMMA CommandDone ==
    ASSUME Completes, NEW type, NEW p, Reads(Sent, type, p)
    PROVE  Sent' = <<>> /\ HandleCommand(type, p)
BY DEF Completes, Reads

\* A byte read by the modem, when none of a run is at stake.
LEMMA ReadAtRest ==
    ASSUME IInv, Sent # <<>>, Skips \/ Completes, UNCHANGED hostVars
    PROVE  /\ AtRest => AtRest'
           /\ AtPark => AtPark'
           /\ AtStop => AtStop'
<1>1. out' = out /\ cut' = cut /\ refusals' = refusals
  BY DEF hostVars, ghostVars
<1>2. /\ ~Lost(Sent) /\ Loose(Sent') /\ ~Lost(Sent')
      /\ Simple(Sent) => Sent' \in Seq(Byte) /\ Junk(Sent')
  BY OnlyWhole
<1>3. Simple(Sent) => Simple(Sent')
  BY <1>2 DEF Simple
<1> QED
  BY <1>1, <1>2, <1>3 DEF AtRest, AtPark, AtStop, OwedAtMost

\* The PING is answered, if it is read as one.
LEMMA ReadAtPing ==
    ASSUME IInv, Sent # <<>>, Skips \/ Completes, UNCHANGED hostVars, AtPing
    PROVE  AtPing'
<1>1. out' = out /\ cut' = cut /\ refusals' = refusals
  BY DEF hostVars, ghostVars
<1>2. /\ ~Lost(Sent) /\ ~Lost(Sent')
      /\ Skips => ~Whole(Sent)
      /\ Simple(Sent) => Sent' \in Seq(Byte) /\ Junk(Sent')
  BY OnlyWhole
<1>3. up \in Seq(Message)
  BY DEF IInv, ModemTyped, PipesTyped, Message
<1>4. CASE Pending(Ping) /\ Quiet /\ Silent(up)
  <2>1. out = <<>> /\ Sent = Ping
    BY <1>4 DEF Pending
  <2>2. Reads(Sent, CMD_PING, <<>>)
    BY <2>1, RunCommands
  <2>3. Completes
    BY <2>2, <1>2 DEF Reads
  <2>4. Sent' = <<>> /\ HandlePing
    BY <2>2, <2>3, CommandDone
        DEF HandleCommand, CMD_PING, CMD_CONFIG, CMD_TX, CMD_RX, CMD_STOP
  <2>5. Once(up', "pong") /\ dir' = dir
    BY <2>4, <1>3, <1>4, Added, NoneIsBoth DEF HandlePing, Answer, Replies
  <2> QED
    BY <2>1, <2>4, <2>5, <1>1, <1>4 DEF AtPing, Clear, Quiet
<1>5. CASE Clear /\ Quiet /\ Once(up, "pong")
  BY <1>5 DEF Clear
<1>6. CASE Astray
  <2>1. out = <<>> /\ Simple(Sent) /\ (Whole(Sent) => Sent[2] = CMD_TX)
    BY <1>2, <1>6 DEF Astray
  <2>2. Simple(Sent') /\ ~Whole(Sent')
    BY <2>1, <1>2, JunkIsNothing
  <2>3. CASE Skips
    <3>1. up' = up
      BY <2>3 DEF Skips
    <3> QED
      BY <3>1, <2>1, <2>2, <1>1, <1>2, <1>6 DEF AtPing, Astray, OwedAtMost
  <2>4. CASE Completes
    <3>1. HandleCommand(CMD_TX, Payload(Sent))
      BY <2>1, <2>4, <1>2, OnlyWhole DEF Completes
    <3>2. HandleTx(Payload(Sent))
      BY <3>1 DEF HandleCommand, CMD_PING, CMD_CONFIG, CMD_TX, CMD_RX, CMD_STOP
    <3>3. up' = up \/ up' = Append(up, "err")
      BY <3>2 DEF HandleTx, Answer
    <3>4. Never(up', "pong")
      <4>1. "err" \in Message /\ "pong" \in Replies /\ Never(up, "pong")
        BY <1>6, NoneIsBoth DEF Astray, Replies
      <4>2. Never(Append(up, "err"), "pong")
        BY <4>1, <1>3, Added
      <4> QED
        BY <4>1, <4>2, <3>3
    <3> QED
      BY <3>4, <2>1, <2>2, <1>1, <1>2, <1>6 DEF AtPing, Astray, OwedAtMost
  <2> QED
    BY <2>3, <2>4
<1> QED
  BY <1>4, <1>5, <1>6 DEF AtPing

\* The configuration takes effect with its answer.
LEMMA ReadAtConfig ==
    ASSUME IInv, Sent # <<>>, Skips \/ Completes, UNCHANGED hostVars, AtConfig, want \in Configs
    PROVE  AtConfig'
<1>1. out' = out /\ want' = want
  BY DEF hostVars
<1>2. up \in Seq(Message)
  BY DEF IInv, ModemTyped, PipesTyped, Message
<1>3. Pending(Config) /\ Silent(up)
  BY DEF AtConfig, Clear
<1>4. out = <<>> /\ Sent = Config
  BY <1>3 DEF Pending
<1>5. Reads(Sent, CMD_CONFIG, ConfigPayload) /\ Len(ConfigPayload) = ConfigLen /\ NewCfg(ConfigPayload) = want
  BY <1>4, RunCommands
<1>6. Completes
  BY <1>5, OnlyWhole DEF Reads
<1>7. Sent' = <<>> /\ HandleConfig(ConfigPayload)
  BY <1>5, <1>6, CommandDone
      DEF HandleCommand, CMD_PING, CMD_CONFIG, CMD_TX, CMD_RX, CMD_STOP
<1>8. up' = Append(up, "ok") /\ configured' = TRUE /\ cfg' = want /\ dir' = "idle"
  BY <1>5, <1>7 DEF HandleConfig, Answer
<1>9. Last(up', "ok")
  BY <1>8, <1>2, <1>3, Added, NoneIsBoth DEF Replies
<1> QED
  BY <1>1, <1>4, <1>7, <1>8, <1>9 DEF AtConfig, Clear, Asked

\* The frame goes out.
LEMMA ReadAtTx ==
    ASSUME IInv, Sent # <<>>, Skips \/ Completes, UNCHANGED hostVars, AtTx
    PROVE  AtTx' /\ ~half
<1>1. out' = out /\ want' = want /\ half' = half /\ pc' = pc
  BY DEF hostVars, ghostVars
<1>2. ~Lost(Sent) /\ out \in Seq(Byte) /\ Sent \in Seq(Byte)
  BY OnlyWhole, SeenIsBytes DEF IInv, HostTyped
<1>3. ASSUME NEW p \in Payloads, HalfSent(p) PROVE FALSE
  <2>1. Sent \o out = Command(CMD_TX, p) /\ Len(Sent) >= 4 /\ out # <<>>
    BY <1>2, <1>3, Numbers DEF HalfSent, Tx
  <2> QED
    BY <2>1, <1>2, PartIsLost
<1>4. PICK p \in Payloads : Pending(Tx(p)) /\ Quiet /\ Silent(up)
  BY <1>3 DEF AtTx, Clear
<1>5. out = <<>> /\ Sent = Tx(p)
  BY <1>4 DEF Pending
<1>6. Reads(Sent, CMD_TX, p) /\ Len(p) >= 2
  BY <1>5, RunCommands
<1>7. Completes
  BY <1>6, OnlyWhole DEF Reads
<1>8. Sent' = <<>> /\ HandleTx(p)
  BY <1>6, <1>7, CommandDone
      DEF HandleCommand, CMD_PING, CMD_CONFIG, CMD_TX, CMD_RX, CMD_STOP
<1>9. ~(Len(p) < 2) /\ configured /\ cfg = want
  <2>1. Len(p) \in Nat
    BY HandshakeAssumption
  <2> QED
    BY <2>1, <1>6 DEF AtTx, Asked
<1>10. configured' = configured /\ cfg' = cfg /\ dir' = "tx" /\ up' = up
  BY <1>8, <1>9 DEF HandleTx
<1>11. ~half
  BY <1>3 DEF IInv, Place
<1> QED
  BY <1>1, <1>4, <1>5, <1>8, <1>9, <1>10, <1>11 DEF AtTx, Clear, Asked

\* The modem listens.
LEMMA ReadAtRx ==
    ASSUME IInv, Sent # <<>>, Skips \/ Completes, UNCHANGED hostVars, AtRx
    PROVE  AtRx'
<1>1. out' = out /\ want' = want
  BY DEF hostVars
<1>2. Pending(Rx) /\ up = <<>> /\ Asked
  BY DEF AtRx, Clear
<1>3. out = <<>> /\ Sent = Rx
  BY <1>2 DEF Pending
<1>4. Reads(Sent, CMD_RX, <<>>)
  BY <1>3, RunCommands
<1>5. Completes
  BY <1>4, OnlyWhole DEF Reads
<1>6. Sent' = <<>> /\ HandleRx
  BY <1>4, <1>5, CommandDone
      DEF HandleCommand, CMD_PING, CMD_CONFIG, CMD_TX, CMD_RX, CMD_STOP
<1>7. configured' = configured /\ cfg' = cfg /\ dir' = "rx" /\ up' = Append(up, "ok")
  BY <1>2, <1>6 DEF HandleRx, Asked, Answer
<1>8. First(up', "ok")
  BY <1>2, <1>7, Added, NoneIsBoth, NothingIsSilent DEF Replies
<1> QED
  BY <1>1, <1>2, <1>3, <1>6, <1>7, <1>8 DEF AtRx, Clear, Asked

LEMMA ReadKeeps ==
    ASSUME IInv, ModemReadByte, UNCHANGED hostVars
    PROVE  IInv'
<1>1. Sent \in Seq(Byte) /\ Loose(Sent)
  BY AlwaysLoose
<1>2. ModemTyped' /\ Sent # <<>> /\ (Skips \/ Advances \/ Completes)
  BY <1>1, ParserStep, LooseGoesOn DEF IInv
<1>3. HostTyped' /\ Counted'
  BY DEF IInv, HostTyped, Counted, hostVars, ghostVars
<1>4. CASE Advances
  BY <1>2, <1>3, <1>4, AdvanceKeepsPlace DEF IInv
<1>5. CASE Skips \/ Completes
  <2>1. pc' = pc /\ out' = out /\ half' = half
    BY DEF hostVars, ghostVars
  <2>2. (AtRest => AtRest') /\ (AtPark => AtPark') /\ (AtStop => AtStop')
    BY <1>2, <1>5, ReadAtRest
  <2>3. AtPing => AtPing'
    BY <1>2, <1>5, ReadAtPing
  <2>4. pc \in {"config", "ok"} => AtConfig'
    <3>1. pc \in {"config", "ok"} => want \in Configs /\ AtConfig
      BY DEF IInv, HostTyped, Place, Opening
    <3> QED
      BY <3>1, <1>2, <1>5, ReadAtConfig
  <2>5. ~AtReady /\ ~AtWorking
    BY <1>2 DEF AtReady, AtWorking, Clear
  <2>6. AtTx => AtTx' /\ ~half
    BY <1>2, <1>5, ReadAtTx
  <2>7. AtRx => AtRx'
    BY <1>2, <1>5, ReadAtRx
  <2>8. ~half
    <3>1. half => pc = "tx" /\ AtTx
      BY DEF IInv, Place, HalfSent
    <3> QED
      BY <3>1, <2>6
  <2>9. Place'
    BY <2>1, <2>2, <2>3, <2>4, <2>5, <2>6, <2>7, <2>8 DEF IInv, Place
  <2> QED
    BY <2>9, <1>2, <1>3 DEF IInv
<1> QED
  BY <1>2, <1>4, <1>5

\* The end of a transmission.
LEMMA TxEndKeeps ==
    ASSUME IInv, TxEnd, UNCHANGED hostVars
    PROVE  IInv'
<1>1. /\ Sent' = Sent /\ dir = "tx" /\ dir' \in {"rx", "idle"} /\ up' = Append(up, "tx_done")
      /\ configured' = configured /\ cfg' = cfg
      /\ pc' = pc /\ out' = out /\ half' = half /\ want' = want /\ cut' = cut /\ refusals' = refusals
  BY SentStays DEF TxEnd, Answer, hostVars, ghostVars
<1>2. up \in Seq(Message) /\ "tx_done" \in Message /\ "pong" \in Replies /\ up' \in Seq(Message)
  BY <1>1, NoneIsBoth DEF IInv, ModemTyped, PipesTyped, Message, Replies
<1>3. ModemTyped'
  BY <1>1, <1>2 DEF IInv, ModemTyped, ParserTyped, PipesTyped, TxEnd, Message
<1>4. HostTyped' /\ Counted'
  BY DEF IInv, HostTyped, Counted, hostVars, ghostVars
<1>5. (AtRest => AtRest') /\ (AtPark => AtPark') /\ (AtStop => AtStop')
  BY <1>1 DEF AtRest, AtPark, AtStop, OwedAtMost
<1>6. Never(up, "pong") => Never(up', "pong")
  BY <1>1, <1>2, Added
<1>7. AtPing => AtPing'
  BY <1>1, <1>6 DEF AtPing, Astray, OwedAtMost, Quiet
<1>8. ~AtConfig /\ ~AtReady /\ ~AtWorking /\ ~AtRx
  BY <1>1 DEF AtConfig, AtReady, AtWorking, AtRx, Quiet
<1>9. AtTx => AtTx' /\ ~half
  <2>1. SUFFICES ASSUME AtTx PROVE AtTx' /\ ~half
    OBVIOUS
  <2>2. Clear /\ Silent(up) /\ Asked
    BY <2>1, <1>1 DEF AtTx, Quiet
  <2>3. Once(up', "tx_done")
    BY <2>2, <1>1, <1>2, Added
  <2>4. ~half
    BY <2>2 DEF IInv, Place, HalfSent, Clear
  <2> QED
    BY <2>2, <2>3, <2>4, <1>1 DEF AtTx, Clear, Quiet, Asked
<1>10. ~half
  BY <1>9 DEF IInv, Place, HalfSent
<1>11. Place'
  BY <1>1, <1>5, <1>7, <1>8, <1>9, <1>10 DEF IInv, Place
<1> QED
  BY <1>3, <1>4, <1>11 DEF IInv

\* What the modem sends by itself.
LEMMA EmitKeeps ==
    ASSUME IInv, NEW m \in Async, ModemEmit(m), UNCHANGED hostVars
    PROVE  IInv'
<1>1. /\ Sent' = Sent /\ dir = "rx" /\ dir' = dir /\ up' = Append(up, m)
      /\ configured' = configured /\ cfg' = cfg
      /\ pc' = pc /\ out' = out /\ half' = half /\ want' = want /\ cut' = cut /\ refusals' = refusals
  BY SentStays DEF ModemEmit, Answer, modemVars, hostVars, ghostVars
<1>2. /\ up \in Seq(Message) /\ m \in Message /\ up' \in Seq(Message)
      /\ "pong" \in Replies /\ "tx_done" \in Replies /\ "ok" \in Replies /\ m # "pong"
  BY <1>1, NoneIsBoth DEF IInv, ModemTyped, PipesTyped, Message, Replies
<1>3. ModemTyped'
  BY <1>1, <1>2 DEF IInv, ModemTyped, ParserTyped, PipesTyped, ModemEmit, modemVars, Message
<1>4. HostTyped' /\ Counted'
  BY DEF IInv, HostTyped, Counted, hostVars, ghostVars
<1>5. (AtRest => AtRest') /\ (AtPark => AtPark') /\ (AtStop => AtStop')
  BY <1>1 DEF AtRest, AtPark, AtStop, OwedAtMost
<1>6. /\ Silent(up) => Silent(up')
      /\ Once(up, "pong") => Once(up', "pong")
      /\ Once(up, "tx_done") => Once(up', "tx_done")
      /\ First(up, "ok") => First(up', "ok")
      /\ Never(up, "pong") => Never(up', "pong")
  BY <1>1, <1>2, Added
<1>7. AtPing => AtPing'
  BY <1>1, <1>6 DEF AtPing, Astray, OwedAtMost, Quiet, Pending, Clear
<1>8. AtConfig => AtConfig'
  BY <1>1, <1>6 DEF AtConfig, Quiet, Pending, Clear, Config, ConfigPayload
<1>9. ~AtReady /\ (AtWorking => AtWorking') /\ (AtRx => AtRx')
  BY <1>1, <1>6 DEF AtReady, AtWorking, AtRx, Clear, Quiet, Asked
<1>10. ASSUME NEW p PROVE (Pending(Tx(p)) <=> Pending(Tx(p))') /\ (HalfSent(p) <=> HalfSent(p)')
  BY <1>1 DEF Pending, HalfSent
<1>11. AtTx => AtTx'
  BY <1>1, <1>6, <1>10 DEF AtTx, Clear, Quiet, Asked
<1>12. Place'
  BY <1>1, <1>5, <1>7, <1>8, <1>9, <1>10, <1>11 DEF IInv, Place
<1> QED
  BY <1>3, <1>4, <1>12 DEF IInv

-----------------------------------------------------------------------------
(* A command is written                                                    *)

\* A chunk is the beginning of what is left to write, and the rest stays.
LEMMA ChunkWritten ==
    ASSUME IInv, WriteChunk
    PROVE  /\ ModemTyped' /\ out' \in Seq(Byte) /\ Sent' \in Seq(Byte) /\ Sent' \o out' = Sent \o out
           /\ Len(out) <= Chunk => out' = <<>> /\ half' = FALSE /\ Sent' = Sent \o out
           /\ Len(out) > Chunk => out' # <<>> /\ half' = TRUE /\ Len(Sent') >= Chunk
           /\ UNCHANGED <<up, modemVars, pc, want, runs, ghostVars>>
<1> DEFINE n == IF Len(out) < Chunk THEN Len(out) ELSE Chunk
           w == SubSeq(out, 1, n)
           r == SubSeq(out, n + 1, Len(out))
<1>1. /\ out # <<>> /\ down' = down \o w /\ out' = r /\ half' = (out' # <<>>)
      /\ UNCHANGED <<up, modemVars, pc, want, runs, ghostVars>>
  BY DEF WriteChunk
<1>2. out \in Seq(Byte) /\ down \in Seq(Byte) /\ Seen \in Seq(Byte) /\ Sent \in Seq(Byte)
  BY SeenIsBytes DEF IInv, HostTyped, ModemTyped, PipesTyped
<1>3. Len(out) \in Nat /\ Len(out) >= 1
  BY <1>1, <1>2, EmptySeq
<1>4. /\ n \in 1 .. Len(out) /\ n \in Int /\ n \in 0 .. Len(out) /\ Len(out) \in n .. Len(out)
      /\ n + 1 \in 1 .. Len(out) + 1 /\ n <= Chunk
      /\ Len(out) <= Chunk => n = Len(out)
      /\ Len(out) > Chunk => n = Chunk /\ Len(out) + 1 - (n + 1) > 0
  BY <1>3, Numbers, HandshakeAssumption
<1> HIDE DEF n
<1>5. w \in Seq(Byte) /\ Len(w) = n
  <2>1. \A i \in 1 .. n : out[i] \in Byte
    BY <1>2, <1>4, ElementOfSeq
  <2>2. /\ SubSeq(out, 1, n) \in Seq(Byte)
        /\ Len(SubSeq(out, 1, n)) = IF 1 <= n THEN n - 1 + 1 ELSE 0
    BY <2>1, <1>4, SubSeqProperties
  <2> QED
    BY <2>2, <1>4
<1>6. r \in Seq(Byte) /\ Len(r) = Len(out) + 1 - (n + 1)
  BY <1>2, <1>4, PartOf
<1>7. w \o r = out
  <2>1. 1 \in 1 .. Len(out) + 1 /\ n \in 1 - 1 .. Len(out)
    BY <1>3, <1>4
  <2>2. w \o r = SubSeq(out, 1, Len(out))
    BY <2>1, <1>2, <1>4, ConcatAdjacentSubSeq
  <2> QED
    BY <2>2, <1>2, SubSeqFull
<1> HIDE DEF w, r
<1>8. Seen' = Seen
  BY <1>1 DEF Seen, modemVars
<1>9. down' \in Seq(Byte) /\ Sent' = Sent \o w
  <2>1. (Seen \o down) \o w = Seen \o (down \o w)
    BY <1>2, <1>5, ConcatAssociative
  <2>2. down \o w \in Seq(Byte)
    BY <1>2, <1>5, InARow
  <2> QED
    BY <1>1, <1>8, <2>1, <2>2 DEF Sent
<1>10. ModemTyped'
  BY <1>1, <1>9 DEF IInv, ModemTyped, ParserTyped, PipesTyped, modemVars
<1>11. Sent' \in Seq(Byte) /\ Len(Sent') = Len(Sent) + n /\ Len(Sent) \in Nat
  BY <1>2, <1>5, <1>9, InARow
<1>12. Sent' \o out' = Sent \o out
  <2>0. Sent \in Seq(Byte) /\ w \in Seq(Byte) /\ r \in Seq(Byte)
    BY <1>2, <1>5, <1>6
  <2>1. (Sent \o w) \o r = Sent \o (w \o r)
    BY <2>0, ConcatAssociative
  <2> QED
    BY <2>1, <1>1, <1>7, <1>9
<1>13. ASSUME Len(out) <= Chunk PROVE out' = <<>> /\ half' = FALSE /\ Sent' = Sent \o out
  <2>1. Len(r) = 0
    BY <1>13, <1>4, <1>6
  <2>2. r = <<>>
    BY <2>1, <1>6, EmptySeq
  <2>3. Sent' \o <<>> = Sent'
    BY <1>11, ConcatEmptySeq
  <2> QED
    BY <2>2, <2>3, <1>1, <1>12
<1>14. ASSUME Len(out) > Chunk PROVE out' # <<>> /\ half' = TRUE /\ Len(Sent') >= Chunk
  <2>1. Len(r) # 0
    BY <1>14, <1>4, <1>6
  <2>2. r # <<>>
    BY <2>1, EmptySeq
  <2>3. half' = TRUE
    BY <2>2, <1>1
  <2>4. Len(Sent') >= Chunk
    BY <1>4, <1>11, <1>14, Numbers
  <2> QED
    BY <2>2, <2>3, <2>4, <1>1
<1> QED
  BY <1>1, <1>6, <1>10, <1>11, <1>12, <1>13, <1>14

\* Written in one go, a command is whole under way, if nothing was before it.
LEMMA PendingWritten ==
    ASSUME IInv, WriteChunk, NEW c \in Seq(Byte), out = c, Sent = <<>>, Len(c) <= Chunk
    PROVE  out' = <<>> /\ Sent' = c /\ half' = FALSE
<1>1. <<>> \o c = c
  BY ConcatEmptySeq
<1> QED
  BY <1>1, ChunkWritten

\* A STOP or a PING goes to the command cut off before it.
LEMMA LostWritten ==
    ASSUME IInv, WriteChunk, NEW c \in {Stop, Ping}, out = c, Lost(Sent), NEW n \in Nat,
           OwedAtMost(Sent, n)
    PROVE  /\ out' = <<>> /\ half' = FALSE /\ Simple(Sent') /\ Sent'[2] = CMD_TX
           /\ OwedAtMost(Sent, n + 4)'
<1>1. Len(out) <= Chunk
  BY RunCommands
<1>2. /\ out' = <<>> /\ half' = FALSE /\ Sent' = Sent \o c /\ Sent' \in Seq(Byte)
      /\ cut' = cut /\ refusals' = refusals
  BY <1>1, ChunkWritten DEF ghostVars
<1>3. Sent \in Seq(Byte) /\ refusals \in Nat
  BY SeenIsBytes DEF IInv, HostTyped
<1>4. /\ Sent'[2] = CMD_TX /\ Owed(Sent) \in Nat
      /\ \/ Lost(Sent') /\ Owed(Sent') = Owed(Sent) - 4
         \/ Whole(Sent') /\ Junk(After(Sent'))
  BY <1>2, <1>3, LostTakes
<1>5. CASE Lost(Sent') /\ Owed(Sent') = Owed(Sent) - 4
  <2>1. cut /\ Owed(Sent) + n + 8 * refusals + Chunk <= MaxFrame + 4
    BY DEF OwedAtMost
  <2>2. (Owed(Sent) - 4) + (n + 4) + 8 * refusals + Chunk <= MaxFrame + 4
    BY <2>1, <1>3, <1>4, Numbers
  <2>3. Owed(Sent') + (n + 4) + 8 * refusals' + Chunk <= MaxFrame + 4
    BY <2>2, <1>2, <1>5
  <2> QED
    BY <2>1, <2>3, <1>2, <1>4, <1>5 DEF OwedAtMost, Simple
<1>6. CASE Whole(Sent') /\ Junk(After(Sent'))
  <2>1. ~Lost(Sent')
    BY <1>2, <1>6, WholeIsNotLost
  <2> QED
    BY <2>1, <1>2, <1>4, <1>6 DEF OwedAtMost, Simple
<1> QED
  BY <1>4, <1>5, <1>6

\* A chunk of a frame written.
LEMMA FrameWritten ==
    ASSUME IInv, WriteChunk, pc = "tx"
    PROVE  AtTx' /\ (half' => \E p \in Payloads : HalfSent(p)')
<1>1. /\ Sent' \o out' = Sent \o out
      /\ Len(out) <= Chunk => out' = <<>> /\ half' = FALSE /\ Sent' = Sent \o out
      /\ Len(out) > Chunk => out' # <<>> /\ half' = TRUE /\ Len(Sent') >= Chunk
      /\ up' = up /\ dir' = dir /\ pc' = "tx" /\ configured' = configured /\ cfg' = cfg /\ want' = want
  BY ChunkWritten DEF modemVars
<1>2. out # <<>> /\ out \in Seq(Byte) /\ Len(out) \in Nat
  BY DEF WriteChunk, IInv, HostTyped
<1>3. PICK p \in Payloads : (Pending(Tx(p)) \/ HalfSent(p)) /\ Quiet /\ Silent(up) /\ Asked
  BY <1>2 DEF IInv, Place, AtTx, Clear
<1>4. Sent \o out = Tx(p)
  <2>1. <<>> \o out = out
    BY <1>2, ConcatEmptySeq
  <2> QED
    BY <2>1, <1>2, <1>3 DEF Pending, HalfSent
<1>5. CASE Len(out) <= Chunk
  <2>1. Pending(Tx(p))'
    BY <1>1, <1>4, <1>5 DEF Pending
  <2> QED
    BY <2>1, <1>1, <1>3, <1>5 DEF AtTx, Asked, Quiet
<1>6. CASE Len(out) > Chunk
  <2>1. HalfSent(p)'
    BY <1>1, <1>4, <1>6 DEF HalfSent
  <2> QED
    BY <2>1, <1>1, <1>3 DEF AtTx, Asked, Quiet
<1> QED
  BY <1>2, <1>5, <1>6, Numbers

LEMMA WriteKeeps ==
    ASSUME IInv, WriteChunk
    PROVE  IInv'
<1>1. /\ ModemTyped' /\ out' \in Seq(Byte)
      /\ up' = up /\ dir' = dir /\ configured' = configured /\ cfg' = cfg /\ pc' = pc
      /\ want' = want /\ runs' = runs /\ cut' = cut /\ refusals' = refusals
  BY ChunkWritten DEF modemVars, ghostVars
<1>2. half' \in BOOLEAN /\ out # <<>> /\ out \in Seq(Byte)
  BY DEF WriteChunk, IInv, HostTyped
<1>3. HostTyped' /\ Counted'
  BY <1>1, <1>2 DEF IInv, HostTyped, Counted
<1>4. pc \in {"park", "stop", "ping", "config", "tx", "rx"}
  BY <1>2 DEF IInv, HostTyped, Opening, Working, Place, AtRest, AtReady, AtWorking, Clear
<1>5. SUFFICES Place'
  BY <1>1, <1>3 DEF IInv
<1>6. CASE pc = "park"
  <2>1. out = Stop /\ Simple(Sent) /\ OwedAtMost(Sent, 0)
    BY <1>2, <1>6 DEF IInv, Place, AtPark, AtRest
  <2>2. out' = <<>> /\ half' = FALSE /\ Sent' = Sent \o Stop
    BY <2>1, RunCommands, ChunkWritten
  <2>3. Sent \in Seq(Byte) /\ refusals \in Nat
    BY SeenIsBytes DEF IInv, HostTyped
  <2>4. Loose(Sent') /\ (Lost(Sent') => Lost(Sent) /\ Owed(Sent') = Owed(Sent) - 4)
    BY <2>1, <2>2, <2>3, StopFollows
  <2>5. ASSUME Lost(Sent') PROVE cut /\ Owed(Sent') + 0 + 8 * refusals + Chunk <= MaxFrame + 4
    <3>1. Lost(Sent) /\ Owed(Sent') = Owed(Sent) - 4
      BY <2>4, <2>5
    <3>2. Owed(Sent) \in Nat
      BY <3>1, <2>3, LostTakes
    <3>3. cut /\ Owed(Sent) + 0 + 8 * refusals + Chunk <= MaxFrame + 4
      BY <3>1, <2>1 DEF OwedAtMost
    <3> QED
      BY <3>1, <3>2, <3>3, <2>3, Numbers
  <2>6. AtRest'
    BY <2>2, <2>4, <2>5, <1>1 DEF AtRest, OwedAtMost
  <2> QED
    BY <2>2, <2>6, <1>1, <1>6 DEF Place, AtPark
<1>7. CASE pc = "stop"
  <2>1. out = Stop /\ (Sent = <<>> \/ Lost(Sent)) /\ OwedAtMost(Sent, 0)
    BY <1>2, <1>7 DEF IInv, Place, AtStop
  <2>2. CASE Sent = <<>>
    <3>1. out' = <<>> /\ half' = FALSE /\ Sent' = Stop
      BY <2>1, <2>2, <1>2, RunCommands, PendingWritten
    <3>2. Simple(Stop) /\ ~Lost(Stop)
      BY FourBytes
    <3> QED
      BY <3>1, <3>2, <1>1, <1>7 DEF Place, AtStop, OwedAtMost
  <2>3. CASE Lost(Sent)
    <3>1. out' = <<>> /\ half' = FALSE /\ Simple(Sent') /\ OwedAtMost(Sent, 0 + 4)'
      BY <2>1, <2>3, LostWritten
    <3> QED
      BY <3>1, <1>1, <1>7 DEF Place, AtStop
  <2> QED
    BY <2>1, <2>2, <2>3
<1>8. CASE pc = "ping"
  <2>1. CASE out = Ping /\ Sent = <<>> /\ Quiet /\ Silent(up)
    <3>1. out' = <<>> /\ half' = FALSE /\ Sent' = Ping
      BY <2>1, <1>2, RunCommands, PendingWritten
    <3> QED
      BY <2>1, <3>1, <1>1, <1>8 DEF Place, AtPing, Pending, Quiet
  <2>2. CASE out = Ping /\ Lost(Sent) /\ Astray
    <3>1. OwedAtMost(Sent, 4)
      BY <2>2, <1>2 DEF Astray
    <3>2. /\ out' = <<>> /\ half' = FALSE /\ Simple(Sent') /\ Sent'[2] = CMD_TX
          /\ OwedAtMost(Sent, 4 + 4)'
      BY <2>2, <3>1, LostWritten
    <3>3. Astray'
      BY <2>2, <3>2, <1>1 DEF Astray
    <3> QED
      BY <3>2, <3>3, <1>1, <1>8 DEF Place, AtPing
  <2> QED
    BY <2>1, <2>2, <1>2, <1>8 DEF IInv, Place, AtPing, Pending, Clear, Astray
<1>9. CASE pc = "config"
  <2>1. want \in Configs /\ Len(Config) <= Chunk
    <3>1. want \in Configs
      BY <1>9 DEF IInv, HostTyped, Opening
    <3> QED
      BY <3>1, RunCommands, Numbers DEF Reads
  <2>2. out = Config /\ Sent = <<>> /\ Quiet /\ Silent(up)
    BY <1>2, <1>9 DEF IInv, Place, AtConfig, Pending, Clear
  <2>3. out' = <<>> /\ half' = FALSE /\ Sent' = Config
    BY <2>1, <2>2, <1>2, PendingWritten
  <2>4. Config' = Config
    BY <1>1 DEF Config, ConfigPayload
  <2> QED
    BY <2>2, <2>3, <2>4, <1>1, <1>9 DEF Place, AtConfig, Pending, Quiet
<1>10. CASE pc = "tx"
  BY <1>1, <1>10, FrameWritten DEF Place
<1>11. CASE pc = "rx"
  <2>1. out = Rx /\ Sent = <<>> /\ dir = "idle" /\ up = <<>> /\ Asked
    BY <1>2, <1>11 DEF IInv, Place, AtRx, Pending, Clear
  <2>2. out' = <<>> /\ half' = FALSE /\ Sent' = Rx
    BY <2>1, <1>2, RunCommands, PendingWritten
  <2> QED
    BY <2>1, <2>2, <1>1, <1>11 DEF Place, AtRx, Pending, Asked
<1> QED
  BY <1>4, <1>6, <1>7, <1>8, <1>9, <1>10, <1>11

-----------------------------------------------------------------------------
(* The steps of a run                                                      *)

\* What the host does between two writes changes nothing of what is under way.
LEMMA HostStays ==
    ASSUME IInv, UNCHANGED <<down, modemVars>>, up' \in Seq(Message)
    PROVE  /\ ModemTyped' /\ Sent' = Sent /\ Sent \in Seq(Byte)
           /\ dir' = dir /\ configured' = configured /\ cfg' = cfg
<1>1. Sent' = Sent
  BY SentStays DEF modemVars
<1>2. ModemTyped'
  BY DEF IInv, ModemTyped, ParserTyped, PipesTyped, modemVars, Message
<1>3. Sent \in Seq(Byte)
  BY SeenIsBytes DEF IInv
<1> QED
  BY <1>1, <1>2, <1>3 DEF modemVars

\* Only a frame is ever written in part.
LEMMA NothingHalf ==
    ASSUME IInv, pc # "tx" \/ out = <<>>
    PROVE  half = FALSE
BY DEF IInv, HostTyped, Place, HalfSent

LEMMA HostNumbers ==
    ASSUME IInv
    PROVE  /\ refusals \in Nat /\ runs \in Nat /\ runs <= MaxRuns /\ refusals <= MaxRuns
           /\ up \in Seq(Message) /\ out \in Seq(Byte)
           /\ \A r \in {"ok", "pong", "tx_done", "err"} : r \in Replies /\ r \notin Async
BY Numbers, NoneIsBoth DEF IInv, HostTyped, ModemTyped, PipesTyped, Message, Replies

LEMMA OpenKeeps ==
    ASSUME IInv, Open
    PROVE  IInv'
<1>1. /\ pc \in {"closed", "failed"} /\ down = <<>> /\ runs < MaxRuns /\ runs' = runs + 1
      /\ want' \in Configs /\ up' = <<>> /\ out' = Stop /\ half' = FALSE /\ pc' = "stop"
      /\ UNCHANGED <<down, modemVars, cut, refusals>>
  BY DEF Open, Settled, Write, Stop, ghostVars
<1>2. ModemTyped' /\ Sent' = Sent
  BY <1>1, HostStays, NothingIsSilent
<1>3. HostTyped' /\ Counted'
  <2>1. out' \in Seq(Byte)
    BY <1>1, FourBytes
  <2>2. refusals <= runs /\ (refusals > 0 => 8 * refusals + Chunk < MaxFrame + 8) /\ cut \in BOOLEAN
    BY DEF IInv, Counted, HostTyped
  <2>3. runs' \in 0 .. MaxRuns /\ refusals' \in 0 .. MaxRuns /\ refusals' < runs' /\ refusals' <= runs'
    BY <2>2, <1>1, HostNumbers, Numbers
  <2>4. HostTyped'
    BY <2>1, <2>2, <2>3, <1>1 DEF HostTyped, Opening, Working
  <2>5. Counted'
    BY <2>2, <2>3, <1>1 DEF Counted, Opening, Working
  <2> QED
    BY <2>4, <2>5
<1>4. Loose(Sent) /\ OwedAtMost(Sent, 0)
  BY <1>1 DEF IInv, Place, AtRest
<1>5. Sent = <<>> \/ Lost(Sent)
  BY <1>1, <1>4, Parked DEF IInv
<1>6. AtStop'
  BY <1>1, <1>2, <1>4, <1>5 DEF AtStop, OwedAtMost
<1>7. Place'
  BY <1>1, <1>6 DEF Place
<1> QED
  BY <1>2, <1>3, <1>7 DEF IInv

LEMMA DrainKeeps ==
    ASSUME IInv, Drain
    PROVE  IInv'
<1>1. /\ pc = "stop" /\ out = <<>> /\ down = <<>> /\ dir # "tx" /\ up' = <<>>
      /\ out' = Ping /\ half' = FALSE /\ pc' = "ping"
      /\ UNCHANGED <<down, modemVars, want, runs, cut, refusals>>
  BY DEF Drain, Settled, Written, Write, Ping, DrainInput, ghostVars
<1>2. ModemTyped' /\ Sent' = Sent /\ Sent \in Seq(Byte) /\ dir' = dir
  BY <1>1, HostStays, NothingIsSilent
<1>3. HostTyped' /\ Counted'
  <2>1. out' \in Seq(Byte)
    BY <1>1, FourBytes
  <2> QED
    BY <2>1, <1>1 DEF IInv, HostTyped, Counted, Opening, Working
<1>4. Simple(Sent) /\ OwedAtMost(Sent, 4)
  BY <1>1, FourBytes DEF IInv, Place, AtStop
<1>5. Sent = <<>> \/ Lost(Sent)
  BY <1>1, <1>2, <1>4, SimpleIsLoose, Parked DEF IInv
<1>6. ASSUME Lost(Sent) PROVE Astray'
  <2>1. cut /\ Owed(Sent) + 4 + 8 * refusals + Chunk <= MaxFrame + 4
    BY <1>4, <1>6 DEF OwedAtMost
  <2>2. Owed(Sent) \in Nat /\ Owed(Sent) >= 1
    BY <1>2, <1>6, LostTakes
  <2>3. 8 * refusals + 1 + Chunk <= MaxFrame
    BY <2>1, <2>2, HostNumbers, Numbers
  <2> QED
    BY <2>1, <2>3, <1>1, <1>2, <1>4, <1>6, NothingIsSilent DEF Astray, OwedAtMost
<1>7. AtPing'
  BY <1>1, <1>2, <1>5, <1>6, NothingIsSilent DEF AtPing, Pending, Quiet
<1>8. Place'
  BY <1>1, <1>7 DEF Place
<1> QED
  BY <1>2, <1>3, <1>8 DEF IInv

\* A refused handshake has fed eight bytes to the command cut off.
LEMMA RefusalKeeps ==
    ASSUME IInv, pc = "pong", Astray, Refused, UNCHANGED <<down, modemVars, want, runs>>,
           up' \in Seq(Message)
    PROVE  IInv'
<1>1. pc' = "failed" /\ refusals' = refusals + 1 /\ out' = out /\ half' = half /\ cut' = cut
  BY DEF Refused
<1>2. ModemTyped' /\ Sent' = Sent /\ Sent \in Seq(Byte)
  BY HostStays
<1>3. out = <<>> /\ refusals < runs /\ half = FALSE
  BY NothingHalf DEF IInv, Place, Counted, Opening
<1>4. cut /\ 8 * refusals + 1 + Chunk <= MaxFrame /\ Simple(Sent) /\ OwedAtMost(Sent, 8)
  BY <1>3, FourBytes DEF Astray
<1>5. 8 * (refusals + 1) + Chunk < MaxFrame + 8 /\ refusals + 1 <= runs /\ refusals + 1 \in 0 .. MaxRuns
  BY <1>3, <1>4, HostNumbers, Numbers
<1>6. HostTyped' /\ Counted'
  BY <1>1, <1>4, <1>5 DEF IInv, HostTyped, Counted, Opening, Working
<1>7. OwedAtMost(Sent, 0)'
  <2>1. ASSUME Lost(Sent) PROVE Owed(Sent) + 0 + 8 * (refusals + 1) + Chunk <= MaxFrame + 4
    <3>1. Owed(Sent) + 8 + 8 * refusals + Chunk <= MaxFrame + 4
      BY <1>4, <2>1 DEF OwedAtMost
    <3>2. Owed(Sent) \in Nat
      BY <2>1, <1>2, LostTakes
    <3> QED
      BY <3>1, <3>2, HostNumbers, Numbers
  <2> QED
    BY <2>1, <1>1, <1>2, <1>4 DEF OwedAtMost
<1>8. AtRest'
  BY <1>1, <1>2, <1>3, <1>4, <1>7, SimpleIsLoose DEF AtRest
<1>9. Place'
  BY <1>1, <1>3, <1>8 DEF Place
<1> QED
  BY <1>2, <1>6, <1>9 DEF IInv

LEMMA AwaitPongKeeps ==
    ASSUME IInv, AwaitPong
    PROVE  IInv'
<1>1. /\ pc = "ping" /\ out = <<>> /\ pc' = "pong"
      /\ UNCHANGED <<down, up, modemVars, out, half, want, runs, cut, refusals>>
  BY DEF AwaitPong, Written, ghostVars
<1>2. ModemTyped' /\ Sent' = Sent /\ dir' = dir
  BY <1>1, HostNumbers, HostStays
<1>3. HostTyped' /\ Counted'
  BY <1>1 DEF IInv, HostTyped, Counted, Opening, Working
<1>4. AtPing'
  BY <1>1, <1>2 DEF IInv, Place, AtPing, Astray, OwedAtMost, Pending, Clear, Quiet
<1>5. Place'
  BY <1>1, <1>4, NothingHalf DEF Place
<1> QED
  BY <1>2, <1>3, <1>5 DEF IInv

\* The PONG is read, and no other reply but in a run that is lost.
LEMMA ReadPongKeeps ==
    ASSUME IInv, ReadPong
    PROVE  IInv'
<1>1. /\ pc = "pong" /\ up # <<>> /\ up' = Tail(up)
      /\ UNCHANGED <<down, modemVars, want, runs>>
      /\ \/ Head(up) \in Async /\ UNCHANGED <<pc, out, half, ghostVars>>
         \/ Head(up) = "pong" /\ Write(Config, "config") /\ UNCHANGED ghostVars
         \/ Head(up) \notin Async \cup {"pong"} /\ Refused
  BY DEF ReadPong, ReadReply, Config
<1>2. /\ up \in Seq(Message) /\ up' \in Seq(Message) /\ "pong" \in Replies /\ "pong" \notin Async
      /\ Silent(up) => Head(up) \in Async /\ Silent(up')
      /\ Never(up, "pong") => Head(up) # "pong" /\ Never(up', "pong")
      /\ Once(up, "pong") => \/ Head(up) = "pong" /\ Silent(up')
                             \/ Head(up) \in Async /\ Once(up', "pong")
  BY <1>1, HostNumbers, Taken
<1>3. ModemTyped' /\ Sent' = Sent /\ dir' = dir
  BY <1>1, <1>2, HostStays
<1>4. out = <<>> /\ half = FALSE /\ AtPing
  BY <1>1, NothingHalf DEF IInv, Place
<1>5. CASE Head(up) \in Async
  <2>1. UNCHANGED <<pc, out, half, cut, refusals>>
    BY <1>1, <1>2, <1>5 DEF ghostVars
  <2>2. HostTyped' /\ Counted'
    BY <2>1, <1>1 DEF IInv, HostTyped, Counted
  <2>3. AtPing'
    BY <2>1, <1>1, <1>2, <1>3, <1>4, <1>5 DEF AtPing, Astray, OwedAtMost, Pending, Clear, Quiet
  <2>4. Place'
    BY <2>1, <2>3, <1>1, <1>4 DEF Place
  <2> QED
    BY <2>2, <2>4, <1>3 DEF IInv
<1>6. CASE Head(up) = "pong"
  <2>1. out' = Config /\ half' = FALSE /\ pc' = "config" /\ UNCHANGED <<cut, refusals>>
    BY <1>1, <1>2, <1>6 DEF Write, ghostVars
  <2>2. Clear /\ Quiet /\ Silent(up')
    BY <1>2, <1>4, <1>6 DEF AtPing, Astray
  <2>3. Config' = Config
    BY <1>1 DEF Config, ConfigPayload
  <2>4. out' \in Seq(Byte)
    <3>1. want \in Configs
      BY <1>1 DEF IInv, HostTyped, Opening
    <3> QED
      BY <3>1, <2>1, RunCommands DEF Reads
  <2>5. HostTyped' /\ Counted'
    BY <2>1, <2>4, <1>1 DEF IInv, HostTyped, Counted, Opening, Working
  <2>6. AtConfig'
    BY <2>1, <2>2, <2>3, <1>3 DEF AtConfig, Pending, Clear, Quiet
  <2>7. Place'
    BY <2>1, <2>6 DEF Place
  <2> QED
    BY <2>5, <2>7, <1>3 DEF IInv
<1>7. CASE Head(up) \notin Async \cup {"pong"}
  <2>1. Astray /\ Refused
    BY <1>1, <1>2, <1>4, <1>7 DEF AtPing
  <2> QED
    BY <2>1, <1>1, <1>2, RefusalKeeps
<1> QED
  BY <1>5, <1>6, <1>7

LEMMA AwaitOkKeeps ==
    ASSUME IInv, AwaitOk
    PROVE  IInv'
<1>1. /\ pc = "config" /\ out = <<>> /\ pc' = "ok"
      /\ UNCHANGED <<down, up, modemVars, out, half, want, runs, cut, refusals>>
  BY DEF AwaitOk, Written, ghostVars
<1>2. /\ ModemTyped' /\ Sent' = Sent /\ dir' = dir /\ configured' = configured /\ cfg' = cfg
  BY <1>1, HostNumbers, HostStays
<1>3. HostTyped' /\ Counted'
  BY <1>1 DEF IInv, HostTyped, Counted, Opening, Working
<1>4. AtConfig'
  BY <1>1, <1>2 DEF IInv, Place, AtConfig, Pending, Clear, Quiet, Asked, Config, ConfigPayload
<1>5. Place'
  BY <1>1, <1>4, NothingHalf DEF Place
<1> QED
  BY <1>2, <1>3, <1>5 DEF IInv

\* The OK is CONFIG's, and nothing follows it.
LEMMA ReadOkKeeps ==
    ASSUME IInv, ReadOk
    PROVE  IInv'
<1>1. /\ pc = "ok" /\ up # <<>> /\ up' = Tail(up)
      /\ UNCHANGED <<down, modemVars, want, runs>>
      /\ \/ Head(up) \in Async /\ UNCHANGED <<pc, out, half, ghostVars>>
         \/ Head(up) = "ok" /\ pc' = "ready" /\ cut' = FALSE /\ refusals' = 0 /\ UNCHANGED <<out, half>>
         \/ Head(up) \notin Async \cup {"ok"} /\ Refused
  BY DEF ReadOk, ReadReply
<1>2. /\ up \in Seq(Message) /\ up' \in Seq(Message) /\ "ok" \in Replies /\ "ok" \notin Async
      /\ Silent(up) => Head(up) \in Async /\ Silent(up')
      /\ Last(up, "ok") => \/ Head(up) = "ok" /\ up' = <<>>
                           \/ Head(up) \in Async /\ Last(up', "ok")
  BY <1>1, HostNumbers, Taken
<1>3. ModemTyped' /\ Sent' = Sent /\ dir' = dir /\ configured' = configured /\ cfg' = cfg
  BY <1>1, <1>2, HostStays
<1>4. out = <<>> /\ half = FALSE /\ AtConfig
  BY <1>1, NothingHalf DEF IInv, Place
<1>5. CASE Head(up) \in Async
  <2>1. UNCHANGED <<pc, out, half, cut, refusals>>
    BY <1>1, <1>2, <1>5 DEF ghostVars
  <2>2. HostTyped' /\ Counted'
    BY <2>1, <1>1 DEF IInv, HostTyped, Counted
  <2>3. AtConfig'
    BY <2>1, <1>1, <1>2, <1>3, <1>4, <1>5
    DEF AtConfig, Pending, Clear, Quiet, Asked, Config, ConfigPayload
  <2>4. Place'
    BY <2>1, <2>3, <1>1, <1>4 DEF Place
  <2> QED
    BY <2>2, <2>4, <1>3 DEF IInv
<1>6. CASE Head(up) \notin Async
  <2>1. Clear /\ dir = "idle" /\ Asked /\ Head(up) = "ok" /\ up' = <<>>
    BY <1>2, <1>4, <1>6 DEF AtConfig
  <2>2. pc' = "ready" /\ cut' = FALSE /\ refusals' = 0 /\ UNCHANGED <<out, half>>
    BY <2>1, <1>1, <1>6
  <2>3. refusals < runs /\ want \in Configs /\ MaxRuns \in Nat /\ refusals \in Nat /\ runs \in Nat
    BY <1>1, HostNumbers, Numbers DEF IInv, HostTyped, Counted, Opening
  <2>4. HostTyped'
    <3>1. cut' \in BOOLEAN /\ half' \in BOOLEAN
      BY <2>2 DEF IInv, HostTyped
    <3>2. refusals' \in 0 .. MaxRuns /\ runs' \in 0 .. MaxRuns
      BY <2>2, <2>3, <1>1 DEF IInv, HostTyped
    <3>3. out' \in Seq(Byte) /\ want' \in Configs
      BY <2>2, <2>3, <1>1 DEF IInv, HostTyped
    <3> QED
      BY <3>1, <3>2, <3>3, <2>2 DEF HostTyped, Opening, Working
  <2>5. Counted'
    BY <2>2, <2>3, <1>1 DEF IInv, Counted, Opening, Working
  <2>6. AtReady'
    BY <2>1, <2>2, <1>1, <1>3 DEF AtReady, Clear, Asked
  <2>7. Place'
    BY <2>2, <2>6, <1>4 DEF Place
  <2> QED
    BY <2>4, <2>5, <2>7, <1>3 DEF IInv
<1> QED
  BY <1>5, <1>6

\* No reply comes only to a run that is lost.
LEMMA TimeoutKeeps ==
    ASSUME IInv, ReplyTimeout
    PROVE  IInv'
<1>1. /\ pc \in {"pong", "ok"} /\ down = <<>> /\ dir # "tx" /\ up = <<>> /\ up' = up /\ Refused
      /\ UNCHANGED <<down, modemVars, want, runs>>
  BY DEF ReplyTimeout, Settled
<1>2. out = <<>> /\ up \in Seq(Message) /\ "pong" \in Replies /\ "ok" \in Replies
  BY <1>1, HostNumbers DEF IInv, Place
<1>3. Sent = <<>> \/ Lost(Sent)
  BY <1>1, AlwaysLoose, Parked DEF IInv
<1>4. Sent # Ping /\ (want \in Configs => Sent # Config)
  BY <1>3, RunCommands DEF Reads
<1>5. ~Once(up, "pong") /\ ~Last(up, "ok")
  BY <1>1, <1>2, SomeIsThere
<1>6. Ping # <<>> /\ (want \in Configs => Config # <<>>)
  BY RunCommands DEF Reads
<1>7. CASE pc = "pong"
  <2>1. Astray
    BY <1>2, <1>4, <1>5, <1>6, <1>7 DEF IInv, Place, AtPing, Pending
  <2> QED
    BY <2>1, <1>1, <1>2, <1>7, RefusalKeeps
<1>8. CASE pc = "ok"
  <2>1. want \in Configs /\ AtConfig
    BY <1>8 DEF IInv, HostTyped, Opening, Place
  <2> QED
    BY <2>1, <1>2, <1>4, <1>5, <1>6 DEF AtConfig, Pending
<1> QED
  BY <1>1, <1>7, <1>8

LEMMA SendTxKeeps ==
    ASSUME IInv, NEW p \in Payloads, SendTx(p)
    PROVE  IInv'
<1>1. /\ pc \in {"ready", "working"} /\ out' = Tx(p) /\ half' = FALSE /\ pc' = "tx"
      /\ UNCHANGED <<down, up, modemVars, want, runs, cut, refusals>>
  BY DEF SendTx, Write, Tx, ghostVars
<1>2. ModemTyped' /\ Sent' = Sent /\ dir' = dir /\ configured' = configured /\ cfg' = cfg
  BY <1>1, HostNumbers, HostStays
<1>3. out' \in Seq(Byte)
  BY <1>1, RunCommands DEF Reads
<1>4. HostTyped' /\ Counted'
  BY <1>1, <1>3 DEF IInv, HostTyped, Counted, Opening, Working
<1>5. Clear /\ Quiet /\ Asked /\ Silent(up)
  BY <1>1, NothingIsSilent DEF IInv, Place, AtReady, AtWorking, Quiet
<1>6. AtTx'
  BY <1>1, <1>2, <1>5 DEF AtTx, Pending, Clear, Quiet, Asked
<1>7. Place'
  BY <1>1, <1>6 DEF Place
<1> QED
  BY <1>2, <1>4, <1>7 DEF IInv

LEMMA AwaitTxDoneKeeps ==
    ASSUME IInv, AwaitTxDone
    PROVE  IInv'
<1>1. /\ pc = "tx" /\ out = <<>> /\ pc' = "tx_wait"
      /\ UNCHANGED <<down, up, modemVars, out, half, want, runs, cut, refusals>>
  BY DEF AwaitTxDone, Written, ghostVars
<1>2. ModemTyped' /\ Sent' = Sent /\ dir' = dir /\ configured' = configured /\ cfg' = cfg
  BY <1>1, HostNumbers, HostStays
<1>3. HostTyped' /\ Counted'
  BY <1>1 DEF IInv, HostTyped, Counted, Opening, Working
<1>4. \A p : Pending(Tx(p)) => Pending(Tx(p))'
  BY <1>1, <1>2 DEF Pending
<1>5. AtTx'
  BY <1>1, <1>2, <1>4 DEF IInv, Place, AtTx, HalfSent, Clear, Quiet, Asked
<1>6. Place'
  BY <1>1, <1>5, NothingHalf DEF Place
<1> QED
  BY <1>2, <1>3, <1>6 DEF IInv

\* The end of the transmission is read, and no other reply.
LEMMA ReadWhileTxKeeps ==
    ASSUME IInv, ReadWhileTx
    PROVE  IInv'
<1>1. /\ pc = "tx_wait" /\ up # <<>> /\ up' = Tail(up)
      /\ Head(up) = "tx_done" => pc' = "working"
      /\ Head(up) \notin {"tx_done", "err"} => pc' = "tx_wait"
      /\ UNCHANGED <<down, modemVars, out, half, want, runs, cut, refusals>>
  BY DEF ReadWhileTx, ghostVars
<1>2. /\ up \in Seq(Message) /\ up' \in Seq(Message) /\ "tx_done" \in Replies
      /\ "tx_done" \notin Async /\ "err" \notin Async
      /\ Silent(up) => Head(up) \in Async /\ Silent(up')
      /\ Once(up, "tx_done") => \/ Head(up) = "tx_done" /\ Silent(up')
                                \/ Head(up) \in Async /\ Once(up', "tx_done")
  BY <1>1, HostNumbers, Taken
<1>3. ModemTyped' /\ Sent' = Sent /\ dir' = dir /\ configured' = configured /\ cfg' = cfg
  BY <1>1, <1>2, HostStays
<1>4. out = <<>> /\ half = FALSE /\ AtTx
  BY <1>1, NothingHalf DEF IInv, Place
<1>5. CASE Head(up) \in Async
  <2>1. pc' = "tx_wait"
    BY <1>1, <1>2, <1>5
  <2>2. HostTyped' /\ Counted'
    BY <2>1, <1>1 DEF IInv, HostTyped, Counted
  <2>3. \A p : Pending(Tx(p)) => Pending(Tx(p))'
    BY <1>1, <1>3 DEF Pending
  <2>4. AtTx'
    BY <2>1, <2>3, <1>1, <1>2, <1>3, <1>4, <1>5 DEF AtTx, HalfSent, Clear, Quiet, Asked
  <2>5. Place'
    BY <2>1, <2>4, <1>1, <1>4 DEF Place
  <2> QED
    BY <2>2, <2>5, <1>3 DEF IInv
<1>6. CASE Head(up) \notin Async
  <2>1. Clear /\ Quiet /\ Asked /\ Head(up) = "tx_done" /\ Silent(up')
    BY <1>2, <1>4, <1>6 DEF AtTx
  <2>2. pc' = "working"
    BY <2>1, <1>1
  <2>3. HostTyped' /\ Counted'
    BY <2>2, <1>1 DEF IInv, HostTyped, Counted, Opening, Working
  <2>4. AtWorking'
    BY <2>1, <1>1, <1>3 DEF AtWorking, Clear, Quiet, Asked
  <2>5. Place'
    BY <2>2, <2>4, <1>1, <1>4 DEF Place
  <2> QED
    BY <2>3, <2>5, <1>3 DEF IInv
<1> QED
  BY <1>5, <1>6

LEMMA SendRxKeeps ==
    ASSUME IInv, SendRx
    PROVE  IInv'
<1>1. /\ pc = "ready" /\ out' = Rx /\ half' = FALSE /\ pc' = "rx"
      /\ UNCHANGED <<down, up, modemVars, want, runs, cut, refusals>>
  BY DEF SendRx, Write, Rx, ghostVars
<1>2. ModemTyped' /\ Sent' = Sent /\ dir' = dir /\ configured' = configured /\ cfg' = cfg
  BY <1>1, HostNumbers, HostStays
<1>3. out' \in Seq(Byte)
  BY <1>1, RunCommands DEF Reads
<1>4. HostTyped' /\ Counted'
  BY <1>1, <1>3 DEF IInv, HostTyped, Counted, Opening, Working
<1>5. AtRx'
  BY <1>1, <1>2 DEF IInv, Place, AtReady, AtRx, Pending, Clear, Asked
<1>6. Place'
  BY <1>1, <1>5 DEF Place
<1> QED
  BY <1>2, <1>4, <1>6 DEF IInv

LEMMA AwaitRxOkKeeps ==
    ASSUME IInv, AwaitRxOk
    PROVE  IInv'
<1>1. /\ pc = "rx" /\ out = <<>> /\ pc' = "rx_wait"
      /\ UNCHANGED <<down, up, modemVars, out, half, want, runs, cut, refusals>>
  BY DEF AwaitRxOk, Written, ghostVars
<1>2. ModemTyped' /\ Sent' = Sent /\ dir' = dir /\ configured' = configured /\ cfg' = cfg
  BY <1>1, HostNumbers, HostStays
<1>3. HostTyped' /\ Counted'
  BY <1>1 DEF IInv, HostTyped, Counted, Opening, Working
<1>4. AtRx'
  BY <1>1, <1>2 DEF IInv, Place, AtRx, Pending, Clear, Asked
<1>5. Place'
  BY <1>1, <1>4, NothingHalf DEF Place
<1> QED
  BY <1>2, <1>3, <1>5 DEF IInv

\* The OK comes before anything the receiver reports.
LEMMA ReadRxOkKeeps ==
    ASSUME IInv, ReadRxOk
    PROVE  IInv'
<1>1. /\ pc = "rx_wait" /\ up # <<>> /\ up' = Tail(up)
      /\ Head(up) = "ok" => pc' = "working"
      /\ UNCHANGED <<down, modemVars, out, half, want, runs, cut, refusals>>
  BY DEF ReadRxOk, ghostVars
<1>2. up \in Seq(Message) /\ up' \in Seq(Message)
  BY <1>1, HostNumbers, HeadTailProperties
<1>3. ModemTyped' /\ Sent' = Sent /\ dir' = dir /\ configured' = configured /\ cfg' = cfg
  BY <1>1, <1>2, HostStays
<1>4. half = FALSE /\ AtRx
  BY <1>1, NothingHalf DEF IInv, Place
<1>5. Clear /\ dir = "rx" /\ Asked /\ Head(up) = "ok" /\ Silent(up')
  BY <1>1, <1>4 DEF AtRx, First
<1>6. pc' = "working"
  BY <1>1, <1>5
<1>7. HostTyped' /\ Counted'
  BY <1>1, <1>6 DEF IInv, HostTyped, Counted, Opening, Working
<1>8. AtWorking'
  BY <1>1, <1>3, <1>5 DEF AtWorking, Clear, Quiet, Asked
<1>9. Place'
  BY <1>1, <1>4, <1>6, <1>8 DEF Place
<1> QED
  BY <1>3, <1>7, <1>9 DEF IInv

LEMMA ReadStreamKeeps ==
    ASSUME IInv, ReadStream
    PROVE  IInv'
<1>1. /\ pc = "working" /\ up # <<>> /\ up' = Tail(up)
      /\ UNCHANGED <<down, modemVars, pc, out, half, want, runs, cut, refusals>>
  BY DEF ReadStream, hostVars, ghostVars
<1>2. up \in Seq(Message) /\ up' \in Seq(Message) /\ "ok" \in Replies /\ (Silent(up) => Silent(up'))
  BY <1>1, HostNumbers, Taken
<1>3. ModemTyped' /\ Sent' = Sent /\ dir' = dir /\ configured' = configured /\ cfg' = cfg
  BY <1>1, <1>2, HostStays
<1>4. half = FALSE /\ AtWorking
  BY <1>1, NothingHalf DEF IInv, Place
<1>5. HostTyped' /\ Counted'
  BY <1>1 DEF IInv, HostTyped, Counted
<1>6. AtWorking'
  BY <1>1, <1>2, <1>3, <1>4 DEF AtWorking, Clear, Quiet, Asked
<1>7. Place'
  BY <1>1, <1>4, <1>6 DEF Place
<1> QED
  BY <1>3, <1>5, <1>7 DEF IInv

\* However a run ends, what it leaves behind is what the next one can deal with.
LEMMA EndKeeps ==
    ASSUME IInv, Finish \/ Abort
    PROVE  IInv'
<1>1. /\ pc \in Opening \cup Working /\ half' = FALSE /\ cut' = (cut \/ half)
      /\ \/ out' = Stop /\ pc' = "park"
         \/ out' = <<>> /\ pc' = "closed"
      /\ UNCHANGED <<down, up, modemVars, want, runs, refusals>>
  BY DEF Finish, Abort, Interruptible, Write, Stop
<1>2. ModemTyped' /\ Sent' = Sent /\ Sent \in Seq(Byte)
  BY <1>1, HostNumbers, HostStays
<1>3. HostTyped'
  <2>0. Stop \in Seq(Byte) /\ <<>> \in Seq(Byte)
    BY FourBytes
  <2>1. out' \in Seq(Byte)
    BY <2>0, <1>1
  <2>2. cut' \in BOOLEAN
    BY <1>1
  <2> QED
    BY <2>1, <2>2, <1>1 DEF IInv, HostTyped, Opening, Working
<1>4. Counted'
  BY <1>1 DEF IInv, Counted, Opening, Working
<1>5. /\ Simple(Sent)
      /\ Lost(Sent) => (cut \/ half) /\ Owed(Sent) + 8 * refusals + Chunk <= MaxFrame + 4
  BY <1>1, UnderWay
<1>6. OwedAtMost(Sent, 0)'
  <2>1. ASSUME Lost(Sent) PROVE cut' /\ Owed(Sent) + 0 + 8 * refusals + Chunk <= MaxFrame + 4
    <3>1. Owed(Sent) \in Nat
      BY <2>1, <1>2, LostTakes
    <3>2. Owed(Sent) + 0 = Owed(Sent)
      BY <3>1
    <3> QED
      BY <3>2, <2>1, <1>1, <1>5
  <2> QED
    BY <2>1, <1>1, <1>2 DEF OwedAtMost
<1>7. Place'
  BY <1>1, <1>2, <1>5, <1>6, SimpleIsLoose DEF Place, AtPark, AtRest, Opening, Working
<1> QED
  BY <1>2, <1>3, <1>4, <1>7 DEF IInv

LEMMA CloseKeeps ==
    ASSUME IInv, Close
    PROVE  IInv'
<1>1. /\ pc = "park" /\ out = <<>> /\ pc' = "closed"
      /\ UNCHANGED <<down, up, modemVars, out, half, want, runs, cut, refusals>>
  BY DEF Close, Written, ghostVars
<1>2. ModemTyped' /\ Sent' = Sent
  BY <1>1, HostNumbers, HostStays
<1>3. HostTyped' /\ Counted'
  BY <1>1 DEF IInv, HostTyped, Counted, Opening, Working
<1>4. AtRest'
  <2>1. AtRest
    BY <1>1, FourBytes DEF IInv, Place, AtPark
  <2> QED
    BY <2>1, <1>1, <1>2 DEF AtRest, OwedAtMost
<1>5. Place'
  BY <1>1, <1>4, NothingHalf DEF Place
<1> QED
  BY <1>2, <1>3, <1>5 DEF IInv

-----------------------------------------------------------------------------
(* The invariant                                                           *)

LEMMA InitHolds ==
    ASSUME Init
    PROVE  IInv
<1>1. /\ down = <<>> /\ up = <<>> /\ cstate = "SOF" /\ ctype = 0 /\ clen = 0 /\ cbuf = <<>>
      /\ configured = FALSE /\ cfg = 0 /\ dir = "idle"
      /\ pc = "closed" /\ out = <<>> /\ want = 0 /\ runs = 0
      /\ half = FALSE /\ cut = FALSE /\ refusals = 0
  BY DEF Init, ModemInit, ParserReset
<1>2. 0 \in Byte /\ 0 \in Word16 /\ 0 \in 0 .. MaxRuns /\ 0 <= MaxFrame
  <2>1. 0 \in Byte
    BY DEF Byte
  <2> QED
    BY <2>1, ByteIsWord, Numbers
<1>3. <<>> \in Seq(Byte) /\ Len(<<>>) = 0 /\ <<>> \in Seq(Replies \cup Async)
  OBVIOUS
<1>4. ModemTyped
  BY <1>1, <1>2, <1>3 DEF ModemTyped, ParserTyped, PipesTyped
<1>5. HostTyped
  BY <1>1, <1>2, <1>3 DEF HostTyped, Opening, Working
<1>6. Sent = <<>>
  BY <1>1, <1>4, SeenIsBytes
<1>7. Place
  BY <1>1, <1>6, NothingIsSimple DEF Place, AtRest, OwedAtMost
<1>8. Counted
  BY <1>1 DEF Counted, Opening, Working
<1> QED
  BY <1>4, <1>5, <1>7, <1>8 DEF IInv

LEMMA NothingChanges ==
    ASSUME IInv, UNCHANGED vars
    PROVE  IInv'
<1>1. /\ UNCHANGED <<down, up, modemVars, hostVars>>
      /\ pc' = pc /\ out' = out /\ half' = half /\ want' = want
  BY DEF vars, hostVars
<1>2. Advances
  BY <1>1, SentStays DEF Advances, modemVars
<1>3. ModemTyped' /\ HostTyped' /\ Counted'
  BY <1>1 DEF IInv, ModemTyped, ParserTyped, PipesTyped, HostTyped, Counted, modemVars, hostVars, ghostVars
<1> QED
  BY <1>1, <1>2, <1>3, AdvanceKeepsPlace DEF IInv

LEMMA NextKeeps ==
    ASSUME IInv, [Next]_vars
    PROVE  IInv'
<1>1. ASSUME NEW p \in Payloads, SendTx(p) PROVE IInv'
  BY <1>1, SendTxKeeps
<1>2. ASSUME NEW m \in Async, ModemEmit(m), UNCHANGED hostVars PROVE IInv'
  BY <1>2, EmitKeeps
<1> QED
  BY <1>1, <1>2, WriteKeeps, OpenKeeps, DrainKeeps, AwaitPongKeeps, ReadPongKeeps, AwaitOkKeeps,
     ReadOkKeeps, TimeoutKeeps, AwaitTxDoneKeeps, ReadWhileTxKeeps, SendRxKeeps, AwaitRxOkKeeps,
     ReadRxOkKeeps, ReadStreamKeeps, EndKeeps, CloseKeeps, ReadKeeps, TxEndKeeps, NothingChanges
  DEF Next

LEMMA AlwaysInPlace == Spec => []IInv
<1>1. Init => IInv
  BY InitHolds
<1>2. IInv /\ [Next]_vars => IInv'
  BY NextKeeps
<1> QED
  BY <1>1, <1>2, PTL DEF Spec

-----------------------------------------------------------------------------
(* What it gives                                                           *)

\* Every variable has its type: the parser never stores more than MAX_FRAME bytes of a
\* payload (g_cbuf), nor goes on past the length announced.
THEOREM TypeCorrect == Spec => []TypeOK
<1>1. ASSUME IInv PROVE TypeOK
  <2>1. /\ down \in Seq(Byte) /\ up \in Seq(Replies \cup Async) /\ out \in Seq(Byte)
        /\ cbuf \in Seq(Byte)
    BY <1>1 DEF IInv, ModemTyped, ParserTyped, PipesTyped, HostTyped
  <2>2. \A S : \A s \in Seq(S) : \A i \in DOMAIN s : s[i] \in S
    OBVIOUS
  <2>3. /\ \A i \in DOMAIN down : down[i] \in Byte
        /\ \A i \in DOMAIN up : up[i] \in Replies \cup Async
        /\ \A i \in DOMAIN out : out[i] \in Byte
    BY <2>1, <2>2
  <2>4. ModemTypeOK
    BY <2>3, <1>1 DEF ModemTypeOK, IInv, ModemTyped, ParserTyped, PipesTyped
  <2> QED
    BY <2>3, <2>4, <1>1 DEF TypeOK, IInv, HostTyped
<1> QED
  BY <1>1, AlwaysInPlace, PTL

\* A tool goes to work with the configuration it asked for: whatever the runs before it
\* left in the modem's parser and in the port, the MSG_OK it has read is the answer to
\* its own CONFIG (Modem.configure, ir_modem.py).
THEOREM ConfiguredAsAskedAlways == Spec => []ConfiguredAsAsked
<1>1. ASSUME IInv PROVE ConfiguredAsAsked
  BY <1>1 DEF IInv, Place, AtReady, AtWorking, AtTx, Asked, ConfiguredAsAsked
<1> QED
  BY <1>1, AlwaysInPlace, PTL

\* Only a command cut off makes a handshake fail, and it is whole again after as many
\* refusals as the eight bytes of a STOP and a PING need to fill the longest frame.
THEOREM RefusalsAreBounded == Spec => []RefusalsBounded
<1>1. ASSUME IInv PROVE RefusalsBounded
  <2>1. refusals \in Nat /\ (pc = "failed" => cut)
    BY <1>1, HostNumbers DEF IInv, Counted
  <2>2. refusals > 0 => 8 * refusals + Chunk < MaxFrame + 8
    BY <1>1 DEF IInv, Counted
  <2>3. refusals = 0 \/ 8 * (refusals - 1) + Chunk < MaxFrame
    BY <2>1, <2>2, Numbers
  <2> QED
    BY <2>1, <2>3 DEF RefusalsBounded
<1> QED
  BY <1>1, AlwaysInPlace, PTL

\* What is under way while the host waits for a reply.
LEMMA OneUnderWay ==
    ASSUME IInv, ~cut, pc \in {"pong", "ok", "tx_wait", "rx_wait"}
    PROVE  \/ Silent(up) /\ (dir = "tx" => down = <<>>)
           \/ dir # "tx" /\ down = <<>> /\ \E r \in Replies : Once(up, r)
<1>1. out = <<>> /\ Seen \in Seq(Byte) /\ down \in Seq(Byte) /\ up \in Seq(Message)
  BY SeenIsBytes, HostNumbers DEF IInv, Place, ModemTyped, PipesTyped
<1>2. Sent = <<>> => down = <<>>
  BY <1>1, ConcatEqualIffEmpty DEF Sent
<1>3. "pong" \in Replies /\ "ok" \in Replies /\ "tx_done" \in Replies
  BY DEF Replies
<1>4. Last(up, "ok") => Once(up, "ok")
  BY <1>1, <1>3, SomeIsThere
<1>5. First(up, "ok") => Once(up, "ok")
  BY <1>1, <1>3, SomeIsThere
<1>6. CASE pc = "pong"
  BY <1>2, <1>3, <1>6 DEF IInv, Place, AtPing, Astray, Clear, Quiet
<1>7. CASE pc = "ok"
  BY <1>2, <1>3, <1>4, <1>7 DEF IInv, Place, AtConfig, Clear, Quiet
<1>8. CASE pc = "tx_wait"
  BY <1>2, <1>3, <1>8 DEF IInv, Place, AtTx, Clear, Quiet
<1>9. CASE pc = "rx_wait"
  BY <1>2, <1>3, <1>5, <1>9, NothingIsSilent DEF IInv, Place, AtRx, Clear
<1> QED
  BY <1>6, <1>7, <1>8, <1>9

\* A reply the host waits for is the only one under way, read or not: no answer can be
\* taken for that of another command, unless a command was cut off.
THEOREM RepliesStayInStep == Spec => []RepliesInStep
<1>1. ASSUME IInv PROVE RepliesInStep
  <2>1. SUFFICES ASSUME ~cut, pc \in {"pong", "ok", "tx_wait", "rx_wait"}
                 PROVE  RepliesUnderWay <= 1
    BY DEF RepliesInStep
  <2>2. up \in Seq(Message) /\ DOMAIN up = 1 .. Len(up)
    BY <1>1, HostNumbers
  <2> DEFINE U == {i \in DOMAIN up : up[i] \in Replies}
  <2>3. RepliesUnderWay = Cardinality(U) + (IF dir = "tx" THEN 1 ELSE 0)
                                         + (IF down = <<>> THEN 0 ELSE 1)
    BY DEF RepliesUnderWay
  <2>4. CASE Silent(up) /\ (dir = "tx" => down = <<>>)
    <3>1. U = {}
      BY <2>2, <2>4, NoneIsBoth DEF Silent
    <3>2. Cardinality(U) = 0
      BY <3>1, FS_EmptySet
    <3> HIDE DEF U
    <3> QED
      BY <3>2, <2>3, <2>4
  <2>5. CASE dir # "tx" /\ down = <<>> /\ \E r \in Replies : Once(up, r)
    <3>1. PICK r \in Replies : Once(up, r)
      BY <2>5
    <3>2. PICK k \in 1 .. Len(up) :
                 up[k] = r /\ \A i \in 1 .. Len(up) : i # k => up[i] \in Async
      BY <3>1 DEF Once
    <3>3. U = {k}
      BY <3>2, <2>2, NoneIsBoth
    <3>4. Cardinality({k}) = 1
      BY FS_Singleton
    <3> HIDE DEF U
    <3> QED
      BY <3>3, <3>4, <2>3, <2>5
  <2> QED
    BY <1>1, <2>1, <2>4, <2>5, OneUnderWay
<1> QED
  BY <1>1, AlwaysInPlace, PTL
====
