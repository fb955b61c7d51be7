---- MODULE FlashSession_proofs ----
(***************************************************************************)
(* What the flash session promises the user, for every image set, size,    *)
(* patch length, number of retries and number of runs, over a link that    *)
(* loses what it likes: the watch never runs a half-written image, "done"  *)
(* and "no EXIT ACK" are told truthfully, and an ACK means a written row.  *)
(*                                                                         *)
(* And that the simulator's sessions with the same watch end as its main   *)
(* demands, from "The simulator's sessions" on.                            *)
(***************************************************************************)
EXTENDS FlashSession, FlasherSim, SequenceTheorems, TLAPS

\* A watch that has been armed and not written to has taken no id yet.
ArmedAfresh == wstate = "armed" => last = NoId

\* Where the tool stands: the frames of a stage are counted from its first one, only
\* a fresh run links and arms, and the EXIT follows the last frame.
ToolOK ==
    /\ pc = "test" => run.arm /\ cur < TestBlocks
    /\ pc = "enter" => run.arm
    /\ pc \in {"confirm", "enter"} => cur = run.start
    /\ pc \in {"exit", "ask"} => cur = run.end

\* From the last ACK of the stream to the end of the run the watch is parked, or it
\* has verified the image and left: it cannot be elsewhere with other contents.
ExitTold ==
    pc \in {"exit", "ask"} =>
        \/ wstate = "flasher" /\ last = cur - 1
        \/ wstate \in {"launcher", "test"} /\ Holds(run.img, Rows)

\* The watch is in the tool's stream: armed for it, or answering it.
OwnStream == run.arm \/ cur > run.start

\* A pass over whole rows finds no patch decoder in its way.
NoDecoderLeft ==
    pc \in {"stream", "exit", "ask"} /\ ~run.patch /\ OwnStream => decoder = NoImage

\* What the watch will answer as a repeat, it has written.
RepeatIsWritten ==
    pc = "stream" /\ ~run.patch /\ OwnStream /\ Repeat(cur) => flash[cur] = run.img

\* AckedRowsHold's first part outlives the stream: a resend starts from what the
\* first pass has left.
SentRowsHold ==
    pc \in {"stream", "exit", "ask"} /\ ~run.patch =>
        \A r \in (run.start + FirstRepeats) .. (cur - 1) : flash[r] = run.img

\* AckedRowsHold's second part.
DecodedRowsHold == decoder \in Images => Holds(decoder, 0 .. (rebuilt - 1))

\* With TypeOK, the inductive invariant.
SessionOK ==
    /\ ToolOK /\ ArmedAfresh /\ NeverRunsMixture /\ ExitTold /\ StreamInStep
    /\ NoDecoderLeft /\ RepeatIsWritten /\ SentRowsHold /\ DecodedRowsHold

-----------------------------------------------------------------------------
(* The operations of the watch                                             *)

\* The arguments of a run are those of an image that fits.
LEMMA RunFacts ==
    ASSUME NEW r \in Runs
    PROVE  /\ r.img \in Images /\ r.ref \in Images
           /\ r.patch \in BOOLEAN /\ r.arm \in BOOLEAN
           /\ r.start \in 0 .. (NumRows - 1) /\ r.end \in 1 .. NumRows
           /\ r.start < r.end
           /\ r.arm => r.start = 0
           /\ r.patch => r.end = NumChunks
<1>0. NumRows \in Nat \ {0} /\ NumChunks \in 1 .. NumRows
  BY SessionAssumption, WatchAssumption
<1>1. CASE r \in {f \in FullRuns : f.start < f.end}
  <2>1. r \in FullRuns /\ r.start < r.end
    BY <1>1
  <2>2. CASE r \in {Run(i, FALSE, i, TRUE, 0, e) : i \in Images, e \in 1 .. NumRows}
    <3>1. PICK i \in Images, e \in 1 .. NumRows : r = Run(i, FALSE, i, TRUE, 0, e)
      BY <2>2 DEF Run
    <3> QED
      BY <1>0, <2>1, <3>1 DEF Run
  <2>3. CASE r \in {Run(i, FALSE, i, FALSE, s, e) : i \in Images, s \in Rows, e \in 1 .. NumRows}
    <3>1. PICK i \in Images, s \in Rows, e \in 1 .. NumRows : r = Run(i, FALSE, i, FALSE, s, e)
      BY <2>3 DEF Run
    <3> QED
      BY <1>0, <2>1, <3>1 DEF Run, Rows
  <2> QED
    BY <2>1, <2>2, <2>3 DEF FullRuns, Run
<1>2. CASE r \in {f \in PatchRuns : f.img # f.ref}
  <2>1. r \in PatchRuns
    BY <1>2
  <2>2. CASE r \in {Run(i, TRUE, f, TRUE, 0, NumChunks) : i \in Images, f \in Images}
    <3>1. PICK i \in Images, f \in Images : r = Run(i, TRUE, f, TRUE, 0, NumChunks)
      BY <2>2 DEF Run
    <3> QED
      BY <1>0, <3>1 DEF Run
  <2>3. CASE r \in {Run(i, TRUE, f, FALSE, s, NumChunks) :
                      i \in Images, f \in Images, s \in 0 .. (NumChunks - 1)}
    <3>1. PICK i \in Images, f \in Images, s \in 0 .. (NumChunks - 1) :
            r = Run(i, TRUE, f, FALSE, s, NumChunks)
      BY <2>3 DEF Run
    <3> QED
      BY <1>0, <3>1 DEF Run
  <2> QED
    BY <2>1, <2>2, <2>3 DEF PatchRuns, Run
<1> QED
  BY <1>1, <1>2 DEF Runs

\* A row that is written, or fails, leaves the others alone.
LEMMA WriteRowEffect ==
    ASSUME WatchTypeOK, NEW r \in Int, NEW i \in Images \cup {Torn}, NEW wrote \in BOOLEAN,
           WriteRow(r, i, wrote)
    PROVE  /\ flash' \in [Rows -> Images \cup {Torn}]
           /\ \A s \in Rows : s # r => flash'[s] = flash[s]
           /\ wrote /\ r \in Rows => flash'[r] = i
<1>1. CASE wrote
  BY <1>1 DEF WriteRow, WatchTypeOK
<1>2. CASE ~wrote
  BY <1>2, WatchAssumption DEF WriteRow, WatchTypeOK
<1> QED
  BY <1>1, <1>2

\* A block: a repeat or a stranger changes nothing, and only a repeat of those is
\* answered; any other is written if it is answered.
LEMMA BlockEffect ==
    ASSUME WatchTypeOK, NEW id \in Rows, NEW i \in Images, NEW wrote \in BOOLEAN,
           NEW ack \in BOOLEAN, OnBlock(id, i, wrote, ack)
    PROVE  \/ /\ UNCHANGED watchVars
              /\ ack => Repeat(id) /\ decoder = NoImage
           \/ /\ InFlasher /\ ~(Repeat(id) /\ decoder = NoImage)
              /\ id = 0 \/ id = last + 1
              /\ wstate' = "flasher" /\ decoder' = NoImage /\ rebuilt' = 0
              /\ last' = (IF ack THEN id ELSE last)
              /\ flash' \in [Rows -> Images \cup {Torn}]
              /\ \A s \in Rows : s # id => flash'[s] = flash[s]
              /\ ack => flash'[id] = i
<1>1. CASE InFlasher /\ Repeat(id) /\ decoder = NoImage /\ ack /\ UNCHANGED watchVars
  BY <1>1
<1>2. CASE ~ack /\ UNCHANGED watchVars
  BY <1>2
<1>3. CASE /\ InFlasher /\ ~(Repeat(id) /\ decoder = NoImage)
           /\ TakesOver(id) \/ (decoder = NoImage /\ id = last + 1)
           /\ ack = wrote /\ WriteRow(id, i, wrote)
           /\ last' = IF wrote THEN id ELSE last
           /\ wstate' = "flasher" /\ decoder' = NoImage /\ rebuilt' = 0
  <2>1. id \in Int
    BY WatchAssumption DEF Rows
  <2>2. /\ flash' \in [Rows -> Images \cup {Torn}]
        /\ \A s \in Rows : s # id => flash'[s] = flash[s]
        /\ wrote => flash'[id] = i
    BY <1>3, <2>1, WriteRowEffect
  <2> QED
    BY <1>3, <2>2 DEF TakesOver
<1> QED
  BY <1>1, <1>2, <1>3 DEF OnBlock

\* What the decoder makes of a chunk: it goes on with its image over the rows it has
\* made, or it is none that counts.
LEMMA DecodeEffect ==
    ASSUME WatchTypeOK, DecodedRowsHold, NEW id \in Nat, NEW i \in Images, NEW final \in BOOLEAN,
           NEW gate \in BOOLEAN, NEW wrote \in BOOLEAN, Decode(id, i, final, gate, wrote)
    PROVE  /\ decoder' \in Images \cup {Torn, Dead} /\ rebuilt' \in 0 .. NumRows
           /\ flash' \in [Rows -> Images \cup {Torn}]
           /\ DecodedRowsHold'
<1> DEFINE content == IF i = decoder THEN i ELSE Torn
<1>0. content \in Images \cup {Torn} /\ Torn \notin Images /\ Dead \notin Images
  BY WatchAssumption
<1>1. ASSUME NEW n \in Pace(id, final),
             rebuilt' = n, decoder' = content,
             flash' = [r \in Rows |-> IF r \in rebuilt .. (n - 1) THEN content ELSE flash[r]]
      PROVE  /\ decoder' \in Images \cup {Torn, Dead} /\ rebuilt' \in 0 .. NumRows
             /\ flash' \in [Rows -> Images \cup {Torn}]
             /\ DecodedRowsHold'
  <2>1. n \in 0 .. NumRows /\ rebuilt <= n /\ rebuilt \in Nat /\ n \in Nat
    BY WatchAssumption DEF Pace, WatchTypeOK
  <2>2. flash' \in [Rows -> Images \cup {Torn}]
    BY <1>0, <1>1 DEF WatchTypeOK
  <2>3. ASSUME decoder' \in Images, NEW r \in 0 .. (rebuilt' - 1)
        PROVE  flash'[r] = decoder'
    <3>1. decoder' = decoder /\ content = decoder
      BY <1>0, <1>1, <2>3
    <3>2. r \in Rows
      BY <1>1, <2>1, <2>3, WatchAssumption DEF Rows
    <3>3. CASE r \in rebuilt .. (n - 1)
      BY <1>1, <3>1, <3>2, <3>3
    <3>4. CASE r \notin rebuilt .. (n - 1)
      <4>1. r \in 0 .. (rebuilt - 1)
        BY <1>1, <2>1, <2>3, <3>4
      <4> QED
        BY <1>1, <2>3, <3>1, <3>2, <3>4, <4>1 DEF DecodedRowsHold, Holds
    <3> QED
      BY <3>3, <3>4
  <2> QED
    BY <1>0, <1>1, <2>1, <2>2, <2>3 DEF DecodedRowsHold, Holds
<1>2. ASSUME decoder' = Dead, UNCHANGED rebuilt,
             IF gate /\ ~wrote THEN WriteRow(rebuilt, content, FALSE) ELSE UNCHANGED flash
      PROVE  /\ decoder' \in Images \cup {Torn, Dead} /\ rebuilt' \in 0 .. NumRows
             /\ flash' \in [Rows -> Images \cup {Torn}]
             /\ DecodedRowsHold'
  <2>1. flash' \in [Rows -> Images \cup {Torn}]
    <3>1. CASE gate /\ ~wrote
      <4>1. rebuilt \in Int
        BY WatchAssumption DEF WatchTypeOK
      <4>2. WriteRow(rebuilt, content, FALSE)
        BY <1>2, <3>1
      <4> QED
        BY <1>0, <4>1, <4>2, WriteRowEffect
    <3>2. CASE ~(gate /\ ~wrote)
      BY <1>2, <3>2 DEF WatchTypeOK
    <3> QED
      BY <3>1, <3>2
  <2> QED
    BY <1>0, <1>2, <2>1 DEF DecodedRowsHold, WatchTypeOK
<1> QED
  BY <1>1, <1>2 DEF Decode

\* A chunk: a repeat or a stranger changes nothing, and only a repeat of those is
\* answered; any other is the next one, and is answered.
LEMMA ChunkEffect ==
    ASSUME WatchTypeOK, DecodedRowsHold, NEW id \in Nat, NEW i \in Images, NEW final \in BOOLEAN,
           NEW gate \in BOOLEAN, NEW wrote \in BOOLEAN, NEW ack \in BOOLEAN,
           OnChunk(id, i, final, gate, wrote, ack)
    PROVE  \/ UNCHANGED watchVars /\ (ack => Repeat(id))
           \/ /\ InFlasher /\ ack /\ last' = id /\ wstate' = "flasher"
              /\ decoder' \in Images \cup {Torn, Dead} /\ rebuilt' \in 0 .. NumRows
              /\ flash' \in [Rows -> Images \cup {Torn}]
              /\ DecodedRowsHold'
BY DecodeEffect DEF OnChunk

\* ENTER: what is answered arms the watch afresh, and what is not leaves it alone.
LEMMA EnterEffect ==
    ASSUME WatchTypeOK, NEW p \in BOOLEAN, NEW r, NEW i, NEW ack \in BOOLEAN, OnEnter(p, r, i, ack)
    PROVE  \/ /\ ack /\ wstate' = "armed" /\ last' = NoId /\ rebuilt' = 0 /\ flash' = flash
              /\ decoder' = (IF p THEN i ELSE NoImage)
           \/ ~ack /\ UNCHANGED watchVars
BY DEF OnEnter, watchVars

\* EXIT: the watch reboots into the described image or stays as it is.
LEMMA ExitEffect ==
    ASSUME NEW i, NEW ack \in BOOLEAN, OnExit(i, Rows, ack)
    PROVE  \/ /\ ack /\ Holds(i, Rows) /\ wstate' = "launcher" /\ last' = NoId
              /\ decoder' = NoImage /\ rebuilt' = 0 /\ flash' = flash
           \/ ~ack /\ UNCHANGED watchVars
BY DEF OnExit, watchVars

-----------------------------------------------------------------------------
(* The steps of a session                                                  *)

\* What a frame of the stream does to the watch: nothing, and then only a repeat is
\* answered; or it is a row that is taken ...
Unheard(got) ==
    /\ UNCHANGED watchVars
    /\ got => Repeat(cur) /\ (~run.patch => decoder = NoImage)

RowTaken(got) ==
    /\ ~run.patch /\ InFlasher /\ ~(Repeat(cur) /\ decoder = NoImage)
    /\ cur = 0 \/ cur = last + 1
    /\ wstate' = "flasher" /\ decoder' = NoImage /\ rebuilt' = 0
    /\ flash' \in [Rows -> Images \cup {Torn}]
    /\ \A s \in Rows : s # cur => flash'[s] = flash[s]
    /\ \/ last' = cur /\ flash'[cur] = run.img
       \/ last' = last /\ ~got

\* ... or a chunk.
ChunkTaken ==
    /\ run.patch /\ InFlasher
    /\ last' = cur /\ wstate' = "flasher"
    /\ decoder' \in Images \cup {Torn, Dead} /\ rebuilt' \in 0 .. NumRows
    /\ flash' \in [Rows -> Images \cup {Torn}]
    /\ DecodedRowsHold'

\* The frames of the stream are rows of the image.
LEMMA StreamTypes ==
    ASSUME TypeOK, pc = "stream"
    PROVE  /\ run.img \in Images /\ run.patch \in BOOLEAN /\ run.arm \in BOOLEAN
           /\ run.start \in Nat /\ run.end \in 1 .. NumRows /\ run.start < run.end
           /\ run.arm => run.start = 0
           /\ cur \in Nat /\ cur \in Rows /\ run.start <= cur /\ cur < run.end
<1>1. run \in Runs /\ cur \in run.start .. (run.end - 1)
  BY DEF TypeOK
<1> QED
  BY <1>1, RunFacts, WatchAssumption DEF Rows

\* That is all a frame does, over a link that may lose it and its echo.
LEMMA StreamEffect ==
    ASSUME TypeOK, DecodedRowsHold, NEW got \in BOOLEAN, Stream(got)
    PROVE  Unheard(got) \/ RowTaken(got) \/ ChunkTaken
<1>0. /\ WatchTypeOK /\ pc = "stream"
      /\ run.img \in Images /\ run.patch \in BOOLEAN /\ cur \in Nat /\ cur \in Rows
  BY StreamTypes DEF TypeOK, Stream
<1>1. CASE UNCHANGED watchVars /\ ~got
  BY <1>1 DEF Unheard
<1>2. ASSUME NEW ack \in BOOLEAN, OnData(ack), got => ack
      PROVE  Unheard(got) \/ RowTaken(got) \/ ChunkTaken
  <2>1. PICK wrote \in BOOLEAN :
          IF run.patch THEN OnChunk(cur, run.img, cur + 1 = NumChunks, TRUE, wrote, ack)
          ELSE OnBlock(cur, run.img, wrote, ack)
    BY <1>2 DEF OnData
  <2>2. CASE run.patch
    <3>1. PICK final \in BOOLEAN, gate \in BOOLEAN :
            OnChunk(cur, run.img, final, gate, wrote, ack)
      BY <2>1, <2>2
    <3>2. \/ UNCHANGED watchVars /\ (ack => Repeat(cur))
          \/ /\ InFlasher /\ ack /\ last' = cur /\ wstate' = "flasher"
             /\ decoder' \in Images \cup {Torn, Dead} /\ rebuilt' \in 0 .. NumRows
             /\ flash' \in [Rows -> Images \cup {Torn}]
             /\ DecodedRowsHold'
      BY <1>0, <3>1, ChunkEffect
    <3> QED
      BY <1>2, <2>2, <3>2 DEF Unheard, ChunkTaken
  <2>3. CASE ~run.patch
    <3>1. OnBlock(cur, run.img, wrote, ack)
      BY <2>1, <2>3
    <3>2. \/ /\ UNCHANGED watchVars
             /\ ack => Repeat(cur) /\ decoder = NoImage
          \/ /\ InFlasher /\ ~(Repeat(cur) /\ decoder = NoImage)
             /\ cur = 0 \/ cur = last + 1
             /\ wstate' = "flasher" /\ decoder' = NoImage /\ rebuilt' = 0
             /\ last' = (IF ack THEN cur ELSE last)
             /\ flash' \in [Rows -> Images \cup {Torn}]
             /\ \A s \in Rows : s # cur => flash'[s] = flash[s]
             /\ ack => flash'[cur] = run.img
      BY <1>0, <3>1, BlockEffect
    <3> QED
      BY <1>2, <2>3, <3>2 DEF Unheard, RowTaken
  <2> QED
    BY <1>0, <2>2, <2>3
<1>3. \/ UNCHANGED watchVars /\ ~got
      \/ \E ack \in BOOLEAN : OnData(ack) /\ (got => ack)
  BY DEF Exchange, Stream
<1> QED
  BY <1>1, <1>2, <1>3

\* A frame that is answered is the one the watch has taken last.
LEMMA StreamAnswered ==
    ASSUME TypeOK, DecodedRowsHold, Stream(TRUE)
    PROVE  wstate' = "flasher" /\ last' = cur
<1>1. Unheard(TRUE) \/ RowTaken(TRUE) \/ ChunkTaken
  BY StreamEffect
<1> QED
  BY <1>1 DEF Unheard, RowTaken, ChunkTaken, Repeat, watchVars

\* The stages other than the stream leave the flash alone.
LEMMA OtherStagesEffect ==
    ASSUME TypeOK, NEW got \in BOOLEAN
    PROVE  /\ TestFrame(got) => UNCHANGED watchVars
           /\ Enter(got) =>
                \/ /\ wstate' = "armed" /\ last' = NoId /\ rebuilt' = 0 /\ flash' = flash
                   /\ decoder' = IF run.patch THEN run.img ELSE NoImage
                \/ ~got /\ UNCHANGED watchVars
           /\ Exit(got) =>
                \/ /\ Holds(run.img, Rows) /\ wstate' = "launcher" /\ last' = NoId
                   /\ decoder' = NoImage /\ rebuilt' = 0 /\ flash' = flash
                \/ ~got /\ UNCHANGED watchVars
<1>0. WatchTypeOK /\ run.patch \in BOOLEAN
  BY RunFacts DEF TypeOK
<1>1. ASSUME TestFrame(got) PROVE UNCHANGED watchVars
  BY <1>1 DEF TestFrame, Exchange, OnTest
<1>2. ASSUME Enter(got)
      PROVE  \/ /\ wstate' = "armed" /\ last' = NoId /\ rebuilt' = 0 /\ flash' = flash
                /\ decoder' = IF run.patch THEN run.img ELSE NoImage
             \/ ~got /\ UNCHANGED watchVars
  <2>1. \/ ~got /\ UNCHANGED watchVars
        \/ \E ack \in BOOLEAN : OnEnter(run.patch, run.ref, run.img, ack) /\ (got => ack)
    BY <1>2 DEF Enter, Exchange
  <2> QED
    BY <1>0, <2>1, EnterEffect
<1>3. ASSUME Exit(got)
      PROVE  \/ /\ Holds(run.img, Rows) /\ wstate' = "launcher" /\ last' = NoId
                /\ decoder' = NoImage /\ rebuilt' = 0 /\ flash' = flash
             \/ ~got /\ UNCHANGED watchVars
  <2>1. \/ ~got /\ UNCHANGED watchVars
        \/ \E ack \in BOOLEAN : OnExit(run.img, Rows, ack) /\ (got => ack)
    BY <1>3 DEF Exit, Exchange, Described
  <2> QED
    BY <2>1, ExitEffect
<1> QED
  BY <1>1, <1>2, <1>3

-----------------------------------------------------------------------------
(* The invariant                                                           *)

\* A run is told apart from the others by its arguments only.
LEMMA WholeRun ==
    ASSUME NEW i \in Images
    PROVE  /\ Run(i, FALSE, i, FALSE, 0, NumRows) \in Runs
           /\ Run(i, FALSE, i, TRUE, 0, NumRows) \in Runs
<1>1. 0 \in Rows /\ NumRows \in 1 .. NumRows /\ 0 < NumRows
  BY WatchAssumption DEF Rows
<1>2. Run(i, FALSE, i, TRUE, 0, NumRows) \in FullRuns
  <2> DEFINE R(j, e) == [img |-> j, patch |-> FALSE, ref |-> j,
                         arm |-> TRUE, start |-> 0, end |-> e]
  <2>1. R(i, NumRows) \in {R(j, e) : j \in Images, e \in 1 .. NumRows}
    <3> HIDE DEF R
    <3> QED
      BY <1>1
  <2> QED
    BY <2>1 DEF FullRuns, Run
<1>4. Run(i, FALSE, i, FALSE, 0, NumRows) \in FullRuns
  <2> DEFINE R(j, s, e) ==
        [img |-> j, patch |-> FALSE, ref |-> j, arm |-> FALSE, start |-> s, end |-> e]
  <2>1. R(i, 0, NumRows) \in {R(j, s, e) : j \in Images, s \in Rows, e \in 1 .. NumRows}
    <3> HIDE DEF R
    <3> QED
      BY <1>1
  <2> QED
    BY <2>1 DEF FullRuns, Run
<1>3. /\ Run(i, FALSE, i, FALSE, 0, NumRows).start < Run(i, FALSE, i, FALSE, 0, NumRows).end
      /\ Run(i, FALSE, i, TRUE, 0, NumRows).start < Run(i, FALSE, i, TRUE, 0, NumRows).end
  BY <1>1 DEF Run
<1> QED
  BY <1>2, <1>3, <1>4 DEF Runs

\* The initial state.
LEMMA SessionInit == Init => TypeOK /\ SessionOK
<1> SUFFICES ASSUME Init PROVE TypeOK /\ SessionOK
  OBVIOUS
<1>1. run \in Runs
  BY WholeRun, SessionAssumption DEF Init
<1>2. TypeOK
  <2>1. /\ 0 \in 0 .. NumRows /\ 0 \in 0 .. Retries /\ 0 \in 0 .. MaxRuns /\ Factory \in Images
    BY SessionAssumption, WatchAssumption
  <2>2. WatchTypeOK
    BY <2>1 DEF Init, WatchTypeOK
  <2> QED
    BY <1>1, <2>1, <2>2 DEF Init, TypeOK
<1>3. NeverRunsMixture
  BY SessionAssumption DEF Init, NeverRunsMixture, Holds
<1>4. DecodedRowsHold
  BY WatchAssumption DEF Init, DecodedRowsHold
<1> QED
  BY <1>2, <1>3, <1>4
  DEF Init, SessionOK, ToolOK, ArmedAfresh, ExitTold, StreamInStep, NoDecoderLeft,
      RepeatIsWritten, SentRowsHold

\* A frame of the stream keeps it: a row is written once, at its turn.
LEMMA StreamStep ==
    ASSUME TypeOK, SessionOK, NEW got \in BOOLEAN, Stream(got)
    PROVE  TypeOK' /\ SessionOK'
<1>1. /\ run.img \in Images /\ run.patch \in BOOLEAN /\ run.arm \in BOOLEAN
      /\ run.start \in Nat /\ run.end \in 1 .. NumRows /\ run.start < run.end
      /\ run.arm => run.start = 0
      /\ cur \in Nat /\ cur \in Rows /\ run.start <= cur /\ cur < run.end
  BY StreamTypes DEF Stream
<1>2. Unheard(got) \/ RowTaken(got) \/ ChunkTaken
  BY StreamEffect DEF SessionOK
<1>3. got => wstate' = "flasher" /\ last' = cur
  <2>1. CASE got
    BY <2>1, StreamAnswered DEF SessionOK
  <2> QED
    BY <2>1
<1>4. /\ pc = "stream" /\ run' = run /\ runs' = runs /\ tries' = 0
      /\ cur' = (IF got THEN cur + 1 ELSE cur)
      /\ pc' = (IF got /\ cur' >= run.end THEN "exit" ELSE "stream")
  BY DEF Stream, NextFrame
<1>5. NumRows \in Nat \ {0} /\ NumRows \in Int /\ Retries \in Nat
  BY WatchAssumption, SessionAssumption
<1>6. TypeOK'
  <2>1. WatchTypeOK'
    BY <1>1, <1>2, <1>5 DEF TypeOK, WatchTypeOK, Unheard, RowTaken, ChunkTaken, watchVars
  <2>2. cur' \in 0 .. NumRows /\ (pc' = "stream" => cur' \in run.start .. (run.end - 1))
    BY <1>1, <1>4, <1>5
  <2> QED
    BY <1>4, <1>5, <2>1, <2>2 DEF TypeOK
<1>7. ToolOK'
  BY <1>1, <1>4 DEF ToolOK
<1>8. NeverRunsMixture' /\ ArmedAfresh'
  BY <1>2
  DEF SessionOK, NeverRunsMixture, ArmedAfresh, Holds, Unheard, RowTaken, ChunkTaken, watchVars
<1>9. ExitTold'
  BY <1>1, <1>3, <1>4 DEF ExitTold
<1>10. StreamInStep'
  <2>1. CASE got
    BY <1>1, <1>3, <1>4, <2>1 DEF StreamInStep
  <2>2. CASE ~got
    BY <1>1, <1>2, <1>4, <2>2
    DEF SessionOK, StreamInStep, Unheard, RowTaken, ChunkTaken, watchVars
  <2> QED
    BY <2>1, <2>2
<1>11. NoDecoderLeft'
  BY <1>1, <1>2, <1>4
  DEF SessionOK, NoDecoderLeft, OwnStream, Unheard, RowTaken, ChunkTaken, watchVars
<1>12. RepeatIsWritten'
  <2> SUFFICES ASSUME pc' = "stream", ~run.patch, OwnStream', Repeat(cur)'
               PROVE  flash'[cur'] = run.img
    BY <1>4 DEF RepeatIsWritten
  <2>1. ~got
    BY <1>1, <1>3, <1>4 DEF Repeat
  <2>2. CASE Unheard(got)
    BY <1>4, <2>1, <2>2 DEF SessionOK, RepeatIsWritten, OwnStream, Repeat, Unheard, watchVars
  <2>3. CASE RowTaken(got)
    <3>1. OwnStream /\ cur' = cur
      BY <1>4, <2>1 DEF OwnStream
    <3>2. decoder = NoImage
      BY <1>4, <3>1 DEF SessionOK, NoDecoderLeft
    <3>3. last' = cur
      BY <3>1 DEF Repeat
    <3>4. last = cur => wstate # "flasher"
      BY <2>3, <3>2 DEF RowTaken, Repeat
    <3>5. last # cur
      <4>1. CASE wstate = "flasher"
        BY <3>4, <4>1
      <4>2. CASE wstate # "flasher"
        BY <1>1, <1>4, <2>3, <3>1, <4>2
        DEF SessionOK, StreamInStep, ArmedAfresh, NoId, RowTaken, OwnStream, InFlasher
      <4> QED
        BY <4>1, <4>2
    <3> QED
      BY <2>3, <3>1, <3>3, <3>5 DEF RowTaken
  <2> QED
    BY <1>2, <2>2, <2>3 DEF ChunkTaken
<1>13. SentRowsHold'
  <2> SUFFICES ASSUME ~run.patch, NEW r \in (run.start + FirstRepeats) .. (cur' - 1)
               PROVE  flash'[r] = run.img
    BY <1>4 DEF SentRowsHold, FirstRepeats
  <2>1. r \in Rows /\ r \in Nat /\ r >= run.start /\ r <= cur
    BY <1>1, <1>4, <1>5 DEF FirstRepeats, Rows
  <2>2. CASE r # cur
    <3>1. flash[r] = run.img
      BY <1>1, <1>4, <2>1, <2>2 DEF SessionOK, SentRowsHold, FirstRepeats
    <3> QED
      BY <1>2, <2>1, <2>2, <3>1 DEF Unheard, RowTaken, ChunkTaken, watchVars
  <2>3. CASE r = cur
    <3>1. got /\ OwnStream
      BY <1>1, <1>4, <2>3 DEF FirstRepeats, OwnStream
    <3> QED
      BY <1>2, <1>4, <2>3, <3>1
      DEF SessionOK, RepeatIsWritten, Unheard, RowTaken, ChunkTaken, watchVars
  <2> QED
    BY <2>2, <2>3
<1>14. DecodedRowsHold'
  BY <1>2, WatchAssumption
  DEF SessionOK, DecodedRowsHold, Holds, Unheard, RowTaken, ChunkTaken, watchVars
<1> QED
  BY <1>6, <1>7, <1>8, <1>9, <1>10, <1>11, <1>12, <1>13, <1>14 DEF SessionOK

\* EXIT keeps it: what the watch verifies is what the tool reports, also when the
\* answer is lost.
LEMMA ExitStep ==
    ASSUME TypeOK, SessionOK, NEW got \in BOOLEAN, Exit(got)
    PROVE  TypeOK' /\ SessionOK'
<1>1. /\ pc = "exit" /\ pc' \in {"done", "exit", "ask"}
      /\ run' = run /\ cur' = cur /\ runs' = runs /\ tries' \in 0 .. Retries
  BY SessionAssumption DEF Exit, TypeOK
<1>2. \/ /\ Holds(run.img, Rows) /\ wstate' = "launcher" /\ last' = NoId
         /\ decoder' = NoImage /\ rebuilt' = 0 /\ flash' = flash
      \/ ~got /\ UNCHANGED watchVars
  BY OtherStagesEffect
<1>3. run.img \in Images /\ cur = run.end
  BY <1>1, RunFacts DEF TypeOK, SessionOK, ToolOK
<1>4. TypeOK'
  <2>1. WatchTypeOK'
    BY <1>2, WatchAssumption DEF TypeOK, WatchTypeOK, watchVars
  <2> QED
    BY <1>1, <2>1 DEF TypeOK
<1>5. NeverRunsMixture' /\ ArmedAfresh'
  BY <1>2, <1>3 DEF SessionOK, NeverRunsMixture, ArmedAfresh, Holds, watchVars
<1>6. ExitTold'
  BY <1>1, <1>2 DEF SessionOK, ExitTold, Holds, watchVars
<1>7. NoDecoderLeft'
  BY <1>1, <1>2 DEF SessionOK, NoDecoderLeft, OwnStream, watchVars
<1>8. SentRowsHold'
  BY <1>1, <1>2 DEF SessionOK, SentRowsHold, FirstRepeats, watchVars
<1>9. DecodedRowsHold'
  BY <1>2, WatchAssumption DEF SessionOK, DecodedRowsHold, Holds, watchVars
<1> QED
  BY <1>1, <1>3, <1>4, <1>5, <1>6, <1>7, <1>8, <1>9
  DEF SessionOK, ToolOK, StreamInStep, RepeatIsWritten

\* ENTER keeps it: the stream begins on a watch without id and, for whole rows,
\* without decoder.
LEMMA EnterStep ==
    ASSUME TypeOK, SessionOK, NEW got \in BOOLEAN, Enter(got)
    PROVE  TypeOK' /\ SessionOK'
<1>1. /\ pc = "enter" /\ pc' = (IF got THEN "stream" ELSE "enter")
      /\ run' = run /\ cur' = cur /\ tries' = tries /\ runs' = runs
  BY DEF Enter
<1>2. \/ /\ wstate' = "armed" /\ last' = NoId /\ rebuilt' = 0 /\ flash' = flash
         /\ decoder' = IF run.patch THEN run.img ELSE NoImage
      \/ ~got /\ UNCHANGED watchVars
  BY OtherStagesEffect
<1>3. /\ run.img \in Images /\ run.patch \in BOOLEAN
      /\ run.arm /\ cur = run.start /\ run.start = 0 /\ run.start < run.end /\ run.end \in Nat
  BY <1>1, RunFacts, WatchAssumption DEF TypeOK, SessionOK, ToolOK
<1>4. TypeOK'
  <2>1. WatchTypeOK'
    BY <1>2, <1>3, WatchAssumption DEF TypeOK, WatchTypeOK, watchVars
  <2>2. cur \in run.start .. (run.end - 1)
    BY <1>3
  <2> QED
    BY <1>1, <2>1, <2>2 DEF TypeOK
<1>5. NeverRunsMixture' /\ ArmedAfresh' /\ ExitTold'
  BY <1>1, <1>2 DEF SessionOK, NeverRunsMixture, ArmedAfresh, ExitTold, Holds, watchVars
<1>6. ToolOK' /\ StreamInStep' /\ NoDecoderLeft' /\ RepeatIsWritten'
  BY <1>1, <1>2, <1>3
  DEF SessionOK, ToolOK, StreamInStep, NoDecoderLeft, RepeatIsWritten, Repeat, watchVars
<1>7. SentRowsHold'
  BY <1>1, <1>3 DEF SentRowsHold, FirstRepeats
<1>8. DecodedRowsHold'
  BY <1>2, WatchAssumption DEF SessionOK, DecodedRowsHold, Holds, TypeOK, watchVars
<1> QED
  BY <1>4, <1>5, <1>6, <1>7, <1>8 DEF SessionOK

\* A resend keeps it: it finds what the first pass has left, and a run that armed the
\* watch still has it for its own.
LEMMA ResendStep == ASSUME TypeOK, SessionOK, Resend PROVE TypeOK' /\ SessionOK'
<1>0. NumRows \in Nat \ {0} /\ Retries \in Nat /\ run \in Runs /\ run.img \in Images
      /\ run.patch \in BOOLEAN
  BY RunFacts, WatchAssumption, SessionAssumption DEF TypeOK
<1>1. /\ run'.img = run.img /\ ~run'.patch /\ run' \in Runs
      /\ run'.start = 0 /\ run'.end \in 1 .. NumRows
      /\ run'.arm => (run' = run /\ ~run.patch)
  <2>1. CASE run.patch
    <3>1. run' = Run(run.img, FALSE, run.img, FALSE, 0, NumRows)
      BY <2>1 DEF Resend
    <3>2. run' \in Runs
      BY <1>0, <3>1, WholeRun
    <3> QED
      BY <1>0, <3>1, <3>2 DEF Run
  <2>2. CASE ~run.patch
    BY <1>0, <2>2, RunFacts DEF Resend, Restartable
  <2> QED
    BY <2>1, <2>2
<1>2. /\ pc = "ask" /\ cur' = 0 /\ tries' = 0 /\ runs' = runs
      /\ UNCHANGED watchVars
  BY DEF Resend, Restartable, FirstAgain
<1>3. pc' = "stream"
  <2>1. pc' = IF cur' >= run'.end THEN "exit" ELSE "stream"
    BY DEF Resend
  <2> QED
    BY <1>0, <1>1, <1>2, <2>1
<1>4. TypeOK'
  <2>1. WatchTypeOK'
    BY <1>2 DEF TypeOK, WatchTypeOK, watchVars
  <2>2. cur' \in run'.start .. (run'.end - 1)
    BY <1>0, <1>1, <1>2
  <2> QED
    BY <1>0, <1>1, <1>2, <1>3, <2>1, <2>2 DEF TypeOK
<1>5. NeverRunsMixture' /\ ArmedAfresh' /\ DecodedRowsHold'
  BY <1>2 DEF SessionOK, NeverRunsMixture, ArmedAfresh, DecodedRowsHold, Holds, watchVars
<1>6. NoDecoderLeft'
  BY <1>1, <1>2, <1>3 DEF SessionOK, NoDecoderLeft, OwnStream, watchVars
<1>7. RepeatIsWritten'
  <2> SUFFICES ASSUME run'.arm, Repeat(0)' PROVE flash'[0] = run'.img
    BY <1>1, <1>2, <1>3 DEF RepeatIsWritten, OwnStream
  <2>1. wstate = "flasher" /\ last = 0 /\ flash' = flash
    BY <1>2 DEF Repeat, watchVars
  <2>2. cur = 1
    BY <1>2, <2>1 DEF SessionOK, ExitTold, TypeOK
  <2>3. 0 \in (run.start + FirstRepeats) .. (cur - 1)
    BY <1>1, <2>2 DEF FirstRepeats
  <2> QED
    BY <1>1, <1>2, <2>1, <2>3 DEF SessionOK, SentRowsHold
<1>8. SentRowsHold'
  BY <1>1, <1>2 DEF SentRowsHold, FirstRepeats
<1> QED
  BY <1>1, <1>2, <1>3, <1>4, <1>5, <1>6, <1>7, <1>8
  DEF SessionOK, ToolOK, ExitTold, StreamInStep

\* So do the stages that send nothing, or nothing that tells.
LEMMA ToolStep ==
    ASSUME TypeOK, SessionOK,
           \/ \E r \in Runs : StartRun(r)
           \/ \E got \in BOOLEAN : TestFrame(got)
           \/ \E yes \in BOOLEAN : Confirm(yes)
           \/ GiveUp \/ Interrupt
    PROVE  TypeOK' /\ SessionOK'
<1>0. /\ NumRows \in Nat \ {0} /\ TestBlocks \in 1 .. NumRows /\ Retries \in Nat /\ MaxRuns \in Nat
      /\ run \in Runs /\ run.start \in 0 .. (NumRows - 1) /\ run.end \in 1 .. NumRows
      /\ run.start < run.end /\ run.arm \in BOOLEAN /\ (run.arm => run.start = 0)
  BY RunFacts, WatchAssumption, SessionAssumption DEF TypeOK
<1>1. UNCHANGED watchVars
  BY OtherStagesEffect DEF StartRun, Confirm, GiveUp, Interrupt
<1>2. WatchTypeOK' /\ NeverRunsMixture' /\ ArmedAfresh' /\ DecodedRowsHold'
  BY <1>1
  DEF TypeOK, WatchTypeOK, SessionOK, NeverRunsMixture, ArmedAfresh, DecodedRowsHold, Holds,
      watchVars
<1>3. ASSUME NEW r \in Runs, StartRun(r) PROVE TypeOK' /\ SessionOK'
  <2>1. r.start \in 0 .. NumRows /\ (r.arm => r.start = 0) /\ 0 < TestBlocks
    BY <1>0, RunFacts
  <2> QED
    BY <1>0, <1>2, <1>3, <2>1
    DEF TypeOK, StartRun, SessionOK, ToolOK, ExitTold, StreamInStep, NoDecoderLeft,
        RepeatIsWritten, SentRowsHold
<1>4. ASSUME NEW got \in BOOLEAN, TestFrame(got) PROVE TypeOK' /\ SessionOK'
  <2>1. cur' \in 0 .. NumRows /\ tries' \in 0 .. Retries
    BY <1>0, <1>4 DEF TestFrame, TypeOK, SessionOK, ToolOK
  <2>2. ToolOK'
    BY <1>0, <1>4 DEF TestFrame, TypeOK, SessionOK, ToolOK
  <2> QED
    BY <1>0, <1>2, <1>4, <2>1, <2>2
    DEF TypeOK, TestFrame, SessionOK, ExitTold, StreamInStep, NoDecoderLeft,
        RepeatIsWritten, SentRowsHold
<1>5. ASSUME NEW yes \in BOOLEAN, Confirm(yes) PROVE TypeOK' /\ SessionOK'
  <2>1. /\ pc = "confirm" /\ pc' \in {"enter", "stream", "idle"}
        /\ pc' = "enter" => run.arm
        /\ pc' = "stream" => ~run.arm
        /\ cur = run.start /\ cur' = cur /\ run' = run /\ tries' = tries /\ runs' = runs
    BY <1>0, <1>5 DEF Confirm, SessionOK, ToolOK
  <2>2. TypeOK'
    BY <1>0, <1>2, <2>1 DEF TypeOK
  <2>3. ToolOK' /\ ExitTold' /\ StreamInStep' /\ NoDecoderLeft' /\ RepeatIsWritten'
    BY <1>0, <2>1
    DEF ToolOK, ExitTold, StreamInStep, NoDecoderLeft, RepeatIsWritten, OwnStream
  <2>4. SentRowsHold'
    BY <1>0, <2>1 DEF SentRowsHold, FirstRepeats
  <2> QED
    BY <1>2, <2>2, <2>3, <2>4 DEF SessionOK
<1>6. CASE GiveUp \/ Interrupt
  BY <1>2, <1>6
  DEF TypeOK, GiveUp, Interrupt, SessionOK, ToolOK, ExitTold, StreamInStep, NoDecoderLeft,
      RepeatIsWritten, SentRowsHold
<1> QED
  BY <1>3, <1>4, <1>5, <1>6

\* And so does the user, who cannot leave the flasher.
LEMMA UserStep == ASSUME TypeOK, SessionOK, UserTest \/ UserLeave PROVE TypeOK' /\ SessionOK'
<1>1. /\ wstate \in {"launcher", "test"} /\ wstate' \in {"launcher", "test"}
      /\ UNCHANGED <<pc, run, cur, tries, runs, last, decoder, rebuilt, flash>>
  BY DEF UserTest, UserLeave, hostVars
<1>2. TypeOK'
  BY <1>1 DEF TypeOK, WatchTypeOK
<1> QED
  BY <1>1, <1>2
  DEF SessionOK, ToolOK, ArmedAfresh, NeverRunsMixture, ExitTold, StreamInStep, NoDecoderLeft,
      RepeatIsWritten, Repeat, OwnStream, SentRowsHold, FirstRepeats, DecodedRowsHold, Holds

\* Every step keeps the invariant.
LEMMA SessionStep == TypeOK /\ SessionOK /\ [Next]_vars => TypeOK' /\ SessionOK'
<1> SUFFICES ASSUME TypeOK, SessionOK, [Next]_vars PROVE TypeOK' /\ SessionOK'
  OBVIOUS
<1>1. CASE UNCHANGED vars
  BY <1>1
  DEF vars, hostVars, watchVars, TypeOK, WatchTypeOK, SessionOK, ToolOK, ArmedAfresh,
      NeverRunsMixture, ExitTold, StreamInStep, NoDecoderLeft, RepeatIsWritten, Repeat, OwnStream,
      SentRowsHold, FirstRepeats, DecodedRowsHold, Holds
<1>2. CASE Next
  BY <1>2, StreamStep, ExitStep, EnterStep, ResendStep, ToolStep, UserStep DEF Next
<1> QED
  BY <1>1, <1>2

-----------------------------------------------------------------------------
(* The theorems                                                            *)

\* The invariant holds throughout.
LEMMA SessionInvariant == Spec => [](TypeOK /\ SessionOK)
BY SessionInit, SessionStep, PTL DEF Spec

\* Types, and with them: the tool sends no block that is not one of its run.
THEOREM TypeCorrect == Spec => []TypeOK
BY SessionInvariant, PTL

\* Whatever was partial, resumed, interrupted, torn or lost, a watch that runs a
\* firmware runs one that is whole.
THEOREM NeverRunsMixtureAlways == Spec => []NeverRunsMixture
<1>1. SessionOK => NeverRunsMixture
  BY DEF SessionOK
<1> QED
  BY <1>1, SessionInvariant, PTL

\* "No EXIT ACK" tells the truth: parked, or rebooted into the new image.
THEOREM NoAckIsTold == Spec => []NoAckTold
<1>1. SessionOK => NoAckTold
  BY DEF SessionOK, ExitTold, NoAckTold, InFlasher
<1> QED
  BY <1>1, SessionInvariant, PTL

\* After its first ACK a pass is in step with the watch to its end.
THEOREM StreamStaysInStep == Spec => []StreamInStep
<1>1. SessionOK => StreamInStep
  BY DEF SessionOK
<1> QED
  BY <1>1, SessionInvariant, PTL

\* An ACK means a written row, and a decoder's rows are its image's.
THEOREM AckMeansWritten == Spec => []AckedRowsHold
<1>1. SessionOK => AckedRowsHold
  BY DEF SessionOK, SentRowsHold, DecodedRowsHold, AckedRowsHold
<1> QED
  BY <1>1, SessionInvariant, PTL

\* "done" is printed only when the watch leaves its flasher with the whole image.
THEOREM DoneMeansWhole == Spec => SuccessIsWhole
<1>1. TypeOK /\ [Next]_vars =>
        (pc # "done" /\ pc' = "done" => wstate' = "launcher" /\ Holds(run.img, Rows))
  <2> SUFFICES ASSUME TypeOK, Next, pc # "done", pc' = "done"
               PROVE  wstate' = "launcher" /\ Holds(run.img, Rows)
    BY DEF vars, hostVars
  <2>1. Exit(TRUE)
    BY DEF Next, StartRun, TestFrame, Confirm, Enter, Stream, Exit, Resend, GiveUp, Interrupt,
           UserTest, UserLeave, hostVars
  <2> QED
    BY <2>1, OtherStagesEffect
<1> QED
  BY <1>1, TypeCorrect, PTL DEF Spec, SuccessIsWhole

-----------------------------------------------------------------------------
(* The simulator's sessions: where one stands                              *)

\* How many frames of the session have been read; the rest is still queued.
Read == Len(Frames(Scenario)) - Len(rx)
RestQueued ==
    /\ Len(rx) <= Len(Frames(Scenario))
    /\ \A i \in 1 .. Len(rx) : rx[i] = Frames(Scenario)[Read + i]

\* In the rows of a full flash: j of them are written ...
Writing(j) ==
    /\ j \in 0 .. NumRows /\ InFlasher /\ (j > 0 => wstate = "flasher")
    /\ decoder = NoImage /\ last = j - 1
    /\ \A r \in 0 .. (j - 1) : flash[r] = New

\* ... in a good patch: c chunks are fed, and its rows are there when all are ...
Patching(c) ==
    /\ c \in 0 .. nframes /\ InFlasher /\ (c > 0 => wstate = "flasher")
    /\ decoder = New /\ last = c - 1 /\ (rebuilt = NumRows <=> c = nframes)
    /\ \A r \in Rows : flash[r] = IF r < rebuilt THEN New ELSE Ref

\* ... in one that a full flash takes over: all that matters is that its decoder is in charge ...
Parked == InFlasher /\ decoder # NoImage

\* ... in one whose rows fail: the decoder lives for Lead chunks at most ...
Failing ==
    /\ InFlasher /\ decoder \in {New, Dead} /\ rebuilt = 0
    /\ acks = last + 1 /\ last <= Lead /\ last < Read
    /\ decoder = New => last = Read - 1 /\ Read <= Lead

\* ... in one for another base: its decoder makes no row.
Gated == InFlasher /\ decoder \in {New, Dead} /\ rebuilt = 0

\* The chunks fed when p frames of the doubled body are read.
Fed(p) == IF p = 0 THEN 0 ELSE IF p \div 2 < nframes THEN p \div 2 + 1 ELSE nframes

\* The frames of a session that come before its full flash.
Before == CASE Scenario = "takeover" -> Cut [] Scenario = "corrupt" -> nframes [] OTHER -> 0

UnderWay ==
    /\ Scenario \in {"full", "recovery"} => Writing(Read)
    /\ Scenario = "clean" => Patching(Read)
    /\ Scenario = "dup" =>
          Read <= (IF nframes > 1 THEN 2 * nframes ELSE 1) /\ Patching(Fed(Read)) /\ acks = Read
    /\ Scenario \in {"takeover", "corrupt"} =>
          IF Read <= Before THEN Parked ELSE Writing(Read - Before)
    /\ Scenario = "wrongfmt" => Parked /\ acks <= (IF Read = 0 THEN 0 ELSE 1)
    /\ Scenario = "wfail" => Failing /\ Untouched
    /\ Scenario = "wrongbase" => Gated /\ Untouched

SimInv ==
    /\ RestQueued
    /\ Scenario = "wrongbase" => ultra
    /\ result = "none" => UnderWay
    /\ EndsAsDemanded

-----------------------------------------------------------------------------
(* The frames of a session                                                 *)

FrameRecord == [kind : {"block", "chunk", "exit", "other"}, id : Nat, img : {New, Garbage}]

\* The images of the simulator and the sizes of its bodies.
LEMMA SimNumbers ==
    /\ NumRows \in Nat \ {0} /\ BodySizes \subseteq Nat \ {0}
    /\ Ref \in Images /\ New \in Images /\ Ref # New
    /\ \A i \in Images : i # NoImage /\ i # Torn /\ i # Dead
BY WatchAssumption, SimAssumption

\* A full flash is NumRows blocks and the EXIT, however its first frame gets there.
LEMMA FullFlashFrames ==
    /\ FullFlash \in Seq(FrameRecord) /\ Len(FullFlash) = NumRows + 1
    /\ \A k \in 1 .. NumRows : FullFlash[k] = Frame("block", k - 1, New)
    /\ FullFlash[NumRows + 1] = ExitFrame
<1> DEFINE blocks == [i \in 1 .. NumRows |-> Frame("block", i - 1, New)]
<1>1. blocks \in Seq(FrameRecord) /\ Len(blocks) = NumRows
  <2>1. \A i \in 1 .. NumRows : Frame("block", i - 1, New) \in FrameRecord
    BY SimNumbers DEF Frame, FrameRecord
  <2> QED BY <2>1, SimNumbers
<1>2. <<ExitFrame>> \in Seq(FrameRecord) /\ Len(<<ExitFrame>>) = 1 /\ <<ExitFrame>>[1] = ExitFrame
  BY DEF ExitFrame, Frame, FrameRecord
<1>3. \A k \in 1 .. NumRows : blocks[k] = Frame("block", k - 1, New)
  OBVIOUS
<1>4. FullFlash = blocks \o <<ExitFrame>>
  BY DEF FullFlash
<1> HIDE DEF blocks
<1> QED BY <1>1, <1>2, <1>3, <1>4, SimNumbers

LEMMA FullFrames ==
    ASSUME NEW s \in {"full", "recovery"}
    PROVE  Frames(s) = FullFlash
<1>1. Frames(s) = <<Head(FullFlash)>> \o Tail(FullFlash)
  BY DEF Frames, HandedOff, Queue
<1>2. FullFlash \in Seq(FrameRecord) /\ FullFlash # <<>>
  BY FullFlashFrames, SimNumbers
<1> HIDE DEF FullFlash
<1> QED BY <1>1, <1>2

\* The chunks of a body.
LEMMA ChunksFrames ==
    ASSUME nframes \in Nat \ {0}, NEW kind \in {"chunk", "other"}, NEW end \in Nat \ {0},
           NEW bad \in BOOLEAN, NEW dups \in {0, 1}
    PROVE  /\ Chunks(kind, 1, end, bad, dups) \in Seq(FrameRecord)
           /\ Len(Chunks(kind, 1, end, bad, dups)) = (end - 1) * (dups + 1)
           /\ \A i \in 1 .. (end - 1) * (dups + 1) :
                 Chunks(kind, 1, end, bad, dups)[i] = Chunk(kind, 1 + (i - 1) \div (dups + 1), bad)
<1>1. (end - 1) * (dups + 1) \in Nat
  BY SimNumbers
<1>2. ASSUME NEW i \in 1 .. (end - 1) * (dups + 1)
      PROVE  Chunk(kind, 1 + (i - 1) \div (dups + 1), bad) \in FrameRecord
  <2>1. 1 + (i - 1) \div (dups + 1) \in Nat
    <3>1. CASE dups = 0 BY <1>1, <3>1
    <3>2. CASE dups = 1 BY <1>1, <3>2
    <3> QED BY <3>1, <3>2
  <2> QED BY <2>1 DEF Chunk, Frame, FrameRecord
<1> QED BY <1>1, <1>2 DEF Chunks

LEMMA SingleChunks ==
    ASSUME nframes \in Nat \ {0}, NEW kind \in {"chunk", "other"}, NEW end \in Nat \ {0},
           NEW bad \in BOOLEAN
    PROVE  /\ Chunks(kind, 1, end, bad, 0) \in Seq(FrameRecord)
           /\ Len(Chunks(kind, 1, end, bad, 0)) = end - 1
           /\ \A i \in 1 .. end - 1 : Chunks(kind, 1, end, bad, 0)[i] = Chunk(kind, i, bad)
<1>1. /\ Chunks(kind, 1, end, bad, 0) \in Seq(FrameRecord)
      /\ Len(Chunks(kind, 1, end, bad, 0)) = (end - 1) * (0 + 1)
      /\ \A i \in 1 .. (end - 1) * (0 + 1) :
            Chunks(kind, 1, end, bad, 0)[i] = Chunk(kind, 1 + (i - 1) \div (0 + 1), bad)
  BY ChunksFrames
<1>2. (end - 1) * (0 + 1) = end - 1
  OBVIOUS
<1>3. \A i \in 1 .. end - 1 : 1 + (i - 1) \div (0 + 1) = i
  OBVIOUS
<1> QED BY <1>1, <1>2, <1>3

\* A session's frames f: the first one, then a body of m, then how it ends, in n.
Parts(f, a, b, c, m, n) ==
    /\ f \in Seq(FrameRecord) /\ Len(f) = 1 + m + n /\ f[1] = a
    /\ \A k \in 1 .. m : f[1 + k] = b[k]
    /\ \A k \in 1 .. n : f[1 + m + k] = c[k]

LEMMA ThreeParts ==
    ASSUME NEW a \in FrameRecord, NEW b \in Seq(FrameRecord), NEW c \in Seq(FrameRecord),
           NEW m \in Nat, NEW n \in Nat, Len(b) = m, Len(c) = n
    PROVE  Parts(<<a>> \o (b \o c), a, b, c, m, n)
<1> DEFINE bc == b \o c
           one == <<a>>
           abc == one \o bc
<1>0. Len(b) \in Nat /\ Len(c) \in Nat
  OBVIOUS
<1>1. /\ bc \in Seq(FrameRecord) /\ Len(bc) = Len(b) + Len(c)
      /\ \A i \in 1 .. Len(b) + Len(c) : bc[i] = IF i <= Len(b) THEN b[i] ELSE c[i - Len(b)]
  BY ConcatProperties
<1>2. one \in Seq(FrameRecord) /\ Len(one) = 1 /\ one[1] = a
  OBVIOUS
<1>3. /\ abc \in Seq(FrameRecord) /\ Len(abc) = 1 + Len(bc)
      /\ \A i \in 1 .. 1 + Len(bc) : abc[i] = IF i <= 1 THEN one[i] ELSE bc[i - 1]
  <2> HIDE DEF bc, one
  <2>0. bc \in Seq(FrameRecord) /\ one \in Seq(FrameRecord)
    BY <1>1, <1>2
  <2>1. /\ abc \in Seq(FrameRecord) /\ Len(abc) = Len(one) + Len(bc)
        /\ \A i \in 1 .. Len(one) + Len(bc) : abc[i] = IF i <= Len(one) THEN one[i] ELSE bc[i - Len(one)]
    BY ONLY <2>0, ConcatProperties
  <2> QED BY <1>2, <2>1
<1> SUFFICES Parts(abc, a, b, c, Len(b), Len(c))
  OBVIOUS
<1> HIDE DEF abc, bc, one
<1>4. abc[1] = a
  BY <1>0, <1>1, <1>2, <1>3
<1>5. ASSUME NEW k \in 1 .. Len(b) PROVE abc[1 + k] = b[k]
  <2>0. 1 + k \in 1 .. 1 + Len(bc) /\ ~(1 + k <= 1) /\ (1 + k) - 1 = k /\ k \in 1 .. Len(b) + Len(c) /\ k <= Len(b)
    BY <1>0, <1>1
  <2>1. abc[1 + k] = bc[k]
    BY <1>3, <2>0
  <2> QED BY <1>1, <2>0, <2>1
<1>6. ASSUME NEW k \in 1 .. Len(c) PROVE abc[1 + Len(b) + k] = c[k]
  <2> DEFINE j == Len(b) + k
  <2>0. /\ 1 + j \in 1 .. 1 + Len(bc) /\ ~(1 + j <= 1) /\ (1 + j) - 1 = j
        /\ j \in 1 .. Len(b) + Len(c) /\ ~(j <= Len(b)) /\ j - Len(b) = k
        /\ 1 + Len(b) + k = 1 + j
    BY <1>0, <1>1
  <2> HIDE DEF j
  <2>1. abc[1 + j] = bc[j]
    BY <1>3, <2>0
  <2> QED BY <1>1, <2>0, <2>1
<1> QED BY <1>0, <1>1, <1>3, <1>4, <1>5, <1>6 DEF Parts

LEMMA FirstChunk ==
    ASSUME nframes \in Nat \ {0}, NEW bad \in BOOLEAN
    PROVE  Chunk("chunk", 0, bad) \in FrameRecord
BY DEF Chunk, Frame, FrameRecord

LEMMA ExitAlone ==
    <<ExitFrame>> \in Seq(FrameRecord) /\ Len(<<ExitFrame>>) = 1 /\ <<ExitFrame>>[1] = ExitFrame
BY DEF ExitFrame, Frame, FrameRecord

\* The frames of a patch session: the chunks, then the EXIT, a full flash or nothing.
LEMMA CleanFrames ==
    ASSUME nframes \in BodySizes
    PROVE  /\ Frames("clean") \in Seq(FrameRecord) /\ Len(Frames("clean")) = nframes + 1
           /\ \A k \in 1 .. nframes : Frames("clean")[k] = Frame("chunk", k - 1, New)
           /\ Frames("clean")[nframes + 1] = ExitFrame
<1> DEFINE body == Chunks("chunk", 1, nframes, FALSE, 0)
           first == Chunk("chunk", 0, FALSE)
           exit == <<ExitFrame>>
<1>0. nframes \in Nat \ {0}
  BY SimNumbers
<1>1. /\ body \in Seq(FrameRecord) /\ Len(body) = nframes - 1
      /\ \A i \in 1 .. nframes - 1 : body[i] = Chunk("chunk", i, FALSE)
  BY <1>0, SingleChunks
<1>2. Frames("clean") = <<first>> \o (body \o exit)
  BY DEF Frames, Queue, HandedOff, BodyFrames
<1>3. exit \in Seq(FrameRecord) /\ Len(exit) = 1 /\ exit[1] = ExitFrame
  BY ExitAlone
<1>4. first \in FrameRecord
  BY <1>0, FirstChunk
<1>5. first = Frame("chunk", 0, New) /\ \A i \in 1 .. nframes - 1 : Chunk("chunk", i, FALSE) = Frame("chunk", i, New)
  BY DEF Chunk
<1> HIDE DEF first, body, exit
<1>6. Parts(Frames("clean"), first, body, exit, nframes - 1, 1)
  BY <1>0, <1>1, <1>2, <1>3, <1>4, nframes - 1 \in Nat, ThreeParts
<1>7. Frames("clean")[nframes + 1] = ExitFrame
  BY <1>0, <1>3, <1>6 DEF Parts
<1>8. ASSUME NEW k \in 1 .. nframes PROVE Frames("clean")[k] = Frame("chunk", k - 1, New)
  <2>1. CASE k = 1
    BY <1>5, <1>6, <2>1 DEF Parts
  <2>2. CASE k # 1
    <3>1. k - 1 \in 1 .. nframes - 1 /\ 1 + (k - 1) = k
      BY <1>0, <2>2
    <3>2. Frames("clean")[k] = body[k - 1]
      BY <1>6, <3>1 DEF Parts
    <3> QED BY <1>1, <1>5, <3>1, <3>2
  <2> QED BY <2>1, <2>2
<1> QED BY <1>0, <1>6, <1>7, <1>8 DEF Parts

\* Each chunk is sent twice, and the last one once more.
LEMMA DupFrames ==
    ASSUME nframes \in BodySizes
    PROVE  /\ Frames("dup") \in Seq(FrameRecord)
           /\ Len(Frames("dup")) = (IF nframes > 1 THEN 2 * nframes ELSE 1) + 1
           /\ \A k \in 1 .. (IF nframes > 1 THEN 2 * nframes ELSE 1) :
                 Frames("dup")[k] = Frame("chunk", Fed(k) - 1, New)
           /\ Frames("dup")[(IF nframes > 1 THEN 2 * nframes ELSE 1) + 1] = ExitFrame
<1> DEFINE body == Chunks("chunk", 1, nframes, FALSE, 1)
           again == FinalAgain
           first == Chunk("chunk", 0, FALSE)
           exit == <<ExitFrame>>
           twice == 2 * (nframes - 1)
           more == IF nframes > 1 THEN 1 ELSE 0
           all == IF nframes > 1 THEN 2 * nframes ELSE 1
<1>0. nframes \in Nat \ {0}
  BY SimNumbers
<1>1. /\ body \in Seq(FrameRecord) /\ Len(body) = twice
      /\ \A i \in 1 .. twice : body[i] = Frame("chunk", 1 + (i - 1) \div 2, New)
  <2>1. /\ body \in Seq(FrameRecord) /\ Len(body) = (nframes - 1) * (1 + 1)
        /\ \A i \in 1 .. (nframes - 1) * (1 + 1) : body[i] = Chunk("chunk", 1 + (i - 1) \div (1 + 1), FALSE)
    BY <1>0, ChunksFrames
  <2>2. (nframes - 1) * (1 + 1) = twice /\ 1 + 1 = 2
    BY <1>0
  <2> QED BY <2>1, <2>2 DEF Chunk
<1>2. /\ again \in Seq(FrameRecord) /\ Len(again) = more
      /\ \A i \in 1 .. more : again[i] = Frame("chunk", nframes - 1, New)
  <2>1. CASE nframes > 1
    <3>1. again = <<Frame("chunk", nframes - 1, New)>> /\ more = 1
      BY <2>1 DEF FinalAgain, Chunk
    <3>2. Frame("chunk", nframes - 1, New) \in FrameRecord
      BY <1>0 DEF Frame, FrameRecord
    <3> HIDE DEF again, more
    <3> QED BY <3>1, <3>2
  <2>2. CASE ~(nframes > 1)
    <3>1. again = <<>> /\ more = 0
      BY <2>2 DEF FinalAgain
    <3> HIDE DEF again, more
    <3> QED BY <3>1
  <2> QED BY <2>1, <2>2
<1>3. exit \in Seq(FrameRecord) /\ Len(exit) = 1 /\ exit[1] = ExitFrame
  BY ExitAlone
<1>4. first \in FrameRecord /\ first = Frame("chunk", 0, New)
  BY <1>0, FirstChunk DEF Chunk
<1>5. Frames("dup") = <<first>> \o ((body \o again) \o exit)
  BY DEF Frames, Queue, HandedOff, BodyFrames
<1>6. twice \in Nat /\ more \in Nat /\ twice + more \in Nat /\ all \in Nat /\ all = 1 + twice + more
      /\ (more = 0 => twice = 0) /\ twice = 2 * nframes - 2
  BY <1>0
<1> HIDE DEF first, body, again, exit
<1>7. /\ body \o again \in Seq(FrameRecord) /\ Len(body \o again) = twice + more
      /\ \A i \in 1 .. twice + more : (body \o again)[i] = IF i <= twice THEN body[i] ELSE again[i - twice]
  <2> HIDE DEF twice, more
  <2>1. body \in Seq(FrameRecord) /\ again \in Seq(FrameRecord)
    BY <1>1, <1>2
  <2>2. /\ body \o again \in Seq(FrameRecord) /\ Len(body \o again) = Len(body) + Len(again)
        /\ \A i \in 1 .. Len(body) + Len(again) :
              (body \o again)[i] = IF i <= Len(body) THEN body[i] ELSE again[i - Len(body)]
    BY ONLY <2>1, ConcatProperties
  <2> QED BY <1>1, <1>2, <2>2
<1>8. Parts(Frames("dup"), first, body \o again, exit, twice + more, 1)
  <2> HIDE DEF twice, more
  <2> QED BY <1>3, <1>4, <1>5, <1>6, <1>7, ThreeParts
<1>9. /\ Frames("dup") \in Seq(FrameRecord) /\ Len(Frames("dup")) = all + 1
      /\ Frames("dup")[all + 1] = ExitFrame
  <2> HIDE DEF twice, more, all
  <2>1. /\ Frames("dup") \in Seq(FrameRecord) /\ Len(Frames("dup")) = 1 + (twice + more) + 1
        /\ Frames("dup")[1 + (twice + more) + 1] = exit[1]
    BY <1>8 DEF Parts
  <2> QED BY <1>3, <1>6, <2>1
<1>10. ASSUME NEW k \in 1 .. all PROVE Frames("dup")[k] = Frame("chunk", Fed(k) - 1, New)
  <2>1. CASE k = 1
    <3>1. Fed(k) - 1 = 0
      BY <1>0, <2>1 DEF Fed
    <3> QED BY <1>4, <1>8, <2>1, <3>1 DEF Parts
  <2>2. CASE k # 1
    <3> DEFINE i == k - 1
    <3>1. i \in 1 .. twice + more /\ 1 + i = k /\ i <= 2 * nframes - 1 /\ nframes > 1
      BY <1>0, <1>6, <2>2
    <3>2. Frames("dup")[k] = (body \o again)[i]
      <4> HIDE DEF i, twice, more
      <4> QED BY <1>8, <3>1 DEF Parts
    <3>3. CASE i <= twice
      <4>1. Frames("dup")[k] = Frame("chunk", 1 + (i - 1) \div 2, New)
        <5> HIDE DEF twice, more, i
        <5>1. i \in 1 .. twice
          BY <1>6, <3>1, <3>3
        <5> QED BY <1>1, <1>7, <3>1, <3>2, <3>3, <5>1
      <4>2. k \div 2 < nframes /\ k # 0 /\ 1 + (i - 1) \div 2 = k \div 2 /\ k \div 2 \in Nat
        BY <1>0, <1>6, <2>2, <3>1, <3>3
      <4>3. Fed(k) - 1 = k \div 2
        <5> HIDE DEF i, twice, more
        <5>1. Fed(k) = k \div 2 + 1
          BY <4>2 DEF Fed
        <5> QED BY <4>2, <5>1
      <4> QED BY <4>1, <4>2, <4>3
    <3>4. CASE ~(i <= twice)
      <4>1. i - twice = 1 /\ more = 1 /\ k = 2 * nframes
        BY <1>0, <1>6, <3>1, <3>4
      <4>2. Frames("dup")[k] = Frame("chunk", nframes - 1, New)
        <5> HIDE DEF twice, more, i
        <5> QED BY <1>2, <1>7, <3>1, <3>2, <3>4, <4>1
      <4>3. ~(k \div 2 < nframes) /\ k # 0
        BY <1>0, <4>1
      <4>4. Fed(k) = nframes
        BY <4>3 DEF Fed
      <4> QED BY <4>2, <4>4
    <3> QED BY <3>3, <3>4
  <2> QED BY <2>1, <2>2
<1> QED BY <1>9, <1>10

\* A body that a full flash follows.
TakenOver(f, end) ==
    /\ f \in Seq(FrameRecord) /\ Len(f) = end + NumRows + 1
    /\ \A k \in 1 .. end : f[k].kind = "chunk"
    /\ \A k \in 1 .. NumRows : f[end + k] = Frame("block", k - 1, New)
    /\ f[end + NumRows + 1] = ExitFrame

LEMMA TakenOverFrames ==
    ASSUME nframes \in Nat \ {0}, NEW end \in Nat \ {0}, NEW bad \in BOOLEAN
    PROVE  TakenOver(<<Chunk("chunk", 0, bad)>> \o (Chunks("chunk", 1, end, bad, 0) \o FullFlash), end)
<1> DEFINE body == Chunks("chunk", 1, end, bad, 0)
           first == Chunk("chunk", 0, bad)
           f == <<first>> \o (body \o FullFlash)
<1>1. /\ body \in Seq(FrameRecord) /\ Len(body) = end - 1
      /\ \A i \in 1 .. end - 1 : body[i] = Chunk("chunk", i, bad)
  BY SingleChunks
<1>2. first \in FrameRecord /\ first.kind = "chunk" /\ \A i \in Nat : Chunk("chunk", i, bad).kind = "chunk"
  BY FirstChunk DEF Chunk, Frame
<1>3. /\ FullFlash \in Seq(FrameRecord) /\ Len(FullFlash) = NumRows + 1
      /\ \A k \in 1 .. NumRows : FullFlash[k] = Frame("block", k - 1, New)
      /\ FullFlash[NumRows + 1] = ExitFrame
  BY FullFlashFrames
<1>4. end - 1 \in Nat /\ NumRows + 1 \in Nat /\ NumRows \in Nat
  BY SimNumbers
<1> HIDE DEF first, body
<1>5. Parts(f, first, body, FullFlash, end - 1, NumRows + 1)
  BY <1>1, <1>2, <1>3, <1>4, ThreeParts
<1> SUFFICES TakenOver(f, end)
  BY DEF first, body
<1> HIDE DEF f
<1>6. f \in Seq(FrameRecord) /\ Len(f) = end + NumRows + 1
  BY <1>4, <1>5 DEF Parts
<1>7. ASSUME NEW k \in 1 .. NumRows + 1 PROVE f[end + k] = FullFlash[k]
  <2>1. 1 + (end - 1) + k = end + k
    BY <1>4
  <2> QED BY <1>5, <2>1 DEF Parts
<1>8. ASSUME NEW k \in 1 .. end PROVE f[k].kind = "chunk"
  <2>1. CASE k = 1
    BY <1>2, <1>5, <2>1 DEF Parts
  <2>2. CASE k # 1
    <3>1. k - 1 \in 1 .. end - 1 /\ 1 + (k - 1) = k /\ k - 1 \in Nat
      BY <2>2
    <3>2. f[k] = body[k - 1]
      BY <1>5, <3>1 DEF Parts
    <3> QED BY <1>1, <1>2, <3>1, <3>2
  <2> QED BY <2>1, <2>2
<1>9. ASSUME NEW k \in 1 .. NumRows PROVE f[end + k] = Frame("block", k - 1, New)
  <2>1. k \in 1 .. NumRows + 1
    BY <1>4
  <2> QED BY <1>3, <1>7, <2>1
<1>10. f[end + NumRows + 1] = ExitFrame
  <2>1. NumRows + 1 \in 1 .. NumRows + 1 /\ end + (NumRows + 1) = end + NumRows + 1
    BY <1>4
  <2> QED BY <1>3, <1>7, <2>1
<1> QED BY <1>6, <1>8, <1>9, <1>10 DEF TakenOver

\* A body that nothing follows, of this dialect or of the other one.
OnlyBody(f, kind) ==
    /\ f \in Seq(FrameRecord) /\ Len(f) = nframes
    /\ f[1] = Frame("chunk", 0, New)
    /\ \A k \in 2 .. nframes : f[k] = Frame(kind, k - 1, New)

LEMMA OnlyBodyFrames ==
    ASSUME nframes \in Nat \ {0}, NEW kind \in {"chunk", "other"}
    PROVE  OnlyBody(<<Chunk("chunk", 0, FALSE)>> \o Chunks(kind, 1, nframes, FALSE, 0), kind)
<1> DEFINE body == Chunks(kind, 1, nframes, FALSE, 0)
           first == Chunk("chunk", 0, FALSE)
           f == <<first>> \o body
           none == <<>>
<1>1. /\ body \in Seq(FrameRecord) /\ Len(body) = nframes - 1
      /\ \A i \in 1 .. nframes - 1 : body[i] = Chunk(kind, i, FALSE)
  BY SingleChunks
<1>2. \A i \in Nat : Chunk(kind, i, FALSE) = Frame(kind, i, New)
  BY DEF Chunk
<1>3. first \in FrameRecord /\ first = Frame("chunk", 0, New)
  BY FirstChunk DEF Chunk
<1>4. none \in Seq(FrameRecord) /\ Len(none) = 0
  OBVIOUS
<1> HIDE DEF first, body
<1>5. f = <<first>> \o (body \o none)
  BY <1>1
<1>6. nframes - 1 \in Nat /\ 0 \in Nat
  OBVIOUS
<1> HIDE DEF none
<1>7. Parts(f, first, body, none, nframes - 1, 0)
  <2> HIDE DEF f
  <2> QED BY <1>1, <1>3, <1>4, <1>5, <1>6, ThreeParts
<1> SUFFICES OnlyBody(f, kind)
  BY DEF first, body
<1> HIDE DEF f
<1>8. ASSUME NEW k \in 2 .. nframes PROVE f[k] = Frame(kind, k - 1, New)
  <2>1. k - 1 \in 1 .. nframes - 1 /\ 1 + (k - 1) = k /\ k - 1 \in Nat
    OBVIOUS
  <2>2. f[k] = body[k - 1]
    BY <1>7, <2>1 DEF Parts
  <2> QED BY <1>1, <1>2, <2>1, <2>2
<1>9. f \in Seq(FrameRecord) /\ Len(f) = nframes /\ f[1] = Frame("chunk", 0, New)
  BY <1>3, <1>7 DEF Parts
<1> QED BY <1>8, <1>9 DEF OnlyBody

\* What each session of main is.
Names == {"full", "clean", "dup", "takeover", "corrupt", "wrongfmt", "wfail", "recovery", "wrongbase"}

LEMMA SessionFrames ==
    ASSUME nframes \in BodySizes
    PROVE  /\ OnlyBody(Frames("wrongfmt"), "other")
           /\ OnlyBody(Frames("wfail"), "chunk") /\ OnlyBody(Frames("wrongbase"), "chunk")
           /\ TakenOver(Frames("takeover"), Cut) /\ TakenOver(Frames("corrupt"), nframes)
           /\ Cut \in Nat \ {0}
<1>1. nframes \in Nat \ {0} /\ Cut \in Nat \ {0}
  BY SimNumbers DEF Cut
<1>2. /\ Frames("wrongfmt") = <<Chunk("chunk", 0, FALSE)>> \o Chunks("other", 1, nframes, FALSE, 0)
      /\ Frames("wfail") = <<Chunk("chunk", 0, FALSE)>> \o Chunks("chunk", 1, nframes, FALSE, 0)
      /\ Frames("wrongbase") = <<Chunk("chunk", 0, FALSE)>> \o Chunks("chunk", 1, nframes, FALSE, 0)
  BY DEF Frames, Queue, HandedOff, BodyFrames
<1>3. /\ Frames("takeover") = <<Chunk("chunk", 0, FALSE)>> \o (Chunks("chunk", 1, Cut, FALSE, 0) \o FullFlash)
      /\ Frames("corrupt") = <<Chunk("chunk", 0, TRUE)>> \o (Chunks("chunk", 1, nframes, TRUE, 0) \o FullFlash)
  BY DEF Frames, Queue, HandedOff, BodyFrames
<1>4. OnlyBody(Frames("wrongfmt"), "other")
  BY <1>1, <1>2, OnlyBodyFrames
<1>5. OnlyBody(Frames("wfail"), "chunk") /\ OnlyBody(Frames("wrongbase"), "chunk")
  BY <1>1, <1>2, OnlyBodyFrames
<1>6. TakenOver(Frames("takeover"), Cut)
  BY <1>1, <1>3, TakenOverFrames
<1>7. TakenOver(Frames("corrupt"), nframes)
  BY <1>1, <1>3, TakenOverFrames
<1> QED BY <1>1, <1>4, <1>5, <1>6, <1>7

LEMMA FramesType ==
    ASSUME nframes \in BodySizes, NEW s \in Names
    PROVE  Frames(s) \in Seq(FrameRecord) /\ Frames(s) # <<>>
<1>1. CASE s \in {"full", "recovery"}
  BY <1>1, FullFrames, FullFlashFrames, SimNumbers
<1>2. CASE s = "clean"
  <2>1. Frames("clean") \in Seq(FrameRecord) /\ Len(Frames("clean")) # 0
    BY CleanFrames, SimNumbers
  <2> QED BY <1>2, <2>1
<1>3. CASE s = "dup"
  <2>1. Frames("dup") \in Seq(FrameRecord) /\ Len(Frames("dup")) # 0
    BY DupFrames, SimNumbers
  <2> QED BY <1>3, <2>1
<1>4. CASE s \in {"takeover", "corrupt"}
  <2>1. TakenOver(Frames(s), IF s = "takeover" THEN Cut ELSE nframes)
    BY <1>4, SessionFrames
  <2>2. (IF s = "takeover" THEN Cut ELSE nframes) \in Nat /\ NumRows \in Nat
    BY SessionFrames, SimNumbers
  <2>3. Frames(s) \in Seq(FrameRecord) /\ Len(Frames(s)) # 0
    BY <2>1, <2>2 DEF TakenOver
  <2> QED BY <2>3
<1>5. CASE s \in {"wrongfmt", "wfail", "wrongbase"}
  <2>1. OnlyBody(Frames(s), IF s = "wrongfmt" THEN "other" ELSE "chunk")
    BY <1>5, SessionFrames
  <2>2. Frames(s) \in Seq(FrameRecord) /\ Len(Frames(s)) # 0
    BY <2>1, SimNumbers DEF OnlyBody
  <2> QED BY <2>2
<1> QED BY <1>1, <1>2, <1>3, <1>4, <1>5 DEF Names

LEMMA ScenarioNames ==
    ASSUME ultra \in BOOLEAN
    PROVE  /\ Scenarios \in Seq(Names) /\ Scenarios # <<>> /\ Scenarios[1] = "full"
           /\ \A i \in DOMAIN Scenarios : Scenarios[i] = "wrongbase" => ultra
<1> DEFINE always == <<"full", "clean", "dup", "takeover", "corrupt", "wrongfmt", "wfail", "recovery">>
           gated == IF ultra THEN <<"wrongbase">> ELSE <<>>
<1>1. /\ always \in Seq(Names) /\ Len(always) = 8 /\ always[1] = "full"
      /\ \A i \in 1 .. 8 : always[i] # "wrongbase"
  BY DEF Names
<1>2. gated \in Seq(Names) /\ (Len(gated) # 0 => ultra)
  <2>1. CASE ultra
    <3>1. gated = <<"wrongbase">> /\ "wrongbase" \in Names
      BY <2>1 DEF Names
    <3> HIDE DEF gated
    <3> QED BY <2>1, <3>1
  <2>2. CASE ~ultra
    <3>1. gated = <<>>
      BY <2>2
    <3> HIDE DEF gated
    <3> QED BY <3>1
  <2> QED BY <2>1, <2>2
<1>3. Scenarios = always \o gated
  BY DEF Scenarios
<1> HIDE DEF always, gated
<1>4. always \in Seq(Names) /\ gated \in Seq(Names)
  BY <1>1, <1>2
<1>5. /\ always \o gated \in Seq(Names) /\ Len(always \o gated) = Len(always) + Len(gated)
      /\ \A i \in 1 .. Len(always) + Len(gated) :
            (always \o gated)[i] = IF i <= Len(always) THEN always[i] ELSE gated[i - Len(always)]
  BY ONLY <1>4, ConcatProperties
<1>6. Len(gated) \in Nat
  BY <1>4
<1>7. ASSUME NEW i \in DOMAIN Scenarios, Scenarios[i] = "wrongbase" PROVE ultra
  <2>1. i \in 1 .. 8 + Len(gated)
    BY <1>1, <1>3, <1>5, <1>7
  <2>2. CASE i <= 8
    BY <1>1, <1>3, <1>5, <1>6, <1>7, <2>1, <2>2
  <2>3. CASE ~(i <= 8)
    BY <1>2, <1>6, <2>1, <2>3
  <2> QED BY <2>2, <2>3
<1>8. Scenarios[1] = "full" /\ Scenarios # <<>>
  BY <1>1, <1>3, <1>5, <1>6
<1> QED BY <1>3, <1>5, <1>7, <1>8

-----------------------------------------------------------------------------
(* What the watch makes of a frame of the simulator                        *)

\* Whatever the frame, the watch stays one; a decoder takes no row back.
LEMMA ChunkTypes ==
    ASSUME WatchTypeOK, NEW id \in Nat, NEW i \in Images \cup {Torn}, NEW final \in BOOLEAN,
           NEW gate \in BOOLEAN, NEW wrote \in BOOLEAN, NEW ack \in BOOLEAN,
           OnChunk(id, i, final, gate, wrote, ack)
    PROVE  WatchTypeOK' /\ rebuilt' >= rebuilt
<1>1. CASE UNCHANGED watchVars
  <2>1. rebuilt \in Int
    BY WatchAssumption DEF WatchTypeOK
  <2> QED BY <1>1, <2>1 DEF watchVars, WatchTypeOK
<1>2. ASSUME last' = id, wstate' = "flasher", Decode(id, i, final, gate, wrote) PROVE WatchTypeOK' /\ rebuilt' >= rebuilt
  <2> DEFINE content == IF i = decoder THEN i ELSE Torn
  <2>0. content \in Images \cup {Torn} /\ rebuilt \in 0 .. NumRows /\ NumRows \in Nat
    BY WatchAssumption DEF WatchTypeOK
  <2>1. ASSUME NEW n \in Pace(id, final), rebuilt' = n, decoder' = content,
               flash' = [r \in Rows |-> IF r \in rebuilt .. (n - 1) THEN content ELSE flash[r]]
        PROVE  WatchTypeOK' /\ rebuilt' >= rebuilt
    <3>1. n \in rebuilt .. NumRows
      BY <2>1 DEF Pace
    <3>2. flash' \in [Rows -> Images \cup {Torn}]
      BY <2>0, <2>1 DEF WatchTypeOK
    <3> QED BY <1>2, <2>0, <2>1, <3>1, <3>2 DEF WatchTypeOK
  <2>2. ASSUME decoder' = Dead, UNCHANGED rebuilt,
               IF gate /\ ~wrote THEN WriteRow(rebuilt, content, FALSE) ELSE UNCHANGED flash
        PROVE  WatchTypeOK' /\ rebuilt' >= rebuilt
    <3>1. flash' \in [Rows -> Images \cup {Torn}]
      <4>1. CASE gate /\ ~wrote
        <5>1. rebuilt \in Int
          BY <2>0
        <5>2. WriteRow(rebuilt, content, FALSE)
          BY <2>2, <4>1
        <5> QED BY <2>0, <5>1, <5>2, WriteRowEffect
      <4>2. CASE ~(gate /\ ~wrote)
        BY <2>2, <4>2 DEF WatchTypeOK
      <4> QED BY <4>1, <4>2
    <3> QED BY <1>2, <2>0, <2>2, <3>1 DEF WatchTypeOK
  <2> QED BY <1>2, <2>1, <2>2 DEF Decode
<1> QED BY <1>1, <1>2 DEF OnChunk

LEMMA BlockTypes ==
    ASSUME WatchTypeOK, NEW id \in Nat, NEW i \in Images \cup {Torn}, NEW wrote \in BOOLEAN,
           NEW ack \in BOOLEAN, OnBlock(id, i, wrote, ack)
    PROVE  WatchTypeOK'
<1>1. CASE UNCHANGED watchVars
  BY <1>1 DEF watchVars, WatchTypeOK
<1>2. ASSUME WriteRow(id, i, wrote), last' = (IF wrote THEN id ELSE last),
             wstate' = "flasher", decoder' = NoImage, rebuilt' = 0
      PROVE  WatchTypeOK'
  <2>1. flash' \in [Rows -> Images \cup {Torn}]
    BY <1>2, id \in Int, WriteRowEffect
  <2>2. rebuilt' \in 0 .. NumRows
    BY <1>2, WatchAssumption
  <2> QED BY <1>2, <2>1, <2>2 DEF WatchTypeOK
<1> QED BY <1>1, <1>2 DEF OnBlock

\* The next row of a full flash, or the first one over whatever decoder, is written and answered.
LEMMA RowWritten ==
    ASSUME WatchTypeOK, NEW j \in Rows, Writing(j) \/ (j = 0 /\ Parked), NEW ack \in BOOLEAN,
           OnBlock(j, New, TRUE, ack)
    PROVE  ack /\ Writing(j + 1)'
<1>0. NumRows \in Nat \ {0} /\ j \in 0 .. NumRows - 1
  BY SimNumbers DEF Rows
<1>1. ~(Repeat(j) /\ decoder = NoImage)
  BY <1>0 DEF Writing, Parked, Repeat
<1>2. InFlasher /\ (TakesOver(j) \/ (decoder = NoImage /\ j = last + 1))
  BY <1>0 DEF Writing, Parked, TakesOver
<1>3. ~(InFlasher => ~TakesOver(j) /\ (decoder # NoImage \/ j \notin {last, last + 1}))
  BY <1>2
<1>4. /\ ack = TRUE /\ WriteRow(j, New, TRUE) /\ last' = j
      /\ wstate' = "flasher" /\ decoder' = NoImage /\ rebuilt' = 0
  BY <1>1, <1>3 DEF OnBlock
<1>5. flash' = [flash EXCEPT ![j] = New]
  BY <1>4 DEF WriteRow
<1>6. ASSUME NEW r \in 0 .. j PROVE flash'[r] = New
  <2>1. r \in Rows
    BY <1>0 DEF Rows
  <2>2. CASE r = j
    BY <1>5, <2>1, <2>2 DEF WatchTypeOK
  <2>3. CASE r # j
    <3>1. r \in 0 .. (j - 1) /\ j # 0
      BY <1>0, <2>3
    <3>2. flash[r] = New
      BY <3>1 DEF Writing
    <3> QED BY <1>5, <2>1, <2>3, <3>2 DEF WatchTypeOK
  <2> QED BY <2>2, <2>3
<1> QED BY <1>0, <1>4, <1>6 DEF Writing, InFlasher

\* The next chunk of a good patch is fed and answered.
LEMMA ChunkFed ==
    ASSUME WatchTypeOK, nframes \in Nat, NEW c \in Nat, c < nframes, Patching(c), NEW final, final = (c = nframes - 1),
           NEW ack \in BOOLEAN, OnChunk(c, New, final, TRUE, TRUE, ack), nframes' = nframes
    PROVE  ack /\ Patching(c + 1)'
<1>0. NumRows \in Nat \ {0} /\ New \notin {NoImage, Torn, Dead} /\ rebuilt \in 0 .. NumRows /\ rebuilt # NumRows
  BY SimNumbers DEF Patching, WatchTypeOK
<1>1. ~Repeat(c) /\ c = last + 1 /\ InFlasher /\ decoder = New
  BY DEF Patching, Repeat
<1>2. ~(InFlasher /\ decoder # NoImage => ~Repeat(c) /\ (c = last + 1 => decoder = Dead \/ rebuilt = NumRows))
  BY <1>0, <1>1
<1>3. ack /\ last' = c /\ wstate' = "flasher" /\ Decode(c, New, final, TRUE, TRUE)
  BY <1>1, <1>2 DEF OnChunk
<1>4. PICK n \in Pace(c, final) :
        /\ rebuilt' = n /\ decoder' = New
        /\ flash' = [r \in Rows |-> IF r \in rebuilt .. (n - 1) THEN New ELSE flash[r]]
  BY <1>0, <1>1, <1>3 DEF Decode
<1>5. n \in rebuilt .. NumRows /\ (final <=> n = NumRows)
  BY <1>4 DEF Pace
<1>6. ASSUME NEW r \in Rows PROVE flash'[r] = IF r < n THEN New ELSE Ref
  <2>1. flash[r] = IF r < rebuilt THEN New ELSE Ref
    BY DEF Patching
  <2>2. flash'[r] = IF r \in rebuilt .. (n - 1) THEN New ELSE flash[r]
    BY <1>4
  <2>3. r \in rebuilt .. (n - 1) <=> r < n /\ ~(r < rebuilt)
    BY <1>0, <1>5 DEF Rows
  <2>4. r < rebuilt => r < n
    BY <1>0, <1>5 DEF Rows
  <2> QED BY <2>1, <2>2, <2>3, <2>4
<1>7. c + 1 \in 0 .. nframes /\ (n = NumRows <=> c + 1 = nframes)
  <2>1. c = nframes - 1 <=> n = NumRows
    BY <1>5
  <2> QED BY <2>1
<1> QED BY <1>3, <1>4, <1>6, <1>7 DEF Patching, InFlasher

\* A chunk sent again is answered and changes nothing.
LEMMA ChunkRepeated ==
    ASSUME NEW c \in Nat \ {0}, Patching(c), NEW final, NEW gate, NEW wrote, NEW ack \in BOOLEAN,
           OnChunk(c - 1, New, final, gate, wrote, ack), nframes' = nframes
    PROVE  ack /\ Patching(c)'
<1>1. Repeat(c - 1) /\ decoder # NoImage /\ InFlasher
  BY SimNumbers DEF Patching, Repeat
<1>2. ack /\ UNCHANGED watchVars
  BY <1>1 DEF OnChunk
<1> QED BY <1>2 DEF Patching, InFlasher, watchVars

\* A decoder in charge stays so, whatever it is fed.
LEMMA ParkedChunk ==
    ASSUME Parked, NEW id \in Nat, NEW i \in Images \cup {Torn}, NEW final \in BOOLEAN,
           NEW gate \in BOOLEAN, NEW wrote \in BOOLEAN, NEW ack \in BOOLEAN,
           OnChunk(id, i, final, gate, wrote, ack)
    PROVE  Parked'
<1>1. CASE UNCHANGED watchVars
  BY <1>1 DEF Parked, InFlasher, watchVars
<1>2. ASSUME wstate' = "flasher", Decode(id, i, final, gate, wrote) PROVE Parked'
  <2>1. decoder' \in Images \cup {Torn, Dead}
    BY <1>2 DEF Decode
  <2>2. decoder' # NoImage
    BY <2>1, SimNumbers DEF NoImage, Torn, Dead
  <2> QED BY <1>2, <2>2 DEF Parked, InFlasher
<1> QED BY <1>1, <1>2 DEF OnChunk

\* The EXIT of a watch that holds the image is answered, and reboots it.
LEMMA ExitVerifies ==
    ASSUME wstate = "flasher", Holds(New, Rows), NEW ack \in BOOLEAN, OnExit(New, Rows, ack)
    PROVE  ack /\ wstate' = "launcher" /\ flash' = flash
BY DEF OnExit

\* A decoder whose rows fail gives up before it has taken more than Lead + 1 chunks.
LEMMA FailingChunk ==
    ASSUME WatchTypeOK, Damage \subseteq {FALSE}, Failing, acks \in Nat, NEW p \in Nat, Read = p, Read' = p + 1,
           NEW final, final = (p = nframes - 1), NEW gate \in BOOLEAN, NEW ack \in BOOLEAN,
           OnChunk(p, New, final, gate, FALSE, ack), acks' = IF ack THEN acks + 1 ELSE acks
    PROVE  Failing' /\ flash' = flash
<1>0. /\ NumRows \in Nat \ {0} /\ Lead \in Nat /\ New \notin {NoImage, Torn, Dead}
      /\ decoder \in {New, Dead} /\ rebuilt = 0 /\ InFlasher /\ last \in Int
      /\ acks = last + 1 /\ last <= Lead /\ last < p
  BY SimNumbers, WatchAssumption DEF Failing, WatchTypeOK, NoId
<1>1. decoder = New => last = p - 1 /\ p <= Lead
  BY DEF Failing
<1>2. ~Repeat(p)
  BY <1>0 DEF Repeat
<1>3. ASSUME ~ack, UNCHANGED watchVars,
             InFlasher /\ decoder # NoImage => ~Repeat(p) /\ (p = last + 1 => decoder = Dead \/ rebuilt = NumRows)
      PROVE  Failing' /\ flash' = flash
  <2>1. decoder # NoImage
    BY <1>0 DEF NoImage, Dead
  <2>2. p = last + 1 => decoder = Dead
    BY <1>0, <1>3, <2>1
  <2>3. decoder = Dead
    BY <1>0, <1>1, <2>2
  <2>4. acks' = acks /\ last' = last /\ decoder' = Dead /\ rebuilt' = 0 /\ wstate' = wstate /\ flash' = flash
    BY <1>0, <1>3, <2>3 DEF watchVars
  <2>5. Dead # New
    BY <1>0
  <2> QED BY <1>0, <2>4, <2>5 DEF Failing, InFlasher
<1>4. ASSUME decoder \notin {NoImage, Dead}, ack, last' = p, wstate' = "flasher",
             Decode(p, New, final, gate, FALSE)
      PROVE  Failing' /\ flash' = flash
  <2>1. decoder = New /\ last = p - 1 /\ p <= Lead /\ acks' = p + 1
    BY <1>0, <1>1, <1>4
  <2>2. ASSUME NEW n \in Pace(p, final), n > rebuilt => gate /\ FALSE,
               rebuilt' = n, decoder' = New,
               flash' = [r \in Rows |-> IF r \in rebuilt .. (n - 1) THEN New ELSE flash[r]]
        PROVE  Failing' /\ flash' = flash
    <3>1. n \in 0 .. NumRows /\ (final <=> n = NumRows) /\ (p >= Lead => n > 0)
      BY <1>0, <2>2 DEF Pace
    <3>2. n = 0
      BY <1>0, <2>2, <3>1
    <3>3. p < Lead
      BY <1>0, <3>1, <3>2
    <3>4. flash' = flash
      BY <1>0, <2>2, <3>2 DEF WatchTypeOK
    <3> QED BY <1>0, <1>4, <2>1, <2>2, <3>2, <3>3, <3>4 DEF Failing, InFlasher
  <2>3. ASSUME decoder' = Dead, UNCHANGED rebuilt,
               IF gate /\ ~FALSE THEN WriteRow(rebuilt, New, FALSE) ELSE UNCHANGED flash
        PROVE  Failing' /\ flash' = flash
    <3>1. flash' = flash
      <4>1. CASE gate
        <5>1. WriteRow(rebuilt, New, FALSE)
          BY <2>3, <4>1
        <5> QED BY <5>1 DEF WriteRow
      <4>2. CASE ~gate
        BY <2>3, <4>2
      <4> QED BY <4>1, <4>2
    <3>2. Dead # New /\ rebuilt' = 0
      BY <1>0, <2>3
    <3> QED BY <1>0, <1>4, <2>1, <2>3, <3>1, <3>2 DEF Failing, InFlasher
  <2> QED BY <1>4, <2>1, <2>2, <2>3 DEF Decode
<1> QED BY <1>2, <1>3, <1>4 DEF OnChunk

\* A decoder whose source is another image makes no row of what it is fed.
LEMMA GatedChunk ==
    ASSUME WatchTypeOK, Gated, NEW id \in Nat, NEW final \in BOOLEAN, NEW gate, ~gate,
           NEW wrote \in BOOLEAN, NEW ack \in BOOLEAN, OnChunk(id, New, final, gate, wrote, ack)
    PROVE  Gated' /\ flash' = flash
<1>0. NumRows \in Nat \ {0} /\ New \notin {NoImage, Torn, Dead} /\ decoder \in {New, Dead} /\ rebuilt = 0
  BY SimNumbers DEF Gated
<1>1. CASE UNCHANGED watchVars
  BY <1>1 DEF Gated, InFlasher, watchVars
<1>2. ASSUME decoder \notin {NoImage, Dead}, wstate' = "flasher", Decode(id, New, final, gate, wrote)
      PROVE  Gated' /\ flash' = flash
  <2>1. decoder = New
    BY <1>0, <1>2
  <2>2. ASSUME NEW n \in Pace(id, final), n > rebuilt => gate /\ wrote, rebuilt' = n, decoder' = New,
               flash' = [r \in Rows |-> IF r \in rebuilt .. (n - 1) THEN New ELSE flash[r]]
        PROVE  Gated' /\ flash' = flash
    <3>1. n \in 0 .. NumRows /\ ~(n > 0)
      BY <1>0, <2>2 DEF Pace
    <3>2. n = 0
      BY <1>0, <3>1
    <3>3. flash' = flash
      BY <1>0, <2>2, <3>2 DEF WatchTypeOK
    <3> QED BY <1>2, <2>2, <3>2, <3>3 DEF Gated, InFlasher
  <2>3. ASSUME decoder' = Dead, UNCHANGED rebuilt, UNCHANGED flash PROVE Gated' /\ flash' = flash
    BY <1>0, <1>2, <2>3 DEF Gated, InFlasher
  <2> QED BY <1>2, <2>1, <2>2, <2>3 DEF Decode
<1> QED BY <1>1, <1>2 DEF OnChunk

\* Which operation a frame is for.
LEMMA TakesBlock ==
    ASSUME NEW id \in Rows, Scenario # "wfail", NEW ack, Dispatch(Frame("block", id, New), ack)
    PROVE  OnBlock(id, New, TRUE, ack)
<1> DEFINE f == Frame("block", id, New)
<1>1. f.kind = "block" /\ f.id = id /\ f.img = New
  BY DEF Frame
<1>2. WriteSucceeds(f) = TRUE
  BY <1>1 DEF WriteSucceeds
<1> HIDE DEF f
<1>3. OnBlock(f.id, f.img, WriteSucceeds(f), ack)
  BY <1>1 DEF Dispatch, f
<1> QED BY <1>1, <1>2, <1>3

LEMMA TakesChunk ==
    ASSUME NEW id \in Nat, NEW ack, Dispatch(Frame("chunk", id, New), ack)
    PROVE  OnChunk(id, New, id = nframes - 1, Gate, Scenario # "wfail", ack)
<1> DEFINE f == Frame("chunk", id, New)
<1>1. f.kind = "chunk" /\ f.id = id /\ f.img = New
  BY DEF Frame
<1>2. WriteSucceeds(f) = (Scenario # "wfail")
  BY <1>1 DEF WriteSucceeds
<1>3. OnChunk(f.id, f.img, f.id = nframes - 1, Gate, WriteSucceeds(f), ack)
  <2> HIDE DEF f
  <2> QED BY <1>1 DEF Dispatch, f
<1> HIDE DEF f
<1> QED BY <1>1, <1>2, <1>3

LEMMA TakesExit ==
    ASSUME NEW ack, Dispatch(ExitFrame, ack)
    PROVE  OnExit(New, Rows, ack)
<1> DEFINE f == ExitFrame
<1>1. f.kind = "exit" /\ f.img = New
  BY DEF ExitFrame, Frame
<1> HIDE DEF f
<1>2. OnExit(f.img, Rows, ack)
  BY <1>1 DEF Dispatch, f
<1> QED BY <1>1, <1>2

-----------------------------------------------------------------------------
(* The steps of a session of the simulator                                 *)

\* A scenario is one of main's, and its frames are frames.
LEMMA ScenarioFacts ==
    ASSUME SimTypeOK
    PROVE  /\ Scenario \in Names /\ (Scenario = "wrongbase" => ultra)
           /\ nframes \in Nat \ {0}
           /\ Frames(Scenario) \in Seq(FrameRecord) /\ Len(Frames(Scenario)) \in Nat /\ Len(rx) \in Nat
<1>1. /\ Scenarios \in Seq(Names)
      /\ \A i \in DOMAIN Scenarios : Scenarios[i] = "wrongbase" => ultra
  BY ScenarioNames DEF SimTypeOK
<1>2. Scenario \in {Scenarios[i] : i \in DOMAIN Scenarios}
  <2> DEFINE S == {Scenarios[i] : i \in DOMAIN Scenarios}
  <2>1. todo \in Seq(S) /\ todo # <<>>
    BY DEF SimTypeOK
  <2> HIDE DEF S
  <2> QED BY <2>1 DEF Scenario, S
<1>3. PICK i \in DOMAIN Scenarios : Scenario = Scenarios[i]
  BY <1>2
<1>4. Scenario \in Names /\ (Scenario = "wrongbase" => ultra)
  BY <1>1, <1>3
<1>5. nframes \in BodySizes /\ nframes \in Nat \ {0}
  BY SimNumbers DEF SimTypeOK
<1>6. Frames(Scenario) \in Seq(FrameRecord)
  BY <1>4, <1>5, FramesType
<1>7. Len(Frames(Scenario)) \in Nat
  BY <1>6
<1>8. Len(rx) \in Nat
  BY DEF SimTypeOK
<1> QED BY <1>4, <1>5, <1>6, <1>7, <1>8

\* As long as the scenario does not change, its frames do not.
LEMMA SameFrames ==
    ASSUME todo' = todo, nframes' = nframes, middle' = middle
    PROVE  Scenario' = Scenario /\ Frames(Scenario)' = Frames(Scenario)
<1>1. Scenario' = Scenario
  BY DEF Scenario
<1> QED BY <1>1 DEF Frames, HandedOff, Queue, BodyFrames, Chunks, Chunk, FinalAgain, Cut

\* The frame that is read is the next one of the session.
LEMMA FrameRead ==
    ASSUME SimTypeOK, RestQueued, NEW ack \in BOOLEAN, ReadFrame(ack)
    PROVE  /\ Read \in Nat /\ Read + 1 <= Len(Frames(Scenario)) /\ Read' = Read + 1
           /\ Dispatch(Frames(Scenario)[Read + 1], ack)
           /\ Frames(Scenario)[Read + 1] \in FrameRecord /\ Head(rx) = Frames(Scenario)[Read + 1]
           /\ RestQueued' /\ Scenario' = Scenario
<1> DEFINE f == Frames(Scenario)
<1>1. /\ f \in Seq(FrameRecord) /\ Len(f) \in Nat /\ Len(rx) \in Nat
  BY ScenarioFacts
<1>2. Scenario' = Scenario /\ f' = f
  BY SameFrames DEF ReadFrame
<1>3. rx \in Seq(FrameRecord) /\ rx # <<>> /\ rx' = Tail(rx)
  BY DEF ReadFrame, SimTypeOK, FrameRecord
<1>4. /\ Len(rx) >= 1 /\ Len(rx') = Len(rx) - 1 /\ Head(rx) = rx[1]
      /\ \A i \in 1 .. Len(rx') : rx'[i] = rx[i + 1]
  BY <1>1, <1>3, HeadTailProperties
<1>5. Len(rx) <= Len(f) /\ (\A i \in 1 .. Len(rx) : rx[i] = f[Read + i])
  BY DEF RestQueued
<1>6. Read = Len(f) - Len(rx) /\ Read' = Len(f) - Len(rx')
  BY <1>2 DEF Read
<1> HIDE DEF f
<1>7. Read \in Nat /\ Read + 1 <= Len(f) /\ Read' = Read + 1
  BY <1>1, <1>4, <1>5, <1>6
<1>8. Head(rx) = f[Read + 1] /\ f[Read + 1] \in FrameRecord
  BY <1>1, <1>4, <1>5, <1>7
<1>9. Dispatch(f[Read + 1], ack)
  BY <1>8 DEF ReadFrame
<1>10. RestQueued'
  <2>1. Len(rx') <= Len(f)
    BY <1>1, <1>4, <1>5
  <2>2. ASSUME NEW i \in 1 .. Len(rx') PROVE rx'[i] = f[Read' + i]
    <3>1. i + 1 \in 1 .. Len(rx) /\ Read' + i = Read + (i + 1)
      BY <1>1, <1>4, <1>7
    <3> QED BY <1>4, <1>5, <3>1
  <2>3. Len(rx') <= Len(f') /\ \A i \in 1 .. Len(rx') : rx'[i] = f'[Read' + i]
    BY <1>2, <2>1, <2>2
  <2> QED BY <2>3 DEF RestQueued, f
<1> QED BY <1>2, <1>7, <1>8, <1>9, <1>10 DEF f

\* What a frame does to the session, but for the watch.
LEMMA HarnessStep ==
    ASSUME NEW ack \in BOOLEAN, ReadFrame(ack)
    PROVE  /\ result = "none" /\ ultra' = ultra /\ nframes' = nframes
           /\ acks' = (IF ack THEN acks + 1 ELSE acks)
           /\ (wstate' = "launcher" => result' = "reboot") /\ (wstate' # "launcher" => result' = "none")
BY DEF ReadFrame

\* A full flash alone: blocks until the EXIT, which reboots.
LEMMA FullStep ==
    ASSUME SimTypeOK, SimInv, NEW ack \in BOOLEAN, ReadFrame(ack), Scenario \in {"full", "recovery"}
    PROVE  (result' = "none" => UnderWay') /\ EndsAsDemanded'
<1>1. /\ Read \in Nat /\ Read + 1 <= Len(Frames(Scenario)) /\ Read' = Read + 1
      /\ Dispatch(Frames(Scenario)[Read + 1], ack) /\ Scenario' = Scenario
  BY FrameRead DEF SimInv
<1>2. PICK p \in Nat : p = Read
  BY <1>1
<1>3. Writing(p) /\ WatchTypeOK
  BY <1>2, HarnessStep DEF SimInv, UnderWay, SimTypeOK
<1>4. /\ Frames(Scenario) = FullFlash /\ NumRows \in Nat \ {0}
      /\ \A k \in 1 .. NumRows : FullFlash[k] = Frame("block", k - 1, New)
      /\ FullFlash[NumRows + 1] = ExitFrame
  BY FullFrames, FullFlashFrames, SimNumbers
<1>5. p \in 0 .. NumRows
  BY <1>3 DEF Writing
<1>6. CASE p < NumRows
  <2>1. p \in Rows /\ FullFlash[p + 1] = Frame("block", p, New)
    BY <1>4, <1>5, <1>6 DEF Rows
  <2>2. Dispatch(Frame("block", p, New), ack)
    BY <1>1, <1>2, <1>4, <2>1
  <2>3. OnBlock(p, New, TRUE, ack)
    BY <2>1, <2>2, TakesBlock
  <2>4. Writing(p + 1)'
    BY <1>3, <2>1, <2>3, RowWritten
  <2>5. wstate' # "launcher" /\ Writing(Read)'
    BY <1>1, <1>2, <2>4 DEF Writing, InFlasher
  <2>6. result' = "none"
    BY <2>5, HarnessStep
  <2> QED BY <1>1, <2>5, <2>6 DEF UnderWay, EndsAsDemanded
<1>7. CASE p = NumRows
  <2>1. OnExit(New, Rows, ack)
    BY <1>1, <1>2, <1>4, <1>7, TakesExit
  <2>2. wstate = "flasher" /\ Holds(New, Rows)
    BY <1>3, <1>4, <1>7 DEF Writing, Holds, Rows
  <2>3. ack /\ wstate' = "launcher" /\ flash' = flash
    BY <2>1, <2>2, ExitVerifies
  <2>4. result' = "reboot" /\ Holds(New, Rows)'
    BY <2>2, <2>3, HarnessStep DEF Holds
  <2> QED BY <1>1, <2>4 DEF EndsAsDemanded, Rejected, AcksAsCounted
<1> QED BY <1>4, <1>5, <1>6, <1>7

\* A good patch's decoder finds its source: before its first row the flash is the reference.
LEMMA GoodChunk ==
    ASSUME WatchTypeOK, nframes \in Nat, NEW c \in Nat, c < nframes, Patching(c), Scenario # "wfail",
           NEW ack \in BOOLEAN, Dispatch(Frame("chunk", c, New), ack), nframes' = nframes
    PROVE  ack /\ Patching(c + 1)'
<1> DEFINE final == c = nframes - 1
<1>1. OnChunk(c, New, final, Gate, Scenario # "wfail", ack)
  BY TakesChunk
<1>2. Gate = TRUE
  <2>1. \A r \in Rows : r >= 0
    BY SimNumbers DEF Rows
  <2>2. rebuilt = 0 => Holds(Ref, Rows)
    BY <2>1, SimNumbers DEF Patching, Holds, Rows
  <2> QED BY <2>2 DEF Gate
<1>3. (Scenario # "wfail") = TRUE
  OBVIOUS
<1>4. OnChunk(c, New, final, TRUE, TRUE, ack)
  BY <1>1, <1>2, <1>3
<1>5. final = (c = nframes - 1)
  OBVIOUS
<1> HIDE DEF final
<1> QED BY <1>4, <1>5, ChunkFed

LEMMA Patched ==
    ASSUME nframes \in Nat \ {0}, Patching(nframes)
    PROVE  wstate = "flasher" /\ Holds(New, Rows)
<1>1. wstate = "flasher" /\ rebuilt = NumRows
  BY DEF Patching
<1>2. \A r \in Rows : r < rebuilt
  BY <1>1, SimNumbers DEF Rows
<1> QED BY <1>1, <1>2 DEF Patching, Holds

\* A clean patch: chunks until the EXIT, which reboots.
LEMMA CleanStep ==
    ASSUME SimTypeOK, SimInv, NEW ack \in BOOLEAN, ReadFrame(ack), Scenario = "clean"
    PROVE  (result' = "none" => UnderWay') /\ EndsAsDemanded'
<1>1. /\ Read \in Nat /\ Read + 1 <= Len(Frames(Scenario)) /\ Read' = Read + 1
      /\ Dispatch(Frames(Scenario)[Read + 1], ack) /\ Scenario' = Scenario
  BY FrameRead DEF SimInv
<1>2. PICK p \in Nat : p = Read
  BY <1>1
<1>3. Patching(p) /\ WatchTypeOK /\ nframes' = nframes /\ nframes \in BodySizes
  BY <1>2, HarnessStep DEF SimInv, UnderWay, SimTypeOK
<1>4. nframes \in Nat \ {0} /\ p \in 0 .. nframes
  BY <1>3, SimNumbers DEF Patching
<1>5. /\ \A k \in 1 .. nframes : Frames("clean")[k] = Frame("chunk", k - 1, New)
      /\ Frames("clean")[nframes + 1] = ExitFrame
  BY <1>3, CleanFrames
<1>6. CASE p < nframes
  <2>1. Frames("clean")[p + 1] = Frame("chunk", p, New)
    BY <1>4, <1>5, <1>6
  <2>2. Dispatch(Frame("chunk", p, New), ack)
    BY <1>1, <1>2, <2>1
  <2>3. Patching(p + 1)'
    BY <1>3, <1>4, <1>6, <2>2, GoodChunk
  <2>4. wstate' # "launcher" /\ Patching(Read)'
    BY <1>1, <1>2, <2>3 DEF Patching, InFlasher
  <2>5. result' = "none"
    BY <2>4, HarnessStep
  <2> QED BY <1>1, <2>4, <2>5 DEF UnderWay, EndsAsDemanded
<1>7. CASE p = nframes
  <2>1. OnExit(New, Rows, ack)
    BY <1>1, <1>2, <1>5, <1>7, TakesExit
  <2>2. wstate = "flasher" /\ Holds(New, Rows)
    BY <1>3, <1>4, <1>7, Patched
  <2>3. ack /\ wstate' = "launcher" /\ flash' = flash
    BY <2>1, <2>2, ExitVerifies
  <2>4. result' = "reboot" /\ Holds(New, Rows)'
    BY <2>2, <2>3, HarnessStep DEF Holds
  <2> QED BY <1>1, <2>4 DEF EndsAsDemanded, Rejected, AcksAsCounted
<1> QED BY <1>4, <1>6, <1>7

\* Each frame of a doubled body feeds the next chunk or repeats the last one.
LEMMA FedNext ==
    ASSUME nframes \in Nat \ {0}, NEW p \in Nat
    PROVE  /\ Fed(p) \in 0 .. nframes /\ Fed(p + 1) \in {Fed(p), Fed(p) + 1}
           /\ (Fed(p + 1) = Fed(p) => Fed(p) # 0)
           /\ Fed(IF nframes > 1 THEN 2 * nframes ELSE 1) = nframes
<1>1. p \div 2 \in Nat /\ (p + 1) \div 2 \in {p \div 2, p \div 2 + 1} /\ (p = 0 => (p + 1) \div 2 = 0)
  OBVIOUS
<1>2. Fed(p) = IF p = 0 THEN 0 ELSE IF p \div 2 < nframes THEN p \div 2 + 1 ELSE nframes
  BY DEF Fed
<1>3. Fed(p + 1) = IF (p + 1) \div 2 < nframes THEN (p + 1) \div 2 + 1 ELSE nframes
  BY DEF Fed
<1>4. Fed(IF nframes > 1 THEN 2 * nframes ELSE 1) = nframes
  <2>1. CASE nframes > 1
    <3>1. (2 * nframes) \div 2 = nframes /\ 2 * nframes # 0
      OBVIOUS
    <3>2. Fed(2 * nframes) = nframes
      BY <3>1 DEF Fed
    <3> QED BY <2>1, <3>2
  <2>2. CASE ~(nframes > 1)
    <3>1. Fed(1) = 1 /\ nframes = 1
      BY <2>2 DEF Fed
    <3> QED BY <2>2, <3>1
  <2> QED BY <2>1, <2>2
<1> QED BY <1>1, <1>2, <1>3, <1>4

\* Every chunk twice: each frame is answered, and the EXIT reboots.
LEMMA DupStep ==
    ASSUME SimTypeOK, SimInv, NEW ack \in BOOLEAN, ReadFrame(ack), Scenario = "dup"
    PROVE  (result' = "none" => UnderWay') /\ EndsAsDemanded'
<1> DEFINE all == IF nframes > 1 THEN 2 * nframes ELSE 1
<1>1. /\ Read \in Nat /\ Read' = Read + 1
      /\ Dispatch(Frames(Scenario)[Read + 1], ack) /\ Scenario' = Scenario
  BY FrameRead DEF SimInv
<1>2. PICK p \in Nat : p = Read
  BY <1>1
<1>3. /\ p <= all /\ Patching(Fed(p)) /\ acks = p
      /\ WatchTypeOK /\ nframes' = nframes /\ nframes \in BodySizes
  BY <1>2, HarnessStep DEF SimInv, UnderWay, SimTypeOK
<1>4. nframes \in Nat \ {0} /\ all \in Nat
  BY <1>3, SimNumbers
<1>5. /\ \A k \in 1 .. all : Frames("dup")[k] = Frame("chunk", Fed(k) - 1, New)
      /\ Frames("dup")[all + 1] = ExitFrame
  BY <1>3, DupFrames
<1>6. CASE p < all
  <2>0. /\ Fed(p) \in 0 .. nframes /\ Fed(p + 1) \in {Fed(p), Fed(p) + 1}
        /\ (Fed(p + 1) = Fed(p) => Fed(p) # 0) /\ Fed(p + 1) \in 0 .. nframes
    BY <1>4, p + 1 \in Nat, FedNext
  <2>1. Frames("dup")[p + 1] = Frame("chunk", Fed(p + 1) - 1, New)
    <3> HIDE DEF all
    <3> QED BY <1>4, <1>5, <1>6
  <2>2. Dispatch(Frame("chunk", Fed(p + 1) - 1, New), ack)
    BY <1>1, <1>2, <2>1
  <2>3. PICK c \in Nat, d \in Nat : c = Fed(p) /\ d = Fed(p + 1)
    BY <2>0
  <2>4. Patching(c) /\ Dispatch(Frame("chunk", d - 1, New), ack) /\ d \in {c, c + 1} /\ (d = c => c # 0) /\ d <= nframes
    BY <1>3, <2>0, <2>2, <2>3
  <2>5. ack /\ Patching(d)'
    <3>1. CASE d = c + 1
      <4>1. Dispatch(Frame("chunk", c, New), ack) /\ c < nframes
        BY <1>4, <2>4, <3>1
      <4>2. ack /\ Patching(c + 1)'
        BY <1>3, <1>4, <2>4, <4>1, GoodChunk
      <4> QED BY <3>1, <4>2
    <3>2. CASE d = c
      <4>1. Dispatch(Frame("chunk", c - 1, New), ack) /\ c \in Nat \ {0} /\ c - 1 \in Nat
        BY <2>4, <3>2
      <4>2. OnChunk(c - 1, New, c - 1 = nframes - 1, Gate, Scenario # "wfail", ack)
        BY <4>1, TakesChunk
      <4>3. ack /\ Patching(c)'
        BY <1>3, <2>4, <4>1, <4>2, ChunkRepeated
      <4> QED BY <3>2, <4>3
    <3> QED BY <2>4, <3>1, <3>2
  <2>6. acks' = p + 1 /\ wstate' # "launcher"
    BY <1>3, <2>5, HarnessStep DEF Patching, InFlasher
  <2>7. result' = "none"
    BY <2>6, HarnessStep
  <2>8. Fed(Read)' = d
    BY <1>1, <1>2, <1>3, <2>3 DEF Fed
  <2>9. Patching(Fed(Read))'
    BY <2>5, <2>8 DEF Patching
  <2>10. Read' <= (IF nframes' > 1 THEN 2 * nframes' ELSE 1) /\ acks' = Read'
    BY <1>1, <1>2, <1>3, <1>4, <1>6, <2>6
  <2> QED BY <1>1, <2>7, <2>9, <2>10 DEF UnderWay, EndsAsDemanded
<1>7. CASE p = all
  <2>1. OnExit(New, Rows, ack)
    <3> HIDE DEF all
    <3> QED BY <1>1, <1>2, <1>5, <1>7, TakesExit
  <2>2. wstate = "flasher" /\ Holds(New, Rows)
    <3>1. Patching(nframes)
      BY <1>3, <1>4, <1>7, FedNext
    <3> QED BY <1>4, <3>1, Patched
  <2>3. ack /\ wstate' = "launcher" /\ flash' = flash
    BY <2>1, <2>2, ExitVerifies
  <2>4. result' = "reboot" /\ Holds(New, Rows)' /\ acks' = all + 1 /\ nframes' = nframes
    <3> HIDE DEF all
    <3> QED BY <1>3, <1>7, <2>2, <2>3, HarnessStep DEF Holds
  <2>5. acks' = IF nframes' > 1 THEN 2 * nframes' + 1 ELSE 2
    BY <1>4, <2>4
  <2> QED BY <1>1, <2>4, <2>5 DEF EndsAsDemanded, Rejected, AcksAsCounted
<1> QED BY <1>3, <1>4, <1>6, <1>7

\* A decoder is interrupted by a full flash: whatever it was up to, block 0 takes over.
LEMMA TakeoverStep ==
    ASSUME SimTypeOK, SimInv, NEW ack \in BOOLEAN, ReadFrame(ack), Scenario \in {"takeover", "corrupt"}
    PROVE  (result' = "none" => UnderWay') /\ EndsAsDemanded'
<1>1. /\ Read \in Nat /\ Read + 1 <= Len(Frames(Scenario)) /\ Read' = Read + 1
      /\ Dispatch(Frames(Scenario)[Read + 1], ack) /\ Scenario' = Scenario
      /\ Frames(Scenario)[Read + 1] \in FrameRecord
  BY FrameRead DEF SimInv
<1>2. PICK p \in Nat : p = Read
  BY <1>1
<1>3. /\ IF p <= Before THEN Parked ELSE Writing(p - Before)
      /\ WatchTypeOK /\ nframes' = nframes /\ nframes \in BodySizes
  BY <1>2, HarnessStep DEF SimInv, UnderWay, SimTypeOK
<1>4. PICK b \in Nat \ {0} : b = Before /\ TakenOver(Frames(Scenario), b) /\ b = Before'
  <2>1. Before = IF Scenario = "takeover" THEN Cut ELSE nframes
    BY DEF Before
  <2>2. Before' = Before
    BY <1>1, <1>3 DEF Before, Cut
  <2>3. Before \in Nat \ {0}
    BY <1>3, <2>1, SimNumbers, SessionFrames
  <2>4. TakenOver(Frames(Scenario), Before)
    BY <1>3, <2>1, SessionFrames
  <2> QED BY <2>2, <2>3, <2>4
<1>5. /\ IF p <= b THEN Parked ELSE Writing(p - b)
      /\ NumRows \in Nat \ {0} /\ p + 1 <= b + NumRows + 1
      /\ \A k \in 1 .. b : Frames(Scenario)[k].kind = "chunk"
      /\ \A k \in 1 .. NumRows : Frames(Scenario)[b + k] = Frame("block", k - 1, New)
      /\ Frames(Scenario)[b + NumRows + 1] = ExitFrame
  BY <1>1, <1>2, <1>3, <1>4, SimNumbers DEF TakenOver
<1>10. p \in Nat /\ b \in Nat \ {0} /\ NumRows \in Nat \ {0} /\ p + 1 <= b + NumRows + 1 /\ Read' = p + 1 /\ Before' = b
  BY <1>1, <1>2, <1>4, <1>5
<1>6. CASE p < b
  <2>1. PICK f \in FrameRecord : f = Frames(Scenario)[p + 1]
    BY <1>1, <1>2
  <2>2. f.kind = "chunk" /\ Dispatch(f, ack) /\ Parked
    <3>1. p + 1 \in 1 .. b /\ p <= b
      BY <1>4, <1>6
    <3> QED BY <1>1, <1>2, <1>5, <2>1, <3>1
  <2>3. OnChunk(f.id, f.img, f.id = nframes - 1, Gate, WriteSucceeds(f), ack)
    BY <2>2 DEF Dispatch
  <2>4. f.id \in Nat /\ f.img \in Images \cup {Torn}
    BY SimNumbers DEF FrameRecord, Garbage
  <2>5. Gate \in BOOLEAN /\ WriteSucceeds(f) \in BOOLEAN /\ (f.id = nframes - 1) \in BOOLEAN
    BY DEF Gate, WriteSucceeds
  <2>6. Parked'
    <3>1. PICK final \in BOOLEAN, gate \in BOOLEAN, wrote \in BOOLEAN : OnChunk(f.id, f.img, final, gate, wrote, ack)
      BY <2>3, <2>5
    <3> QED BY <2>2, <2>4, <3>1, ParkedChunk
  <2>7. wstate' # "launcher" /\ Read' <= b
    BY <1>1, <1>2, <1>4, <1>6, <2>6 DEF Parked, InFlasher
  <2>8. result' = "none"
    BY <2>7, HarnessStep
  <2>9. IF Read' <= Before' THEN Parked' ELSE Writing(Read - Before)'
    BY <1>4, <2>6, <2>7
  <2> QED BY <1>1, <2>8, <2>9 DEF UnderWay, EndsAsDemanded
<1>7. ASSUME NEW j \in Rows, p = b + j PROVE (result' = "none" => UnderWay') /\ EndsAsDemanded'
  <2>1. j \in 0 .. NumRows - 1 /\ j + 1 \in 1 .. NumRows /\ b + (j + 1) = p + 1
    BY <1>4, <1>5, <1>7 DEF Rows
  <2>2. Frames(Scenario)[p + 1] = Frame("block", j, New)
    BY <1>5, <2>1
  <2>3. OnBlock(j, New, TRUE, ack)
    <3>1. Dispatch(Frame("block", j, New), ack)
      BY <1>1, <1>2, <2>2
    <3> QED BY <3>1, TakesBlock
  <2>4. Writing(j) \/ (j = 0 /\ Parked)
    <3>1. CASE j = 0
      <4>1. p <= b
        BY <1>7, <1>10, <3>1
      <4> QED BY <1>5, <3>1, <4>1
    <3>2. CASE j # 0
      <4>1. ~(p <= b) /\ p - b = j
        BY <1>7, <1>10, <2>1, <3>2
      <4> QED BY <1>5, <4>1
    <3> QED BY <3>1, <3>2
  <2>5. Writing(j + 1)'
    BY <1>3, <2>3, <2>4, RowWritten
  <2>6. Read' - Before' = j + 1 /\ ~(Read' <= Before')
    BY <1>7, <1>10, <2>1
  <2>7. wstate' # "launcher" /\ Writing(Read - Before)'
    BY <2>5, <2>6 DEF Writing, InFlasher
  <2>8. result' = "none"
    BY <2>7, HarnessStep
  <2>9. IF Read' <= Before' THEN Parked' ELSE Writing(Read - Before)'
    BY <2>6, <2>7
  <2> QED BY <1>1, <2>8, <2>9 DEF UnderWay, EndsAsDemanded
<1>8. CASE p = b + NumRows
  <2>0. ~(p <= b) /\ p - b = NumRows /\ p + 1 = b + NumRows + 1
    BY <1>8, <1>10
  <2>1. OnExit(New, Rows, ack)
    BY <1>1, <1>2, <1>5, <2>0, TakesExit
  <2>2. wstate = "flasher" /\ Holds(New, Rows)
    <3>1. Writing(NumRows)
      BY <1>5, <2>0
    <3> QED BY <1>5, <3>1 DEF Writing, Holds, Rows
  <2>3. ack /\ wstate' = "launcher" /\ flash' = flash
    BY <2>1, <2>2, ExitVerifies
  <2>4. result' = "reboot" /\ Holds(New, Rows)'
    BY <2>2, <2>3, HarnessStep DEF Holds
  <2> QED BY <1>1, <2>4 DEF EndsAsDemanded, Rejected, AcksAsCounted
<1>9. CASE ~(p < b) /\ p # b + NumRows
  <2>1. p - b \in Rows /\ p = b + (p - b)
    BY <1>9, <1>10 DEF Rows
  <2> QED BY <1>7, <2>1
<1> QED BY <1>6, <1>8, <1>9

\* A patch of the other dialect: only the frame that was handed over is answered.
LEMMA WrongFormatStep ==
    ASSUME SimTypeOK, SimInv, NEW ack \in BOOLEAN, ReadFrame(ack), Scenario = "wrongfmt"
    PROVE  (result' = "none" => UnderWay') /\ EndsAsDemanded'
<1>1. /\ Read \in Nat /\ Read + 1 <= Len(Frames(Scenario)) /\ Read' = Read + 1
      /\ Dispatch(Frames(Scenario)[Read + 1], ack) /\ Scenario' = Scenario
  BY FrameRead DEF SimInv
<1>2. PICK p \in Nat : p = Read
  BY <1>1
<1>3. /\ Parked /\ acks <= (IF p = 0 THEN 0 ELSE 1) /\ acks \in Nat
      /\ nframes \in BodySizes /\ nframes \in Nat \ {0}
  BY <1>2, HarnessStep, SimNumbers DEF SimInv, UnderWay, SimTypeOK
<1>4. OnlyBody(Frames("wrongfmt"), "other")
  BY <1>3, SessionFrames
<1>5. Parked' /\ acks' <= 1
  <2>1. CASE p = 0
    <3>1. Dispatch(Frame("chunk", 0, New), ack)
      BY <1>1, <1>2, <1>4, <2>1 DEF OnlyBody
    <3>2. OnChunk(0, New, 0 = nframes - 1, Gate, Scenario # "wfail", ack)
      BY <3>1, TakesChunk
    <3>3. Gate \in BOOLEAN /\ (Scenario # "wfail") \in BOOLEAN /\ (0 = nframes - 1) \in BOOLEAN
      BY DEF Gate
    <3>4. Parked'
      <4>1. PICK final \in BOOLEAN, gate \in BOOLEAN, wrote \in BOOLEAN : OnChunk(0, New, final, gate, wrote, ack)
        BY <3>2, <3>3
      <4>2. 0 \in Nat /\ New \in Images \cup {Torn}
        BY SimNumbers
      <4> QED BY <1>3, <4>1, <4>2, ParkedChunk
    <3> QED BY <1>3, <2>1, <3>4, HarnessStep
  <2>2. CASE p # 0
    <3>1. Dispatch(Frame("other", p, New), ack)
      <4>1. p + 1 \in 2 .. nframes /\ (p + 1) - 1 = p
        BY <1>1, <1>2, <1>3, <1>4, <2>2 DEF OnlyBody
      <4>2. Frames("wrongfmt")[p + 1] = Frame("other", p, New)
        BY <1>4, <4>1 DEF OnlyBody
      <4> QED BY <1>1, <1>2, <4>2
    <3>2. ~ack /\ UNCHANGED watchVars
      <4>1. Frame("other", p, New).kind = "other"
        BY DEF Frame
      <4> QED BY <3>1, <4>1 DEF Dispatch
    <3> QED BY <1>3, <2>2, <3>2, HarnessStep DEF Parked, InFlasher, watchVars
  <2> QED BY <2>1, <2>2
<1>6. wstate' # "launcher"
  BY <1>5 DEF Parked, InFlasher
<1>7. result' = "none"
  BY <1>6, HarnessStep
<1>8. Parked' /\ acks' <= (IF Read' = 0 THEN 0 ELSE 1)
  BY <1>1, <1>5
<1> QED BY <1>1, <1>7, <1>8 DEF UnderWay, EndsAsDemanded

\* What a chunk adds to the rows written: those its decoder makes.
LEMMA NoRowMade ==
    ASSUME SimTypeOK, NEW ack \in BOOLEAN, ReadFrame(ack), Head(rx).kind = "chunk", rebuilt = 0, rebuilt' = 0,
           flash' = flash, Scenario' = Scenario, Untouched
    PROVE  Untouched'
<1>1. RowsWritten(Head(rx), ack) = 0
  BY DEF RowsWritten
<1>2. written' = 0
  BY <1>1 DEF ReadFrame, Untouched
<1> QED BY <1>2 DEF Untouched

\* Row writes fail, or the base is another image: nothing is written.
LEMMA RejectedStep ==
    ASSUME Damage \subseteq {FALSE}, SimTypeOK, SimInv, NEW ack \in BOOLEAN, ReadFrame(ack),
           Scenario \in {"wfail", "wrongbase"}
    PROVE  (result' = "none" => UnderWay') /\ EndsAsDemanded'
<1>1. /\ Read \in Nat /\ Read + 1 <= Len(Frames(Scenario)) /\ Read' = Read + 1
      /\ Dispatch(Frames(Scenario)[Read + 1], ack) /\ Scenario' = Scenario
      /\ Head(rx) = Frames(Scenario)[Read + 1]
  BY FrameRead DEF SimInv
<1>2. PICK p \in Nat : p = Read
  BY <1>1
<1>3. /\ WatchTypeOK /\ acks \in Nat /\ nframes \in BodySizes /\ nframes \in Nat \ {0} /\ Untouched
      /\ (Scenario = "wfail" => Failing) /\ (Scenario = "wrongbase" => Gated)
  BY HarnessStep, SimNumbers DEF SimInv, UnderWay, SimTypeOK
<1>4. OnlyBody(Frames(Scenario), "chunk")
  BY <1>3, SessionFrames
<1>5. Frames(Scenario)[p + 1] = Frame("chunk", p, New)
  <2>1. CASE p = 0
    BY <1>4, <2>1 DEF OnlyBody
  <2>2. CASE p # 0
    <3>1. p + 1 \in 2 .. nframes /\ (p + 1) - 1 = p
      BY <1>1, <1>2, <1>3, <1>4, <2>2 DEF OnlyBody
    <3> QED BY <1>4, <3>1 DEF OnlyBody
  <2> QED BY <2>1, <2>2
<1>6. Dispatch(Frame("chunk", p, New), ack) /\ Head(rx) = Frame("chunk", p, New)
  BY <1>1, <1>2, <1>5
<1>7. Head(rx).kind = "chunk"
  BY <1>6 DEF Frame
<1>8. OnChunk(p, New, p = nframes - 1, Gate, Scenario # "wfail", ack)
  BY <1>6, TakesChunk
<1>9. Gate \in BOOLEAN /\ (p = nframes - 1) \in BOOLEAN
  BY DEF Gate
<1>10. CASE Scenario = "wfail"
  <2>1. (Scenario # "wfail") = FALSE
    BY <1>10
  <2>2. OnChunk(p, New, p = nframes - 1, Gate, FALSE, ack)
    BY <1>8, <2>1
  <2>3. Failing /\ Read = p /\ Read' = p + 1 /\ acks' = IF ack THEN acks + 1 ELSE acks
    BY <1>1, <1>2, <1>3, <1>10, HarnessStep
  <2>4. Failing' /\ flash' = flash
    BY <1>3, <1>9, <2>2, <2>3, FailingChunk
  <2>5. rebuilt = 0 /\ rebuilt' = 0 /\ wstate' # "launcher"
    BY <2>3, <2>4 DEF Failing, InFlasher
  <2>6. Untouched'
    BY <1>1, <1>3, <1>7, <2>4, <2>5, NoRowMade
  <2>7. result' = "none"
    BY <2>5, HarnessStep
  <2> QED BY <1>1, <1>10, <2>4, <2>6, <2>7 DEF UnderWay, EndsAsDemanded
<1>11. CASE Scenario = "wrongbase"
  <2>1. ~Gate
    <3>1. ultra /\ rebuilt = 0 /\ 0 \in Rows
      BY <1>3, <1>11, ScenarioFacts, SimNumbers DEF Gated, Rows
    <3>2. flash[0] = Torn
      BY <1>3, <1>11, <3>1 DEF Untouched
    <3> QED BY <3>1, <3>2, SimNumbers DEF Gate, Holds
  <2>2. (Scenario # "wfail") \in BOOLEAN
    OBVIOUS
  <2>3. Gated' /\ flash' = flash
    BY <1>3, <1>8, <1>9, <1>11, <2>1, <2>2, GatedChunk
  <2>4. rebuilt = 0 /\ rebuilt' = 0 /\ wstate' # "launcher"
    BY <1>3, <1>11, <2>3 DEF Gated, InFlasher
  <2>5. Untouched'
    BY <1>1, <1>3, <1>7, <2>3, <2>4, NoRowMade
  <2>6. result' = "none"
    BY <2>4, HarnessStep
  <2> QED BY <1>1, <1>11, <2>3, <2>5, <2>6 DEF UnderWay, EndsAsDemanded
<1> QED BY <1>10, <1>11

LEMMA ReadStep ==
    ASSUME Damage \subseteq {FALSE}, SimTypeOK, SimInv, NEW ack \in BOOLEAN, ReadFrame(ack)
    PROVE  SimInv'
<1>1. RestQueued' /\ Scenario' = Scenario /\ ultra' = ultra
  BY FrameRead, HarnessStep DEF SimInv
<1>2. Scenario \in Names
  BY ScenarioFacts
<1>3. (result' = "none" => UnderWay') /\ EndsAsDemanded'
  BY <1>2, FullStep, CleanStep, DupStep, TakeoverStep, WrongFormatStep, RejectedStep DEF Names
<1> QED BY <1>1, <1>3 DEF SimInv

\* The watch starves only where main wants it to.
LEMMA StarveStep ==
    ASSUME Lead <= 3, SimTypeOK, SimInv, Starve
    PROVE  SimInv'
<1>1. /\ result = "none" /\ rx = <<>> /\ result' = "starved" /\ UNCHANGED <<todo, nframes, middle, ultra, rx, acks, written>>
      /\ UNCHANGED <<wstate, last, decoder, rebuilt, flash>>
  BY DEF Starve, watchVars
<1>2. Scenario' = Scenario /\ Frames(Scenario)' = Frames(Scenario)
  BY <1>1, SameFrames
<1>3. RestQueued' /\ (Scenario' = "wrongbase" => ultra')
  BY <1>1, <1>2 DEF SimInv, RestQueued, Read
<1>4. UnderWay /\ Read = Len(Frames(Scenario)) /\ Scenario \in Names
  <2>1. Len(rx) = 0 /\ Len(Frames(Scenario)) \in Nat
    BY <1>1, ScenarioFacts
  <2> QED BY <1>1, <2>1, ScenarioFacts DEF SimInv, Read
<1>5. nframes \in BodySizes /\ nframes \in Nat \ {0} /\ NumRows \in Nat \ {0}
  BY SimNumbers DEF SimTypeOK
<1>6. Scenario \notin {"full", "recovery"}
  <2> SUFFICES ASSUME Scenario \in {"full", "recovery"} PROVE FALSE
    OBVIOUS
  <2>1. Read = NumRows + 1
    BY <1>4, FullFrames, FullFlashFrames
  <2>2. Writing(NumRows + 1)
    BY <1>4, <2>1 DEF UnderWay
  <2> QED BY <1>5, <2>2 DEF Writing
<1>7. Scenario # "clean"
  <2> SUFFICES ASSUME Scenario = "clean" PROVE FALSE
    OBVIOUS
  <2>1. Read = nframes + 1
    BY <1>4, <1>5, CleanFrames
  <2>2. Patching(nframes + 1)
    BY <1>4, <2>1 DEF UnderWay
  <2> QED BY <1>5, <2>2 DEF Patching
<1>8. Scenario # "dup"
  <2> SUFFICES ASSUME Scenario = "dup" PROVE FALSE
    OBVIOUS
  <2> DEFINE all == IF nframes > 1 THEN 2 * nframes ELSE 1
  <2>1. all \in Nat /\ Read = all + 1
    BY <1>4, <1>5, DupFrames
  <2>2. Read <= all
    BY <1>4 DEF UnderWay
  <2> QED BY <2>1, <2>2
<1>9. Scenario \notin {"takeover", "corrupt"}
  <2> SUFFICES ASSUME Scenario \in {"takeover", "corrupt"} PROVE FALSE
    OBVIOUS
  <2>1. PICK b \in Nat \ {0} : b = Before /\ TakenOver(Frames(Scenario), b)
    <3>1. Before = IF Scenario = "takeover" THEN Cut ELSE nframes
      BY DEF Before
    <3>2. Before \in Nat \ {0}
      BY <1>5, <3>1, SessionFrames
    <3>3. TakenOver(Frames(Scenario), Before)
      BY <1>5, <3>1, SessionFrames
    <3> QED BY <3>2, <3>3
  <2>2. Read = b + NumRows + 1
    BY <1>4, <2>1 DEF TakenOver
  <2>3. ~(Read <= Before) /\ Read - Before = NumRows + 1
    BY <1>5, <2>1, <2>2
  <2>4. Writing(NumRows + 1)
    BY <1>4, <2>3 DEF UnderWay
  <2> QED BY <1>5, <2>4 DEF Writing
<1>10. Scenario \in Rejected
  BY <1>4, <1>6, <1>7, <1>8, <1>9 DEF Names, Rejected
<1>11. Scenario \in {"wfail", "wrongbase"} => Untouched'
  <2>1. Scenario \in {"wfail", "wrongbase"} => Untouched
    BY <1>4 DEF UnderWay
  <2> QED BY <1>1, <1>2, <2>1 DEF Untouched
<1>12. AcksAsCounted'
  <2>1. CASE Scenario = "wrongfmt"
    <3>1. acks <= 1
      <4>1. acks <= (IF Read = 0 THEN 0 ELSE 1) /\ acks \in Nat
        BY <1>4, <2>1 DEF UnderWay, SimTypeOK
      <4> QED BY <4>1
    <3> QED BY <1>1, <1>2, <2>1, <3>1 DEF AcksAsCounted
  <2>2. CASE Scenario = "wfail"
    <3>1. acks = last + 1 /\ last <= Lead /\ last \in Int /\ Lead \in Nat
      BY <1>4, <2>2, WatchAssumption DEF UnderWay, Failing, SimTypeOK, WatchTypeOK, NoId
    <3>2. acks <= 4
      BY <3>1
    <3> QED BY <1>1, <1>2, <2>2, <3>2 DEF AcksAsCounted
  <2>3. CASE Scenario = "wrongbase"
    BY <1>2, <2>3 DEF AcksAsCounted
  <2> QED BY <1>10, <2>1, <2>2, <2>3 DEF Rejected
<1>13. EndsAsDemanded'
  BY <1>1, <1>2, <1>10, <1>11, <1>12 DEF EndsAsDemanded
<1> QED BY <1>1, <1>3, <1>13 DEF SimInv

\* A session begins: all its frames are queued, the watch waits for the first one.
Starting ==
    /\ rx = Frames(Scenario) /\ acks = 0 /\ written = 0 /\ result = "none"
    /\ wstate = "armed" /\ last = NoId /\ rebuilt = 0
    /\ decoder = IF Scenario \in {"full", "recovery"} THEN NoImage ELSE New
    /\ Scenario # "recovery" => flash = [r \in Rows |-> IF Scenario = "wrongbase" /\ r = 0 THEN Torn ELSE Ref]

LEMMA StartsInStep ==
    ASSUME SimTypeOK, Starting
    PROVE  SimInv
<1>1. Frames(Scenario) \in Seq(FrameRecord) /\ Len(Frames(Scenario)) \in Nat
  BY ScenarioFacts
<1>2. Read = 0
  BY <1>1 DEF Starting, Read
<1>3. RestQueued
  <2>1. \A i \in 1 .. Len(rx) : 0 + i = i
    BY <1>1 DEF Starting
  <2> QED BY <1>1, <1>2, <2>1 DEF Starting, RestQueued
<1>4. nframes \in Nat \ {0} /\ NumRows \in Nat \ {0} /\ Lead \in Nat /\ New \notin {NoImage, Torn, Dead}
  BY SimNumbers, WatchAssumption, ScenarioFacts
<1>5. InFlasher
  BY DEF Starting, InFlasher
<1>6. Scenario \in {"full", "recovery"} => Writing(0)
  BY <1>4, <1>5 DEF Starting, Writing, NoId
<1>7. Scenario \in {"clean", "dup"} => Patching(0)
  <2> SUFFICES ASSUME Scenario \in {"clean", "dup"} PROVE Patching(0)
    OBVIOUS
  <2>1. \A r \in Rows : flash[r] = Ref /\ ~(r < 0)
    BY <1>4 DEF Starting, Rows
  <2> QED BY <1>4, <1>5, <2>1 DEF Starting, Patching, NoId
<1>8. Fed(0) = 0 /\ Read <= (IF nframes > 1 THEN 2 * nframes ELSE 1) /\ acks = Read
  BY <1>2, <1>4 DEF Fed, Starting
<1>9. Scenario \in {"takeover", "corrupt"} => Parked /\ Read <= Before
  <2>1. Scenario \in {"takeover", "corrupt"} => Before \in Nat
    BY <1>4, SessionFrames DEF Before, SimTypeOK
  <2> QED BY <1>2, <1>4, <1>5, <2>1 DEF Starting, Parked
<1>10. Scenario = "wrongfmt" => Parked /\ acks <= (IF Read = 0 THEN 0 ELSE 1)
  BY <1>2, <1>4, <1>5 DEF Starting, Parked
<1>11. Scenario \in {"wfail", "wrongbase"} => Untouched
  BY DEF Starting, Untouched
<1>12. Scenario = "wfail" => Failing
  BY <1>2, <1>4, <1>5 DEF Starting, Failing, NoId
<1>13. Scenario = "wrongbase" => Gated
  BY <1>5 DEF Starting, Gated
<1>14. UnderWay
  BY <1>2, <1>6, <1>7, <1>8, <1>9, <1>10, <1>11, <1>12, <1>13 DEF UnderWay
<1> QED BY <1>3, <1>14, ScenarioFacts DEF SimInv, EndsAsDemanded, Starting

LEMMA Growth == \A m, n \in Nat : n >= m => n - m \in Nat
OBVIOUS

\* Each step keeps the types ...
LEMMA ReadTypes ==
    ASSUME SimTypeOK, NEW ack \in BOOLEAN, ReadFrame(ack)
    PROVE  SimTypeOK'
<1>1. /\ rx \in Seq(FrameRecord) /\ rx # <<>> /\ rx' = Tail(rx)
      /\ WatchTypeOK /\ acks \in Nat /\ written \in Nat /\ ultra \in BOOLEAN /\ nframes \in BodySizes
      /\ todo # <<>> /\ todo \in Seq({Scenarios[i] : i \in DOMAIN Scenarios})
  BY DEF SimTypeOK, ReadFrame, FrameRecord
<1>2. PICK f \in FrameRecord : f = Head(rx)
  BY <1>1
<1>3. /\ Dispatch(f, ack) /\ acks' = (IF ack THEN acks + 1 ELSE acks)
      /\ written' = written + RowsWritten(f, ack)
      /\ result' = (IF wstate' = "launcher" THEN "reboot" ELSE "none")
      /\ UNCHANGED <<ultra, nframes, middle, todo>>
  BY <1>2 DEF ReadFrame
<1>4. f.id \in Nat /\ f.img \in Images \cup {Torn} /\ f.kind \in {"block", "chunk", "exit", "other"}
  BY SimNumbers DEF FrameRecord, Garbage
<1>5. WatchTypeOK' /\ RowsWritten(f, ack) \in Nat
  <2>1. CASE f.kind = "block"
    <3>1. WriteSucceeds(f) \in BOOLEAN
      BY DEF WriteSucceeds
    <3>2. OnBlock(f.id, f.img, WriteSucceeds(f), ack)
      BY <1>3, <2>1 DEF Dispatch
    <3>3. WatchTypeOK'
      BY <1>1, <1>4, <3>1, <3>2, BlockTypes
    <3> QED BY <2>1, <3>3 DEF RowsWritten
  <2>2. CASE f.kind = "chunk"
    <3>1. PICK final \in BOOLEAN, gate \in BOOLEAN, wrote \in BOOLEAN :
            OnChunk(f.id, f.img, final, gate, wrote, ack)
      <4>1. Gate \in BOOLEAN /\ WriteSucceeds(f) \in BOOLEAN /\ (f.id = nframes - 1) \in BOOLEAN
        BY DEF Gate, WriteSucceeds
      <4>2. OnChunk(f.id, f.img, f.id = nframes - 1, Gate, WriteSucceeds(f), ack)
        BY <1>3, <2>2 DEF Dispatch
      <4> QED BY <4>1, <4>2
    <3>2. WatchTypeOK' /\ rebuilt' >= rebuilt
      BY <1>1, <1>4, <3>1, ChunkTypes
    <3>3. rebuilt \in Nat /\ rebuilt' \in Nat /\ rebuilt' >= rebuilt
      BY <1>1, <3>2, SimNumbers DEF WatchTypeOK
    <3>4. rebuilt' - rebuilt \in Nat
      BY <3>3, Growth
    <3> QED BY <2>2, <3>2, <3>4 DEF RowsWritten
  <2>3. CASE f.kind = "exit"
    <3>1. OnExit(f.img, Rows, ack)
      BY <1>3, <2>3 DEF Dispatch
    <3>2. WatchTypeOK'
      BY <1>1, <3>1, SimNumbers DEF OnExit, WatchTypeOK
    <3> QED BY <2>3, <3>2 DEF RowsWritten
  <2>4. CASE f.kind = "other"
    <3>1. UNCHANGED watchVars
      BY <1>3, <2>4 DEF Dispatch
    <3>2. WatchTypeOK'
      BY <1>1, <3>1 DEF watchVars, WatchTypeOK
    <3> QED BY <2>4, <3>2 DEF RowsWritten
  <2> QED BY <1>4, <2>1, <2>2, <2>3, <2>4
<1>6. rx' \in Seq(FrameRecord) /\ acks' \in Nat /\ written' \in Nat /\ result' \in {"none", "starved", "reboot"}
  <2>1. rx' \in Seq(FrameRecord)
    BY <1>1
  <2>2. acks' \in Nat /\ written' \in Nat
    BY <1>1, <1>3, <1>5
  <2> QED BY <1>3, <2>1, <2>2
<1>7. Scenarios' = Scenarios
  BY <1>3 DEF Scenarios
<1>8. todo' # <<>> /\ todo' \in Seq({Scenarios'[i] : i \in DOMAIN Scenarios'})
  BY <1>1, <1>3, <1>7
<1> QED BY <1>1, <1>3, <1>5, <1>6, <1>8 DEF SimTypeOK, FrameRecord

\* ... and each scenario begins as it should.
LEMMA ScenarioStep ==
    ASSUME SimTypeOK, NextScenario
    PROVE  SimTypeOK' /\ Starting'
<1> DEFINE S == {Scenarios[i] : i \in DOMAIN Scenarios}
           s == todo[2]
<1>1. /\ todo \in Seq(S) /\ Len(todo) > 1 /\ todo' = Tail(todo)
      /\ UNCHANGED <<ultra, nframes, middle>> /\ ultra \in BOOLEAN /\ nframes \in BodySizes
  BY DEF SimTypeOK, NextScenario
<1>2. S \subseteq Names
  BY <1>1, ScenarioNames
<1>3. S' = S
  BY <1>1 DEF Scenarios
<1> HIDE DEF S
<1>4. todo' \in Seq(S) /\ todo' # <<>> /\ Head(todo') = todo[2] /\ todo[2] \in S
  <2>1. todo # <<>> /\ Len(todo) \in Nat
    BY <1>1
  <2>2. Tail(todo) \in Seq(S) /\ Len(Tail(todo)) = Len(todo) - 1 /\ Tail(todo)[1] = todo[2]
    <3>1. /\ Tail(todo) \in Seq(S) /\ Len(Tail(todo)) = Len(todo) - 1
          /\ \A i \in 1 .. Len(Tail(todo)) : Tail(todo)[i] = todo[i + 1]
      BY <1>1, <2>1, HeadTailProperties
    <3>2. 1 \in 1 .. Len(Tail(todo)) /\ 1 + 1 = 2
      BY <1>1, <2>1, <3>1
    <3> QED BY <3>1, <3>2
  <2>3. todo' \in Seq(S) /\ todo' # <<>>
    <3>1. todo' = Tail(todo) /\ Len(todo) > 1
      BY <1>1
    <3>2. todo' \in Seq(S)
      BY <2>2, <3>1
    <3>3. Len(todo') # 0
      BY <2>1, <2>2, <3>1
    <3>4. todo' # <<>>
      BY <3>3
    <3> QED BY <3>2, <3>4
  <2>4. Head(todo') = todo'[1] /\ todo[2] \in S
    BY <1>1, <2>1, <2>3
  <2> QED BY <1>1, <2>2, <2>3, <2>4
<1>5. Scenario' = s /\ s \in Names
  BY <1>2, <1>4 DEF Scenario
<1>6. Frames(s) \in Seq(FrameRecord)
  BY <1>1, <1>5, FramesType
<1>7. /\ rx' = Frames(s) /\ acks' = 0 /\ written' = 0 /\ result' = "none"
      /\ wstate' = "armed" /\ last' = NoId /\ rebuilt' = 0
      /\ decoder' = (IF s \in {"full", "recovery"} THEN NoImage ELSE New)
      /\ flash' = FlashReset(s)
  BY DEF NextScenario, RunSession
<1>8. FlashReset(s) \in [Rows -> Images \cup {Torn}]
  BY SimNumbers DEF FlashReset, SimTypeOK, WatchTypeOK
<1>9. s # "recovery" => FlashReset(s) = [r \in Rows |-> IF s = "wrongbase" /\ r = 0 THEN Torn ELSE Ref]
  BY DEF FlashReset
<1> HIDE DEF s
<1>10. WatchTypeOK'
  <2>1. 0 \in 0 .. NumRows /\ New \in Images
    BY SimNumbers
  <2> QED BY <1>7, <1>8, <2>1 DEF WatchTypeOK
<1>11. SimTypeOK'
  <2>1. todo' \in Seq(S')
    BY <1>3, <1>4
  <2> QED BY <1>1, <1>4, <1>6, <1>7, <1>10, <2>1 DEF SimTypeOK, S, FrameRecord
<1>12. rx' = Frames(Scenario)'
  <2>1. Frames(Scenario)' = Frames(s)
    BY <1>1, <1>5 DEF Frames, HandedOff, Queue, BodyFrames, Chunks, Chunk, FinalAgain, Cut
  <2> QED BY <1>7, <2>1
<1>13. Starting'
  BY <1>5, <1>7, <1>9, <1>12 DEF Starting
<1> QED BY <1>11, <1>13

LEMMA SimStarts == SimInit => SimTypeOK /\ Starting
<1> SUFFICES ASSUME SimInit PROVE SimTypeOK /\ Starting
  OBVIOUS
<1> DEFINE S == {Scenarios[i] : i \in DOMAIN Scenarios}
<1>1. /\ ultra \in BOOLEAN /\ nframes \in BodySizes /\ middle \in Middles(nframes) /\ todo = Scenarios
      /\ rx = Frames("full") /\ acks = 0 /\ written = 0 /\ result = "none"
      /\ wstate = "armed" /\ last = NoId /\ decoder = NoImage /\ rebuilt = 0
      /\ flash = [r \in Rows |-> Ref]
  BY DEF SimInit
<1>2. Scenarios \in Seq(Names) /\ Scenarios # <<>> /\ Scenarios[1] = "full"
  BY <1>1, ScenarioNames
<1>3. todo \in Seq(S) /\ todo # <<>> /\ Scenario = "full"
  <2>1. Scenarios \in Seq(S)
    <3>1. Len(Scenarios) \in Nat /\ DOMAIN Scenarios = 1 .. Len(Scenarios)
          /\ Scenarios = [i \in 1 .. Len(Scenarios) |-> Scenarios[i]]
      BY <1>2
    <3>2. \A i \in 1 .. Len(Scenarios) : Scenarios[i] \in S
      BY <3>1
    <3> HIDE DEF S
    <3> QED BY <3>1, <3>2, IsASeq
  <2> QED BY <1>1, <1>2, <2>1 DEF Scenario
<1>4. Frames("full") \in Seq(FrameRecord)
  BY <1>1, FramesType DEF Names
<1>5. WatchTypeOK
  <2>1. 0 \in 0 .. NumRows /\ Ref \in Images
    BY SimNumbers
  <2> QED BY <1>1, <2>1 DEF WatchTypeOK
<1> HIDE DEF S
<1>6. SimTypeOK
  BY <1>1, <1>3, <1>4, <1>5 DEF SimTypeOK, S, FrameRecord
<1> QED BY <1>1, <1>3, <1>6 DEF Starting

LEMMA SimTypeStep == SimTypeOK /\ [SimNext]_simVars => SimTypeOK'
<1> SUFFICES ASSUME SimTypeOK, [SimNext]_simVars PROVE SimTypeOK'
  OBVIOUS
<1>1. CASE NextScenario
  BY <1>1, ScenarioStep
<1>2. ASSUME NEW ack \in BOOLEAN, ReadFrame(ack) PROVE SimTypeOK'
  BY <1>2, ReadTypes
<1>3. CASE Starve
  BY <1>3 DEF Starve, watchVars, SimTypeOK, WatchTypeOK, Scenarios
<1>4. CASE UNCHANGED simVars
  BY <1>4 DEF simVars, harnessVars, watchVars, SimTypeOK, WatchTypeOK, Scenarios
<1> QED BY <1>1, <1>2, <1>3, <1>4 DEF SimNext, Return

\* The simulator's types: whatever is queued, and however the watch answers it.
THEOREM SimTypeCorrect == SimSpec => []SimTypeOK
<1>1. SimInit => SimTypeOK
  BY SimStarts
<1> QED BY <1>1, SimTypeStep, PTL DEF SimSpec

\* Every session of the simulator ends as main demands, for every size of image and of
\* body and every pace of the decoder, if that makes its first row by its fourth
\* chunk and a row that fails is left as it was (g_writes_fail).
THEOREM SessionsEndAsDemanded ==
    ASSUME Lead <= 3, Damage \subseteq {FALSE}
    PROVE  SimSpec => []EndsAsDemanded
<1> DEFINE Ok == SimTypeOK /\ (Starting \/ SimInv)
<1>1. SimInit => Ok
  BY SimStarts
<1>2. Ok /\ [SimNext]_simVars => Ok'
  <2> SUFFICES ASSUME SimTypeOK, SimInv, [SimNext]_simVars PROVE Starting' \/ SimInv'
    BY StartsInStep, SimTypeStep
  <2>1. CASE NextScenario
    BY <2>1, ScenarioStep
  <2>2. ASSUME NEW ack \in BOOLEAN, ReadFrame(ack) PROVE SimInv'
    BY <2>2, ReadStep
  <2>3. CASE Starve
    BY <2>3, StarveStep
  <2>4. CASE UNCHANGED simVars
    <3>1. /\ UNCHANGED <<ultra, nframes, middle, todo, rx, acks, written, result>>
          /\ UNCHANGED <<wstate, last, decoder, rebuilt, flash>>
      BY <2>4 DEF simVars, harnessVars, watchVars
    <3>2. Scenario' = Scenario /\ Frames(Scenario)' = Frames(Scenario)
      BY <3>1, SameFrames
    <3>3. Read' = Read /\ Before' = Before
      BY <3>1, <3>2 DEF Read, Before, Cut
    <3>4. RestQueued'
      BY <3>1, <3>2, <3>3 DEF SimInv, RestQueued
    <3>5. UnderWay => UnderWay'
      BY <3>1, <3>2, <3>3 DEF UnderWay, Writing, Patching, Parked, Failing, Gated, Untouched, Fed, InFlasher
    <3>6. EndsAsDemanded'
      BY <3>1, <3>2 DEF SimInv, EndsAsDemanded, Untouched, AcksAsCounted, Holds
    <3> QED BY <3>1, <3>2, <3>4, <3>5, <3>6 DEF SimInv
  <2> QED BY <2>1, <2>2, <2>3, <2>4 DEF SimNext, Return
<1>3. Ok => EndsAsDemanded
  BY StartsInStep DEF SimInv
<1> QED BY <1>1, <1>2, <1>3, PTL DEF SimSpec
====
