---- MODULE FlasherSim ----
(***************************************************************************)
(* flasher-sim/harness.c: the watch's flasher run on a host against queued *)
(* frames, one session per scenario of main. It runs the very Watch that   *)
(* FlashSession assumes, so that what main demands of the real code is     *)
(* demanded of the model, at every pace of the patch decoder.              *)
(*                                                                         *)
(* The scenarios that differ from the clean patch only in where the watch  *)
(* keeps its RAM (first frame aliased, shift in flash) are left out.       *)
(***************************************************************************)
EXTENDS Watch, Sequences

CONSTANTS
    Ref, New,  \* ref.bin and new.bin
    BodySizes  \* frames body.bin may take: nframes

ASSUME SimAssumption == {Ref, New} \subseteq Images /\ Ref # New /\ BodySizes \subseteq Nat \ {0}

VARIABLES
    ultra,    \* built with FIRMWARE_FLASHER_ULTRAPATCH
    nframes,
    middle,   \* the frame that holds the byte at body_len / 2
    todo,     \* scenarios still to run; the first is under way
    rx,       \* g_rx from g_rx_pos on, the handed-off frame before it
    acks,     \* g_ack_n
    written,  \* g_rows_written
    result    \* "none", "starved" or "reboot"

harnessVars == <<ultra, nframes, middle, todo, rx, acks, written, result>>
simVars == <<harnessVars, watchVars>>

Garbage == Torn \* what a corrupt byte makes of a chunk

-----------------------------------------------------------------------------
(* Frames                                                                  *)

Frame(kind, id, img) == [kind |-> kind, id |-> id, img |-> img]
ExitFrame == Frame("exit", 0, New)

\* queue_full_flash: every row, then the EXIT.
FullFlash == [i \in 1 .. NumRows |-> Frame("block", i - 1, New)] \o <<ExitFrame>>

\* The chunks first .. end - 1 of a body, each sent dups extra times; the one in the
\* middle may be corrupt. A frame of the other dialect has kind "other".
Chunk(kind, i, bad) == Frame(kind, i, IF bad /\ i = middle THEN Garbage ELSE New)
Chunks(kind, first, end, bad, dups) ==
    [i \in 1 .. (end - first) * (dups + 1) |-> Chunk(kind, first + (i - 1) \div (dups + 1), bad)]
BodyFrames(kind, bad, dups) == Chunks(kind, 1, nframes, bad, dups)

FinalAgain == IF nframes > 1 THEN <<Chunk("chunk", nframes - 1, FALSE)>> ELSE <<>>
Cut == IF nframes > 4 THEN 4 ELSE IF nframes > 1 THEN nframes - 1 ELSE 1

\* What is queued after the handed-off frame.
Queue(s) ==
    CASE s = "full" \/ s = "recovery" -> Tail(FullFlash)
      [] s = "clean"     -> BodyFrames("chunk", FALSE, 0) \o <<ExitFrame>>
      [] s = "dup"       -> BodyFrames("chunk", FALSE, 1) \o FinalAgain \o <<ExitFrame>>
      [] s = "takeover"  -> Chunks("chunk", 1, Cut, FALSE, 0) \o FullFlash
      [] s = "corrupt"   -> BodyFrames("chunk", TRUE, 0) \o FullFlash
      [] s = "wrongfmt"  -> BodyFrames("other", FALSE, 0)
      [] OTHER           -> BodyFrames("chunk", FALSE, 0)

HandedOff(s) ==
    IF s \in {"full", "recovery"} THEN Head(FullFlash) ELSE Chunk("chunk", 0, s = "corrupt")

Frames(s) == <<HandedOff(s)>> \o Queue(s)

-----------------------------------------------------------------------------
(* A session                                                               *)

Scenarios ==
    <<"full", "clean", "dup", "takeover", "corrupt", "wrongfmt", "wfail", "recovery">>
        \o (IF ultra THEN <<"wrongbase">> ELSE <<>>)
Scenario == Head(todo)

\* flash_reset; the recovery goes on with the flash as it is, and one byte of the
\* wrong base is not the reference's.
FlashReset(s) ==
    [r \in Rows |-> IF s = "recovery" THEN flash[r]
                    ELSE IF s = "wrongbase" /\ r = 0 THEN Torn ELSE Ref]

\* rx_clear, run_session: the watch enters its flasher with the first frame.
RunSession(s) ==
    /\ rx' = Frames(s)
    /\ acks' = 0 /\ written' = 0 /\ result' = "none"
    /\ wstate' = "armed" /\ last' = NoId /\ rebuilt' = 0
    /\ decoder' = IF s \in {"full", "recovery"} THEN NoImage ELSE New
    /\ flash' = FlashReset(s)

NextScenario ==
    /\ result # "none" /\ Len(todo) > 1
    /\ todo' = Tail(todo) /\ RunSession(todo[2])
    /\ UNCHANGED <<ultra, nframes, middle>>

\* firmware_flasher_write_row: g_writes_fail, then the row is where it belongs.
WriteAnyway(frame) == TRUE
WriteSucceeds(frame) ==
    Scenario # "wfail" /\ (frame.kind = "block" => frame.id \in Rows)

\* UltraPatch checks its source before the first row; detools leaves that to ENTER.
Gate == ultra /\ rebuilt = 0 => Holds(Ref, Rows)

Dispatch(frame, ack) ==
    CASE frame.kind = "block" -> OnBlock(frame.id, frame.img, WriteSucceeds(frame), ack)
      [] frame.kind = "chunk" ->
            OnChunk(frame.id, frame.img, frame.id = nframes - 1, Gate, WriteSucceeds(frame), ack)
      [] frame.kind = "exit"  -> OnExit(frame.img, Rows, ack)
      [] OTHER                -> ~ack /\ UNCHANGED watchVars

RowsWritten(frame, ack) ==
    CASE frame.kind = "block" /\ ack /\ ~(Repeat(frame.id) /\ decoder = NoImage) -> 1
      [] frame.kind = "chunk" -> rebuilt' - rebuilt
      [] OTHER -> 0

\* rx_read_byte until a frame is whole, then what the watch makes of it: send_ack, host_reboot.
ReadFrame(ack) ==
    /\ result = "none" /\ rx # <<>>
    /\ Dispatch(Head(rx), ack)
    /\ rx' = Tail(rx)
    /\ acks' = IF ack THEN acks + 1 ELSE acks
    /\ written' = written + RowsWritten(Head(rx), ack)
    /\ result' = IF wstate' = "launcher" THEN "reboot" ELSE "none"
    /\ UNCHANGED <<ultra, nframes, middle, todo>>

\* wfi_standby: the stream has drained.
Starve ==
    /\ result = "none" /\ rx = <<>>
    /\ result' = "starved"
    /\ UNCHANGED <<ultra, nframes, middle, todo, rx, acks, written, watchVars>>

\* An even number of frames has its middle at the end of the first half, unless the last
\* frame is a full one.
Middles(n) == {(n - 1) \div 2, n \div 2}

SimInit ==
    /\ ultra \in BOOLEAN /\ nframes \in BodySizes /\ middle \in Middles(nframes)
    /\ todo = Scenarios
    /\ rx = Frames("full")
    /\ acks = 0 /\ written = 0 /\ result = "none"
    /\ wstate = "armed" /\ last = NoId /\ decoder = NoImage /\ rebuilt = 0
    /\ flash = [r \in Rows |-> Ref]

\* main returns after the last scenario.
Return == result # "none" /\ Len(todo) = 1 /\ UNCHANGED simVars

SimNext == NextScenario \/ (\E ack \in BOOLEAN : ReadFrame(ack)) \/ Starve \/ Return

SimSpec == SimInit /\ [][SimNext]_simVars

-----------------------------------------------------------------------------
(* Properties                                                              *)

SimTypeOK ==
    /\ WatchTypeOK
    /\ ultra \in BOOLEAN /\ nframes \in BodySizes /\ middle \in Middles(nframes)
    /\ todo # <<>> /\ todo \in Seq({Scenarios[i] : i \in DOMAIN Scenarios})
    /\ rx \in Seq([kind : {"block", "chunk", "exit", "other"}, id : Nat, img : {New, Garbage}])
    /\ acks \in Nat /\ written \in Nat /\ result \in {"none", "starved", "reboot"}

Rejected == {"wrongfmt", "wfail", "wrongbase"}

\* Every session ends as main demands: the good ones, the mid-apply takeover and the
\* recoveries reboot into the new image; another dialect, a wrong base and rows that
\* fail starve, the last two with the flash as it was. And every frame is answered as
\* often as main counts: with every chunk sent twice and the last once more, 2 * nframes
\* + 1 ACKs; in another dialect the first frame's at most; at most four before a decoder
\* whose rows fail gives up (harness.c 287-433).
Untouched == written = 0 /\ flash = [r \in Rows |-> IF r = 0 /\ Scenario = "wrongbase" THEN Torn ELSE Ref]
AcksAsCounted ==
    CASE Scenario = "dup" -> acks = IF nframes > 1 THEN 2 * nframes + 1 ELSE 2
      [] Scenario = "wrongfmt" -> acks <= 1
      [] Scenario = "wfail" -> acks <= 4
      [] OTHER -> TRUE
EndsAsDemanded ==
    result # "none" =>
        /\ (result = "starved") = (Scenario \in Rejected)
        /\ result = "reboot" => Holds(New, Rows)
        /\ Scenario \in {"wfail", "wrongbase"} => Untouched
        /\ AcksAsCounted
====
