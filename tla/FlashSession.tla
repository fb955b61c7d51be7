---- MODULE FlashSession ----
(***************************************************************************)
(* Flashing the watch: the sessions of firmware_flasher.py (full and patch,*)
(* fresh, partial and resumed, interrupted anywhere) with the RAM-resident *)
(* flasher of the watch, over a link that loses frames and echoes. AckLink *)
(* shows that a credited frame was taken; here an exchange is one step: the*)
(* frame is lost, or the watch handles it and its echo is lost or not.     *)
(***************************************************************************)
EXTENDS Watch

CONSTANTS
    Factory,    \* the image on the watch at first
    NumChunks,  \* chunks of a patch
    TestBlocks, \* --test-blocks
    Retries,    \* --retries, for the link test and the EXIT
    MaxRuns     \* bound: runs of the tool

ASSUME SessionAssumption ==
    /\ NumChunks \in 1 .. NumRows
    /\ Factory \in Images
    /\ TestBlocks \in 1 .. NumRows
    /\ Retries \in Nat /\ MaxRuns \in Nat

VARIABLES
    pc,        \* the tool: which stage, or "idle" or "done"
    run,       \* its arguments
    cur,       \* the frame it is working on
    tries,     \* retransmissions of it, where they are limited
    runs       \* runs started

hostVars == <<pc, run, cur, tries, runs>>
vars == <<hostVars, watchVars>>

\* A run sends blocks start .. end - 1 of img. A fresh run links, arms and starts
\* at 0; --start-block skips that. A patch is made against ref.
Run(i, p, r, a, s, e) ==
    [img |-> i, patch |-> p, ref |-> r, arm |-> a, start |-> s, end |-> e]

FullRuns ==
    {Run(i, FALSE, i, TRUE, 0, e) : i \in Images, e \in 1 .. NumRows}
        \cup {Run(i, FALSE, i, FALSE, s, e) : i \in Images, s \in Rows, e \in 1 .. NumRows}
PatchRuns ==
    {Run(i, TRUE, r, TRUE, 0, NumChunks) : i \in Images, r \in Images}
        \cup {Run(i, TRUE, r, FALSE, s, NumChunks) : i \in Images, r \in Images, s \in 0 .. (NumChunks - 1)}
Runs == {r \in FullRuns : r.start < r.end} \cup {r \in PatchRuns : r.img # r.ref}

TypeOK ==
    /\ pc \in {"idle", "test", "confirm", "enter", "stream", "exit", "ask", "done"}
    /\ run \in Runs /\ cur \in 0 .. NumRows /\ tries \in 0 .. Retries
    /\ runs \in 0 .. MaxRuns
    /\ WatchTypeOK
    /\ pc = "stream" => cur \in run.start .. (run.end - 1)

Init ==
    /\ pc = "idle" /\ cur = 0 /\ tries = 0 /\ runs = 0
    /\ run = Run(Factory, FALSE, Factory, TRUE, 0, NumRows)
    /\ wstate = "launcher" /\ last = NoId /\ decoder = NoImage /\ rebuilt = 0
    /\ flash = [r \in Rows |-> Factory]

-----------------------------------------------------------------------------
(* The user of the watch                                                   *)

\* The user opens and leaves the watch's TEST mode.
UserTest ==
    /\ wstate = "launcher" /\ wstate' = "test"
    /\ UNCHANGED <<last, decoder, rebuilt, flash, hostVars>>
UserLeave ==
    /\ wstate = "test" /\ wstate' = "launcher"
    /\ UNCHANGED <<last, decoder, rebuilt, flash, hostVars>>

-----------------------------------------------------------------------------
(* The tool                                                                *)

\* send_frame_and_wait_ack, as seen from the session: does the tool get the ACK?
Exchange(Watch(_), got) ==
    \/ ~got /\ UNCHANGED watchVars              \* the frame is lost
    \/ ~got /\ \E ack \in BOOLEAN : Watch(ack)  \* silence, or the echo is lost
    \/ got /\ Watch(TRUE)

StartRun(r) ==
    /\ pc \in {"idle", "done"} /\ runs < MaxRuns
    /\ runs' = runs + 1
    /\ run' = r /\ cur' = r.start /\ tries' = 0
    /\ pc' = IF r.arm THEN "test" ELSE "confirm"
    /\ UNCHANGED watchVars

\* run_test_stage: limited retransmissions, then sys.exit.
TestFrame(got) ==
    /\ pc = "test"
    /\ Exchange(OnTest, got)
    /\ \/ got /\ tries' = 0 /\ IF cur + 1 = TestBlocks
                               THEN pc' = "confirm" /\ cur' = run.start
                               ELSE UNCHANGED pc /\ cur' = cur + 1
       \/ ~got /\ tries < Retries /\ tries' = tries + 1 /\ UNCHANGED <<pc, cur>>
       \/ ~got /\ tries = Retries /\ pc' = "idle" /\ UNCHANGED <<tries, cur>>
    /\ UNCHANGED <<run, runs>>

\* The point of no return.
Confirm(yes) ==
    /\ pc = "confirm"
    /\ pc' = CASE yes /\ run.arm -> "enter" [] yes /\ ~run.arm -> "stream" [] OTHER -> "idle"
    /\ UNCHANGED <<run, cur, tries, runs, watchVars>>

\* send_enter: retransmitted for ever.
Enter(got) ==
    /\ pc = "enter"
    /\ LET W(ack) == OnEnter(run.patch, run.ref, run.img, ack) IN Exchange(W, got)
    /\ pc' = IF got THEN "stream" ELSE "enter"
    /\ UNCHANGED <<run, cur, tries, runs>>

\* A row write may fail. The source was checked at ENTER: the decoder's gate is open.
OnData(ack) ==
    \E wrote \in BOOLEAN :
        IF run.patch THEN OnChunk(cur, run.img, cur + 1 = NumChunks, TRUE, wrote, ack)
        ELSE OnBlock(cur, run.img, wrote, ack)

FrameAfterNext == cur + 2
NextFrame == cur + 1

\* stream_frames: each retransmitted for ever.
Stream(got) ==
    /\ pc = "stream"
    /\ Exchange(OnData, got)
    /\ cur' = IF got THEN NextFrame ELSE cur
    /\ pc' = IF got /\ cur' >= run.end THEN "exit" ELSE "stream"
    /\ tries' = 0
    /\ UNCHANGED <<run, runs>>

SentRows == run.start .. (run.end - 1)
Described == Rows

\* send_exit_verify: the descriptor covers the whole image whatever was sent.
Exit(got) ==
    /\ pc = "exit"
    /\ LET W(ack) == OnExit(run.img, Described, ack) IN Exchange(W, got)
    /\ \/ got /\ pc' = "done" /\ UNCHANGED tries
       \/ ~got /\ tries < Retries /\ tries' = tries + 1 /\ UNCHANGED pc
       \/ ~got /\ tries = Retries /\ pc' = "ask" /\ UNCHANGED tries
    /\ UNCHANGED <<run, cur, runs>>

WhereItWas == cur
FirstAgain == run.start

\* No EXIT ACK: resend from the top if the run began at 0, or follow a patch by a
\* full flash; otherwise, or if the user will not, the run ends.
Restartable == run.patch \/ run.start = 0

Resend ==
    /\ pc = "ask" /\ Restartable
    /\ run' = IF run.patch THEN Run(run.img, FALSE, run.img, FALSE, 0, NumRows) ELSE run
    /\ cur' = IF run.patch THEN 0 ELSE FirstAgain
    /\ pc' = IF cur' >= run'.end THEN "exit" ELSE "stream"
    /\ tries' = 0
    /\ UNCHANGED <<runs, watchVars>>

GiveUp ==
    /\ pc = "ask"
    /\ pc' = "idle"
    /\ UNCHANGED <<run, cur, tries, runs, watchVars>>

\* Ctrl-C.
Interrupt ==
    /\ pc \notin {"idle", "done", "ask"}
    /\ pc' = "idle"
    /\ UNCHANGED <<run, cur, tries, runs, watchVars>>

Next ==
    \/ \E r \in Runs : StartRun(r)
    \/ \E got \in BOOLEAN : TestFrame(got)
    \/ \E yes \in BOOLEAN : Confirm(yes)
    \/ \E got \in BOOLEAN : Enter(got)
    \/ \E got \in BOOLEAN : Stream(got)
    \/ \E got \in BOOLEAN : Exit(got)
    \/ Resend \/ GiveUp \/ Interrupt
    \/ UserTest \/ UserLeave

Spec == Init /\ [][Next]_vars

\* The tool goes on, the user answers, and the link is poor but not dead: of
\* infinitely many frames the watch would answer, one is and the echo arrives.
FairSpec ==
    /\ Spec
    /\ WF_vars(Resend \/ GiveUp)
    /\ WF_vars(\E got \in BOOLEAN : Stream(got) \/ Exit(got))
    /\ SF_vars(Stream(TRUE)) /\ SF_vars(Exit(TRUE))

-----------------------------------------------------------------------------
(* Properties                                                              *)

\* The watch never runs a half-written image, whatever was partial, resumed,
\* interrupted or torn (README.md:224-231).
NeverRunsMixture == wstate \in {"launcher", "test"} => \E i \in Images : Holds(i, Rows)

\* "verify OK ... done": the watch has left its flasher with the whole new image.
SuccessIsWhole == [][pc # "done" /\ pc' = "done" => wstate' = "launcher" /\ Holds(run.img, Rows)]_vars

\* "No EXIT ACK. Either the CRC did not match (the watch is still in its flasher), or
\* it verified OK and already rebooted into the new firmware" (flash_stage, 526-530):
\* the user is told the truth, also after resends, a patch, a run resumed in mid-image.
NoAckTold == pc = "ask" => InFlasher \/ (wstate \in {"launcher", "test"} /\ Holds(run.img, Rows))

\* After its first ACK a pass never loses step with the watch: what it sends next is
\* the watch's next id or a repeat. (Only a patch whose decoder gave up after its
\* answer is sent in vain, until the user stops it: the watch is parked then.)
StreamInStep ==
    pc = "stream" /\ cur > run.start => wstate = "flasher" /\ last \in {cur - 1, cur}

\* The first frame of a run that did not arm the watch may be taken for a repeat of
\* an earlier run's, of another image, and be answered without being written.
FirstRepeats == IF run.arm THEN 0 ELSE 1

\* A block's ACK means its row is written: every block this pass has an ACK for is in
\* the flash, but for such a first one (the EXIT check has to catch that one). Of a
\* patch, the rows its decoder has made are in the flash, as long as it lives.
AckedRowsHold ==
    /\ pc = "stream" /\ ~run.patch =>
        \A r \in (run.start + FirstRepeats) .. (cur - 1) : flash[r] = run.img
    /\ decoder \in Images => Holds(decoder, 0 .. (rebuilt - 1))

\* A watch parked in its flasher can always be recovered: a pass from block 0 leads
\* to a reboot into the new image, unless the user stops it (README.md:233-238).
RestartRecovers ==
    (pc = "stream" /\ ~run.patch /\ run.start = 0 /\ run.end = NumRows /\ InFlasher)
        ~> (wstate = "launcher" \/ pc = "idle")
====
