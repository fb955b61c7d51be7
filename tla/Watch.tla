---- MODULE Watch ----
(***************************************************************************)
(* The watch's flasher face, as its callers know it. Its firmware is       *)
(* another repository: this is what README.md 188-238, the comments of     *)
(* firmware_flasher.py and the expectations of flasher-sim/harness.c say   *)
(* of it. FlashSession drives it as the tool does, FlasherSim as the       *)
(* simulator does.                                                         *)
(*                                                                         *)
(* A patch chunk is answered when the decoder takes it; the rows it makes  *)
(* of what it has been fed come at a pace of its own, and a row that fails *)
(* then leaves the watch parked with a chunk already answered.             *)
(***************************************************************************)
EXTENDS Integers, FiniteSets

CONSTANTS
    NumRows, \* rows of an image
    Images,  \* firmware images
    Lead,    \* chunks the decoder may take before it makes its first row
    Damage   \* whether a row write that fails may leave the row torn

Rows == 0 .. (NumRows - 1)

NoId == -1
NoImage == "none"
Torn == "torn" \* a row half written, or made from the wrong patch; a decoder fed with one
Dead == "dead" \* a decoder that gave up

ASSUME WatchAssumption ==
    /\ NumRows \in Nat \ {0} /\ Lead \in Nat /\ Damage \subseteq BOOLEAN
    /\ Images \cap {NoImage, Torn, Dead} = {}

VARIABLES
    wstate,  \* "launcher", "test", "armed" or "flasher"
    last,    \* the id it took last, or NoId
    decoder, \* the image its patch decoder is rebuilding; NoImage, Torn or Dead
    rebuilt, \* rows the decoder has made
    flash    \* its rows

watchVars == <<wstate, last, decoder, rebuilt, flash>>

WatchTypeOK ==
    /\ wstate \in {"launcher", "test", "armed", "flasher"}
    /\ last \in {NoId} \cup Nat
    /\ decoder \in Images \cup {NoImage, Torn, Dead} /\ rebuilt \in 0 .. NumRows
    /\ flash \in [Rows -> Images \cup {Torn}]

Holds(i, rows) == \A r \in rows : flash[r] = i
InFlasher == wstate \in {"armed", "flasher"}
Repeat(id) == wstate = "flasher" /\ id = last

OnTest(ack) == ack = (wstate = "test") /\ UNCHANGED watchVars

\* ENTER drops the watch out of its test stage and is answered again while it
\* waits; a patch's only if the flash is the reference.
OnEnter(patch, ref, img, ack) ==
    /\ ack = (wstate \in {"test", "armed"} /\ (patch => Holds(ref, Rows)))
    /\ wstate' = IF ack THEN "armed" ELSE wstate
    /\ decoder' = IF ack THEN (IF patch THEN img ELSE NoImage) ELSE decoder
    /\ rebuilt' = IF ack THEN 0 ELSE rebuilt
    /\ last' = IF ack THEN NoId ELSE last
    /\ UNCHANGED flash

WriteRow(r, content, wrote) ==
    IF wrote THEN flash' = [flash EXCEPT ![r] = content]
    ELSE \E hurt \in Damage : flash' = IF hurt THEN [flash EXCEPT ![r] = Torn] ELSE flash

OnlyOverBlocks(id) == id = 0 /\ decoder = NoImage
TakesOver(id) == id = 0

\* A block: a repeat is answered and not written; the next one, or id 0 at any
\* time, is written; any other is ignored. A write that fails is not answered.
OnBlock(id, img, wrote, ack) ==
    \/ InFlasher /\ Repeat(id) /\ decoder = NoImage /\ ack /\ UNCHANGED watchVars
    \/ /\ InFlasher /\ ~(Repeat(id) /\ decoder = NoImage)
       /\ TakesOver(id) \/ (decoder = NoImage /\ id = last + 1)
       /\ ack = wrote /\ WriteRow(id, img, wrote)
       /\ last' = IF wrote THEN id ELSE last
       /\ wstate' = "flasher" /\ decoder' = NoImage /\ rebuilt' = 0
    \/ /\ ~ack /\ UNCHANGED watchVars
       /\ InFlasher => ~TakesOver(id) /\ (decoder # NoImage \/ id \notin {last, last + 1})

\* How many rows there may be when chunk id is taken: the last one completes them.
PaceBeyond(id, final) == {n + 1 : n \in rebuilt .. NumRows}
Pace(id, final) == {n \in rebuilt .. NumRows : (final <=> n = NumRows) /\ (id >= Lead => n > 0)}

\* The decoder goes on, or gives up: at a row that fails, where its check of the
\* source fails (gate), or over data that is not its patch's.
Decode(id, img, final, gate, wrote) ==
    LET content == IF img = decoder THEN img ELSE Torn
    IN  \/ \E n \in Pace(id, final) :
              /\ n > rebuilt => gate /\ wrote
              /\ rebuilt' = n /\ decoder' = content
              /\ flash' = [r \in Rows |-> IF r \in rebuilt .. (n - 1) THEN content ELSE flash[r]]
        \/ /\ ~gate \/ ~wrote \/ content = Torn
           /\ decoder' = Dead /\ UNCHANGED rebuilt
           /\ IF gate /\ ~wrote THEN WriteRow(rebuilt, content, FALSE) ELSE UNCHANGED flash

\* A patch chunk: a repeat is answered, even after the last one; the next one is
\* answered and fed to the decoder while that lives; any other is ignored.
OnChunk(id, img, final, gate, wrote, ack) ==
    \/ InFlasher /\ Repeat(id) /\ decoder # NoImage /\ ack /\ UNCHANGED watchVars
    \/ /\ InFlasher /\ ~Repeat(id) /\ decoder \notin {NoImage, Dead} /\ id = last + 1
       /\ rebuilt < NumRows
       /\ ack /\ last' = id /\ wstate' = "flasher"
       /\ Decode(id, img, final, gate, wrote)
    \/ /\ ~ack /\ UNCHANGED watchVars
       /\ InFlasher /\ decoder # NoImage =>
            ~Repeat(id) /\ (id = last + 1 => decoder = Dead \/ rebuilt = NumRows)

\* EXIT: the watch reboots if the described rows verify, and stays parked if not.
OnExit(img, rows, ack) ==
    /\ ack = (wstate = "flasher" /\ Holds(img, rows))
    /\ wstate' = IF ack THEN "launcher" ELSE wstate
    /\ last' = IF ack THEN NoId ELSE last
    /\ decoder' = IF ack THEN NoImage ELSE decoder
    /\ rebuilt' = IF ack THEN 0 ELSE rebuilt
    /\ UNCHANGED flash
====
