---- MODULE StopAndWait ----
(***************************************************************************)
(* What the optical link promises the tools on the PC: frames are credited *)
(* one at a time, in order, and a frame is credited only after the watch   *)
(* has taken it (README "The acknowledgement", 175-181).                   *)
(***************************************************************************)
EXTENDS Naturals

CONSTANT NumFrames

VARIABLES credited, \* how many frames the host counts as acknowledged
          taken     \* the frames the watch has received intact

Init == /\ credited = 0
        /\ taken = {}

\* The watch takes the frame the host is working on (again, after a lost ACK).
Take == /\ credited < NumFrames
        /\ taken' = taken \cup {credited}
        /\ UNCHANGED credited

\* The host counts the frame as delivered: the watch has it.
Credit == /\ credited \in taken
          /\ credited' = credited + 1
          /\ UNCHANGED taken

Next == Take \/ Credit

Spec == Init /\ [][Next]_<<credited, taken>>
====
