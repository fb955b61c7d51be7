---- MODULE MCFrameParser ----
(***************************************************************************)
(* Frames for model checking: the shortest, one whose id and payload are   *)
(* pieces of the preamble, and one of the greatest length, whose payload   *)
(* is a preamble and a header that is refused, by one, for its length.     *)
(***************************************************************************)
EXTENDS FrameParser

LOCAL INSTANCE SequencesExt

Wire(i, fl, p) == [id |-> i, flags |-> fl, payload |-> p]

WireFrames ==
    { Wire(3, 0, <<>>),
      Wire(AA + 256 * FiveFive, 1, <<AA, FiveFive, AA>>),
      Wire(5, 63, Preamble \o <<1, 0, MaxPayload + 1, 0>>) }

\* The hypothesis of LossBounded holds of them. It would not with a length that is allowed:
\* a parser that is out of step takes that payload for a frame, and the next one's again.
ASSUME WireFramesAreApart == Frames = WireFrames => NoFalsePreamble

\* All that counts here of zlib.crc32 is that it tells apart what a few faults make
\* of a frame, which two residues of the bytes read as a number do as well.
Residue(bytes, base, mod) == FoldLeft(LAMBDA c, b : (c * base + b + 1) % mod, 0, bytes)
TwoResidues(bytes) ==
    Word(Residue(bytes, 31337, 65521)) \o Word(Residue(bytes, 30011, 65519))
====
