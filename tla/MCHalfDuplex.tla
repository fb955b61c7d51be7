---- MODULE MCHalfDuplex ----
(***************************************************************************)
(* The blobs for model checking: every byte of two bits, and two bytes     *)
(* whose stop and start bits meet a cell of either level on both sides.    *)
(***************************************************************************)
EXTENDS HalfDuplex

SomeBlobs ==
    { << <<0, 0>> >>, << <<1, 1>> >>, << <<0, 1>>, <<1, 0>> >>, << <<1, 0>>, <<0, 1>> >> }
====
