---- MODULE MCHandshake ----
(***************************************************************************)
(* Payloads for model checking: one of three chunks with AUTO_RX and with  *)
(* a start byte among its data, one of a single chunk without AUTO_RX.     *)
(***************************************************************************)
EXTENDS Handshake

FramePayloads == {<<1, 7, 7, 7, 165, 4, 0, 0, 7, 7, 7, 7, 7, 165, 5>>, <<0, 7>>}
====
