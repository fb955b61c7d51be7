---- MODULE MCDigitalRx ----
(***************************************************************************)
(* The receivers for model checking, each with the gaps between characters *)
(* it is built for. With NRZ any gap that keeps the stop bit's centre; with*)
(* IrDA the XIAO and the ESP32 need the start edge clear of the compare.   *)
(* The XIAO receives NRZ as it is shipped, and with RX_NRZ_RESYNC set.     *)
(***************************************************************************)
EXTENDS DigitalRx

Receiver(b, e, g) == [board |-> b, enc |-> e, gaps |-> g, resync |-> FALSE]
Resyncing(f) == [f EXCEPT !.resync = TRUE]

Slips == {-1, 0, 1}

SoundFronts ==
    { Receiver("samd21", "nrz", {0, 3}),
      Resyncing(Receiver("samd21", "nrz", {0, 3})),
      Receiver("uno", "nrz", {0, 3}),
      Receiver("samd21", "irda", {-2, 3}),
      Receiver("uno", "irda", {-2, 0, 3}),
      Receiver("esp32c3", "irda", {1, 3}) }

BackToBackXiao == { Receiver("samd21", "irda", {0}) }
Esp32Nrz == { Receiver("esp32c3", "nrz", {0, 3}) }
====
