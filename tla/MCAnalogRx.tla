---- MODULE MCAnalogRx ----
(***************************************************************************)
(* Boards, encodings, contrasts, gaps, slow edges and shifts of ambient    *)
(* light for model checking the analog receiver.                           *)
(***************************************************************************)
EXTENDS AnalogRx

Receiver(b, e, g, d, l, lags, a, s) ==
    { [board |-> b, enc |-> e, gaps |-> g, dark |-> d, light |-> l, lag |-> k, ambients |-> a, strays |-> s]
      : k \in lags }

NoSlip == {0}
Halves == {0, 1, 2}

\* Stray light that is no start bit: shorter than its sample, or longer than a byte.
Strays == {0, 3, 5, 31, 40, 200}

AnalogFronts == UNION
    { Receiver("samd21", "nrz", {0, 40}, 3000, 2600, Halves, {0}, {0}),
      Receiver("samd21", "irda", {0, 40}, 3000, 2600, Halves, {0}, {0}),
      Receiver("samd21", "nrz", {-1}, 3000, 1000, Halves, {0}, {0}),
      Receiver("samd21", "irda", {3}, 3000, 2600, {1}, {-25, 0, 25}, {0}),
      Receiver("samd21", "nrz", {3}, 3000, 2900, {1}, {-25, 0, 25}, {0}),
      Receiver("samd21", "nrz", {3}, 3000, 2600, {1}, {0}, Strays),
      Receiver("uno", "nrz", {0, 40}, 800, 700, {1}, {0}, {0}),
      Receiver("uno", "irda", {0, 40}, 800, 700, {1}, {0}, {0, 31, 200}),
      Receiver("esp32c3", "nrz", {0, 40}, 3900, 3530, Halves, {0}, {0}),
      Receiver("esp32c3", "irda", {0, 40}, 3900, 3530, Halves, {0}, {0}),
      Receiver("esp32c3", "nrz", {3}, 3900, 3530, {1}, {-15, 0, 15}, {0}),
      Receiver("samd21", "irda", {0, 40}, 3000, 2945, {0}, {-15, 0}, {0}),
      Receiver("uno", "nrz", {0, 40}, 800, 788, {0}, {0}, {0}),
      Receiver("esp32c3", "irda", {0, 40}, 3900, 3860, {0}, {0}, {0}) }
====
