------------------------------ MODULE MCX11Loop ------------------------------
(* X11Loop with small sets. *)
EXTENDS X11Loop

\* Two exposures, neither of which contains the other, in the shape of a cross.
Upright == [x0 |-> 1, y0 |-> 0, x1 |-> 2, y1 |-> 3]
Lying   == [x0 |-> 0, y0 |-> 1, x1 |-> 3, y1 |-> 2]
Cross == {Upright, Lying}
=============================================================================
