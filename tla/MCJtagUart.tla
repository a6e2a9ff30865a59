----------------------------- MODULE MCJtagUart -----------------------------
(* The board's console, with enough bytes for both rings to fill and to wrap, *)
(* and one with a clock, mostly writing and mostly reading.                   *)
EXTENDS JtagUart

System(c, w, t) == [clock |-> c, written |-> w, typed |-> t]

MCSystems == {System(FALSE, 3, 4), System(TRUE, 4, 0), System(TRUE, 1, 3)}

=============================================================================
