------------------------------ MODULE MCChase -------------------------------
(* One enemy for TLC: in each scene a behaviour of its own.  A ReDead of      *)
(* room 2 that must come from the side and then from below, a Slider of       *)
(* room 4 with the player nearly and then exactly in line with it, a Slider   *)
(* of room 5 that has come up against the wall beside it and one that has     *)
(* left its column on the open side, and a Keese of room 1 that flies past    *)
(* the openings in the walls on both sides.                                   *)
EXTENDS Chase

\* The spots: n of them in a row, three pixels from each other.
Row(px, py, n) == {<<px + 3 * k, py>> : k \in 0 .. n - 1}
Scene(r, e, d, s) == [room |-> r, number |-> e, before |-> d, spots |-> s]

MCScenes ==
  { Scene(2, 4, Up, Row(342, 312, 1)), Scene(4, 3, Right, Row(573, 290, 2)),
    Scene(5, 1, Left, Row(410, 350, 2)), Scene(5, 1, Right, Row(440, 350, 1)),
    Scene(1, 2, Up, Row(500, 400, 1)) }

=============================================================================
