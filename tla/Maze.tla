-------------------------------- MODULE Maze --------------------------------
(***************************************************************************)
(* What the dungeon promises of the player's journey, without positions,   *)
(* walls and clocks: rooms joined by corridors that can be walked both     *)
(* ways, and a lost game that starts again in room 0.                      *)
(***************************************************************************)
EXTENDS Naturals

VARIABLES room, lost

mazeVars == <<room, lost>>

Corridor == {<<0, 1>>, <<0, 2>>, <<1, 3>>, <<3, 4>>, <<4, 5>>, <<5, 6>>, <<5, 7>>}

Adjacent(r, s) == <<r, s>> \in Corridor \/ <<s, r>> \in Corridor

MazeInit == room = 0 /\ lost = FALSE

\* The player stays or walks through one corridor; the game may be lost.
Walk ==
  /\ ~lost
  /\ room' = room \/ Adjacent(room, room')
  /\ lost' \in BOOLEAN

Restart ==
  /\ lost
  /\ room' = 0
  /\ lost' = FALSE

MazeSpec == MazeInit /\ [][Walk \/ Restart]_mazeVars

=============================================================================
