----------------------------- MODULE Residents ------------------------------
(***************************************************************************)
(* Who lives in the dungeon: the table that the five enemies load when the *)
(* player comes through a door (Enemy.sv:262-539).                         *)
(***************************************************************************)
EXTENDS Naturals, Sequences

\* The residents of the rooms, in the order of their numbers: where they
\* start and what they are.
Room1Residents == << <<300, 200, 2>>, <<70, 330, 1>>, <<100, 330, 1>>, <<150, 330, 1>>, <<200, 330, 1>> >>
Room2Residents == << <<448, 160, 1>>, <<128, 160, 1>>, <<288, 224, 1>>, <<384, 352, 2>>, <<192, 352, 2>> >>
Room3Residents == << <<480, 96, 1>>, <<64, 64, 1>>, <<448, 256, 1>>, <<64, 288, 1>>, <<512, 416, 1>> >>
Room4Residents == << <<384, 160, 1>>, <<448, 352, 2>>, <<576, 416, 3>>, <<128, 128, 2>>, <<32, 416, 1>> >>
Room5Residents == << <<416, 192, 3>>, <<192, 192, 3>>, <<64, 224, 2>>, <<416, 288, 3>>, <<192, 288, 3>> >>
Room6Residents == << <<416, 128, 2>>, <<192, 128, 2>>, <<320, 256, 1>>, <<544, 288, 2>>, <<64, 288, 2>> >>
Residents == << Room1Residents, Room2Residents, Room3Residents,
                Room4Residents, Room5Residents, Room6Residents >>

\* Nobody lives in the first room and in the last.
Inhabited(room) == room \in 1 .. 6

SpawnType(room, e) == IF Inhabited(room) THEN Residents[room][e][3] ELSE 0

=============================================================================
