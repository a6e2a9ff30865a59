----------------------------- MODULE RoomState ------------------------------
(***************************************************************************)
(* The room register (RoomState.sv): which room a player who has left      *)
(* through a door enters.                                                  *)
(***************************************************************************)
EXTENDS Naturals

Room == 0 .. 7

\* Door codes, named for the edge of the screen at which Player.sv raises
\* them (Player.sv:205-227), not for the comment of RoomState.sv:5-8, which
\* has left and right exchanged.
NoDoor     == 0
RightDoor  == 1
LeftDoor   == 2
TopDoor    == 3
BottomDoor == 4
Door       == {RightDoor, LeftDoor, TopDoor, BottomDoor}
DoorCode   == {NoDoor} \union Door

\* The doors the state machine knows: <<room, door, room behind it>>.
Passage == { <<0, TopDoor, 2>>,    <<0, LeftDoor, 1>>,
             <<1, RightDoor, 0>>,  <<1, LeftDoor, 3>>,
             <<2, BottomDoor, 0>>,
             <<3, RightDoor, 1>>,  <<3, BottomDoor, 4>>,
             <<4, TopDoor, 3>>,    <<4, LeftDoor, 5>>,
             <<5, RightDoor, 4>>,  <<5, LeftDoor, 7>>,  <<5, TopDoor, 6>>,
             <<6, BottomDoor, 5>>,
             <<7, RightDoor, 5>> }

\* next_room before the reset is applied: the room behind the door, or the
\* same room when the state machine knows no such door.
Behind(room, door) ==
  IF \E n \in Room : <<room, door, n>> \in Passage
  THEN CHOOSE n \in Room : <<room, door, n>> \in Passage
  ELSE room

IsPassage(room, door) == Behind(room, door) # room

\* Variants with a mistake, for the mutation runs.
NextRoomDoorFirst(room, door, reset) ==
  IF reset /\ ~IsPassage(room, door) THEN 0 ELSE Behind(room, door)
NextRoomNoReset(room, door, reset) == Behind(room, door)

\* next_room: the reset overrides the doors.
NextRoom(room, door, reset) == IF reset THEN 0 ELSE Behind(room, door)

\* initialize_room, on which the enemies load the table of the new room.
InitializeRoom(door, reset) == door # NoDoor \/ reset

\* The door on the other side of a passage.
Opposite == [d \in Door |-> CASE d = RightDoor  -> LeftDoor
                              [] d = LeftDoor   -> RightDoor
                              [] d = TopDoor    -> BottomDoor
                              [] d = BottomDoor -> TopDoor]

=============================================================================
