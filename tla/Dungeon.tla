------------------------------ MODULE Dungeon -------------------------------
(***************************************************************************)
(* The player walking through the eight rooms: Player.sv and RoomState.sv  *)
(* as lab8.sv connects them.                                               *)
(*                                                                         *)
(* Two clocks take turns.  RoomState and GameState are clocked by the      *)
(* rising edge of VGA_VS; the player is clocked by Clk and moves at the    *)
(* first Clk edge after it.  So in every frame the room register is        *)
(* written first, from the door of the last frame, and the player moves    *)
(* second, against the walls of the room just entered.                     *)
(*                                                                         *)
(* game_over is an output of GameState; here it may rise at any VGA_VS     *)
(* edge and falls at the next one, as GameState.sv makes it.               *)
(***************************************************************************)
EXTENDS Player, Residents

VARIABLES
  room,        \* cur_room of RoomState
  game_over,   \* output of GameState, the reset of player and rooms
  phase        \* which of the two clock edges of a frame comes next

vars == <<playerVars, room, game_over, phase>>

\* Door d of room r leads to another room, in which (x, y) is free.
Leads(r, d, x, y) == IsPassage(r, d) /\ ~Blocked(Behind(r, d), x, y)

\* Every edge that one step from (x, y) can cross is such a door, for the
\* place at the opposite edge where Player.sv:205-227 puts the player.
ExitsLead(r, x, y) ==
  /\ y < MinY + Step => Leads(r, TopDoor, x, MaxY)
  /\ y > MaxY - Step => Leads(r, BottomDoor, x, MinY)
  /\ x <= Step       => Leads(r, LeftDoor, MaxX, y)
  /\ x > MaxX - Step => Leads(r, RightDoor, MinX, y)

\* "MAKE SURE DOORS MATCH UP" (level_rom.sv:7).
ASSUME DoorsMatchUp ==
  \A r \in Room, x \in MinX .. MaxX, y \in MinY .. MaxY :
    Blocked(r, x, y) \/ ExitsLead(r, x, y)

\* The places that one step from an edge reaches; those where a door d puts
\* the player (Player.sv:205-227); the distance that costs a heart.
NearAnEdge(x, y) ==
  x <= MinX + Step \/ x >= MaxX - Step \/ y <= MinY + Step \/ y >= MaxY - Step
PutThere(d, x, y) ==
  /\ d = TopDoor    => y = MaxY
  /\ d = BottomDoor => y = MinY
  /\ d = LeftDoor   => x = MaxX
  /\ d = RightDoor  => x = MinX

Within32(a, b) == a < b + 32 /\ b < a + 32

\* No resident starts near a place on the floor by an edge, where a player is
\* who has just come in, nor near one beyond a door of its room, where a
\* player is who turns back at once.
ASSUME DoorsAreClear ==
  \A r \in 1 .. 6, x \in MinX .. MaxX, y \in MinY .. MaxY :
    (\E e \in DOMAIN Residents[r] : /\ Within32(x, Residents[r][e][1])
                                   /\ Within32(y, Residents[r][e][2])) =>
      /\ NearAnEdge(x, y) => Blocked(r, x, y)
      /\ \A d \in Door : PutThere(d, x, y) /\ IsPassage(r, d) => Blocked(Behind(r, d), x, y)

ASSUME StartIsFree == ~Blocked(0, Player_X_Center, Player_Y_Center)

Init ==
  /\ PlayerInit
  /\ room = 0
  /\ game_over = FALSE
  /\ phase = "vsync"

\* The rising edge of VGA_VS.
VsyncEdge ==
  /\ phase = "vsync"
  /\ room' = NextRoom(room, doorcode, game_over)
  /\ game_over' \in IF game_over THEN {FALSE} ELSE BOOLEAN
  /\ phase' = "clk"
  /\ UNCHANGED playerVars

\* The Clk edge after it, in play ...
ClkEdge ==
  /\ phase = "clk"
  /\ ~game_over
  /\ \E key \in Keycode : PlayerFrame(key, room)
  /\ phase' = "vsync"
  /\ UNCHANGED <<room, game_over>>

\* ... and while game_over holds the player in reset.
ClkEdgeInReset ==
  /\ phase = "clk"
  /\ game_over
  /\ PlayerReset
  /\ phase' = "vsync"
  /\ UNCHANGED <<room, game_over>>

Next == VsyncEdge \/ ClkEdge \/ ClkEdgeInReset

Spec == Init /\ [][Next]_vars

-----------------------------------------------------------------------------

\* The registers hold what their widths allow, and the player's box is on
\* the field, so that every ROM lookup that decides a move is on the screen.
TypeOK ==
  /\ Player_X \in MinX .. MaxX
  /\ Player_Y \in MinY .. MaxY
  /\ Player_X_Motion \in Motion
  /\ Player_Y_Motion \in Motion
  /\ doorcode \in DoorCode
  /\ attack \in BOOLEAN
  /\ room \in Room
  /\ game_over \in BOOLEAN
  /\ phase \in {"vsync", "clk"}

\* The room whose walls the next move of the player is tested against: the
\* one it is in, or behind the door it has just left by.
RoomToCome == IF phase = "clk" THEN room ELSE NextRoom(room, doorcode, game_over)

\* A player is never in a wall when it is about to move.  A player in a wall
\* could not leave it: Player.sv:228 refuses every move that ends in a wall.
NeverInWall ==
  (phase = "clk" /\ game_over) \/ ~Blocked(RoomToCome, Player_X, Player_Y)

\* Whoever leaves by a door gets into another room (RoomState.sv:32-86):
\* no opening in the walls of the ROM lacks its row in the state machine.
DoorsLeadOut ==
  phase = "vsync" /\ doorcode # NoDoor /\ ~game_over => IsPassage(room, doorcode)

\* Whoever comes through a door does not come upon a resident: in the frame
\* in which they take their places (Enemy.sv:262-539), none of them is within
\* the 32 pixels of the player that cost a heart (GameState.sv:77-114).
ArrivalIsSafe ==
  [][phase = "clk" /\ ~game_over /\ doorcode # NoDoor /\ Inhabited(room) =>
       \A e \in DOMAIN Residents[room] :
         ~ /\ Within32(Player_X', Residents[room][e][1])
           /\ Within32(Player_Y', Residents[room][e][2])]_vars

\* A game that is over starts again in room 0 with the player at the start
\* position, whatever door the player left by in the frame it was lost.
RestartsAtTheStart ==
  [][game_over /\ ~game_over' =>
       room' = 0 /\ Player_X' = Player_X_Center /\ Player_Y' = Player_Y_Center]_vars

\* The dungeon is a walk through the maze: rooms change by the corridors of
\* the maze only, both ways, and a restart always leads to room 0.
M == INSTANCE Maze WITH lost <- game_over
RefinesMaze == M!MazeSpec

=============================================================================
