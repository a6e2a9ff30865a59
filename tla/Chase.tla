-------------------------------- MODULE Chase --------------------------------
(***************************************************************************)
(* One enemy and the player, with their positions: how an enemy walks and  *)
(* bounces off the walls (Enemy.sv) when updateEnemies of enemyController.c *)
(* steers it from coordinates it has read one by one, some frames ago.     *)
(*                                                                         *)
(* Enemy and EntityBus model the same code without coordinates; here the   *)
(* ports are left out, except for what they do to the direction: the       *)
(* enemy keeps the one of the last resident of its number until it is      *)
(* served, and while its order is being written it has, until the next     *)
(* access, the direction that was written last for another enemy.          *)
(***************************************************************************)
EXTENDS LevelRom, Residents, Integers

CONSTANTS
  Scenes,       \* what is looked at: a resident of a room, the direction that
                \* is left from the room before, and where the player may be
  PollFrames,   \* bound: frames from one order for the enemy to the next
  MaxTurns,     \* bound: turns of a Keese
  MaxStrays     \* bound: frames that begin while its order is being written

Number == 1 .. 5
Still == 0
Left == 1
Right == 2
Down == 3
Up == 4
Dir == Still .. Up

ASSUME ChaseAssumption ==
  /\ \A s \in Scenes :
       /\ Inhabited(s.room) /\ s.number \in Number /\ s.before \in Dir
       /\ s.spots # {}
       /\ \A p \in s.spots : /\ p \in (0 .. 608) \X (0 .. 448)
                             /\ ~TouchesWall(s.room, p[1], p[2])
  /\ PollFrames \in Nat \ {0} /\ MaxTurns \in Nat /\ MaxStrays \in Nat

\* Everybody starts on the floor, except for the ReDead of room 1, which starts
\* in the pillar in the middle of the room and comes out on the wrong side.
ASSUME StartAssumption ==
  \A r \in 1 .. 6, n \in Number :
    TouchesWall(r, Residents[r][n][1], Residents[r][n][2]) <=> r = 1 /\ n = 1

VARIABLES
  scene,                  \* one of Scenes, for all the behaviour
  player,                 \* where the player is
  x, y,                   \* Enemy_X, Enemy_Y: ten bits
  x_motion, y_motion,     \* Enemy_X_Motion, Enemy_Y_Motion: ten bits, signed here
  dir,                    \* the direction of the enemy
  pc,                     \* the next access of updateEnemies for this enemy
  player_x, player_y, enemy_x, enemy_y,   \* what updateEnemies has read
  late, turns, strays,    \* what the bounds bound
  lastDir,                \* history: the direction in the last frame
  lost                    \* history: it was in a wall, by however little, when
                          \* its direction changed, or when it was put there

walkVars == <<player, x, y, x_motion, y_motion>>
readVars == <<player_x, player_y, enemy_x, enemy_y>>
vars == <<scene, walkVars, dir, pc, readVars, late, turns, strays, lastDir, lost>>

type == SpawnType(scene.room, scene.number)
home == Residents[scene.room][scene.number]

-----------------------------------------------------------------------------
(* Enemy.sv.                                                                *)

\* Ten bits; the variant of the mutation runs has eleven.
Wide11(n) == n % 2048
Wide(n) == n % 1024

Enemy_X_Step == 2
Enemy_Y_Step == IF type = 3 THEN 4 ELSE 2

\* The corners of its box, and the two of them that are in front of it in a
\* direction (UL, UR, BL or BR).
Box == {0, 31} \X {0, 31}
Corners(d) ==
  {c \in Box : /\ d # Still
               /\ (d = Left => c[1] = 0) /\ (d = Right => c[1] = 31)
               /\ (d = Up => c[2] = 0) /\ (d = Down => c[2] = 31)}

\* What the four ROMs may answer.  Beyond the edge of the screen they are
\* asked for bits and rows that do not exist.
OnRom(px, py) == px < 640 /\ RowsPerRoom * scene.room + (py \div TileSize) < 120
Answers(px, py) == IF OnRom(px, py) THEN {IsWall(scene.room, px, py)} ELSE BOOLEAN

\* Is there a wall at one of the corners, with the box at (px, py)?
Blocked(d, px, py) ==
  LET answers == {Answers(Wide(px + c[1]), Wide(py + c[2])) : c \in Corners(d)}
  IN  {b \in BOOLEAN : IF b THEN \E a \in answers : TRUE \in a
                            ELSE \A a \in answers : FALSE \in a}

\* One step in a direction.
Ahead(d) ==
  << IF d = Left THEN -Enemy_X_Step ELSE IF d = Right THEN Enemy_X_Step ELSE 0,
     IF d = Up   THEN -Enemy_Y_Step ELSE IF d = Down  THEN Enemy_Y_Step ELSE 0 >>

\* One step on, or one step back from a wall; the variant of the mutation runs
\* does not look.
HeadingBlind(d, blocked) == Ahead(d)
Heading(d, blocked) == IF blocked THEN << -Ahead(d)[1], -Ahead(d)[2] >> ELSE Ahead(d)

Sign(n) == IF n < 0 THEN -1 ELSE IF n > 0 THEN 1 ELSE 0

InWall(px, py) ==
  \E c \in Box : TRUE \in Answers(Wide(px + c[1]), Wide(py + c[2]))

\* The enemy has just been put in its place, with the direction that another
\* enemy of its number was given in the room before.  If that one was alive,
\* the new one starts in motion, with the other's step from top to bottom.
Init ==
  /\ scene \in Scenes
  /\ player \in scene.spots
  /\ x = home[1] /\ y = home[2]
  /\ dir = scene.before
  /\ \/ x_motion = 0 /\ y_motion = 0
     \/ \E b \in Blocked(dir, x, y), s \in {2, 4} :
          x_motion = Heading(dir, b)[1] /\ y_motion = Sign(Heading(dir, b)[2]) * s
  /\ pc = "player"
  /\ player_x = 0 /\ player_y = 0 /\ enemy_x = 0 /\ enemy_y = 0
  /\ late = 0 /\ turns = 0 /\ strays = 0
  /\ lastDir = dir
  /\ lost = InWall(x, y)

\* The player walks in steps of three pixels (Player.sv), or stands.
PlayerStep ==
  player' \in {p \in scene.spots :
                 \/ p = player
                 \/ p[1] = player[1] /\ p[2] - player[2] \in {-3, 3}
                 \/ p[2] = player[2] /\ p[1] - player[1] \in {-3, 3}}

\* A frame.  The motion is that of the frame before; the walls are looked up
\* at the new position, for the motion of the next frame.
Frame ==
  /\ late < PollFrames /\ ~lost
  /\ IF pc = "dir" THEN strays < MaxStrays /\ strays' = strays + 1 ELSE UNCHANGED strays
  /\ late' = late + 1
  /\ PlayerStep
  /\ x' = Wide(x + x_motion) /\ y' = Wide(y + y_motion)
  /\ \E b \in Blocked(dir, x', y') :
       x_motion' = Heading(dir, b)[1] /\ y_motion' = Heading(dir, b)[2]
  /\ lastDir' = dir
  /\ lost' = (lost \/ (dir # lastDir /\ InWall(x', y')))
  /\ UNCHANGED <<scene, dir, pc, readVars, turns>>

-----------------------------------------------------------------------------
(* updateEnemies.                                                           *)

Reads(from, to) ==
  /\ type # 1
  /\ pc = from /\ pc' = to
  /\ UNCHANGED <<scene, walkVars, dir, late, turns, strays, lastDir, lost>>

\* The player walks along one axis at a time: its two coordinates are taken
\* together.
ReadPlayer == Reads("player", "enemy_x") /\ player_x' = player[1] /\ player_y' = player[2]
              /\ UNCHANGED <<enemy_x, enemy_y>>
ReadEnemyX  == Reads("enemy_x", "enemy_y") /\ enemy_x' = x
               /\ UNCHANGED <<player_x, player_y, enemy_y>>
ReadEnemyY  == Reads("enemy_y", "write") /\ enemy_y' = y
               /\ UNCHANGED <<player_x, player_y, enemy_x>>

\* A ReDead comes nearer until it is within sixteen pixels, first in x and
\* then in y.  The variant of the mutation runs comes up to four.
ReDeadOrderNearer ==
  IF enemy_x - player_x < -4 THEN Right
  ELSE IF enemy_x - player_x > 4 THEN Left
  ELSE IF enemy_y - player_y < -4 THEN Down
  ELSE IF enemy_y - player_y > 4 THEN Up
  ELSE Still
ReDeadOrder ==
  IF enemy_x - player_x < -16 THEN Right
  ELSE IF enemy_x - player_x > 16 THEN Left
  ELSE IF enemy_y - player_y < -16 THEN Down
  ELSE IF enemy_y - player_y > 16 THEN Up
  ELSE Still

\* A Slider rushes at a player that is in its way: above or below it, but
\* not exactly.
InTheWay(px, ex) ==
  \/ px + 32 > ex /\ px < ex
  \/ px < ex + 32 /\ px + 32 > ex + 32
\* The variant of the mutation runs takes up for down.
SliderOrderSwapped ==
  IF ~InTheWay(player_x, enemy_x) THEN Still
  ELSE IF player_y > enemy_y + 32 THEN Up
  ELSE IF player_y < enemy_y - 32 THEN Down
  ELSE Still
SliderOrder ==
  IF ~InTheWay(player_x, enemy_x) THEN Still
  ELSE IF player_y > enemy_y + 32 THEN Down
  ELSE IF player_y < enemy_y - 32 THEN Up
  ELSE Still

\* The orders of this pass; that of a Keese is a random number.
Orders == IF type = 1 THEN Dir \ {Still}
          ELSE IF type = 2 THEN {ReDeadOrder} ELSE {SliderOrder}

\* What the other residents of the room, or this one, may have been told:
\* the value that is still on entity_dir.
OnThePort ==
  LET types == {SpawnType(scene.room, n) : n \in Number}
  IN  (IF types \intersect {1, 2} # {} THEN Dir ELSE {Still, Down, Up})

\* The coordinates of a Keese are read, and not used.
Served == pc = IF type = 1 THEN "player" ELSE "write"

\* entity_write goes up ...
WriteOn ==
  /\ Served /\ pc' = "dir"
  /\ type = 1 => turns < MaxTurns
  /\ dir' \in OnThePort
  /\ UNCHANGED <<scene, walkVars, readVars, late, turns, strays, lastDir, lost>>

\* What was read is of no use after the order.
Forget == player_x' = 0 /\ player_y' = 0 /\ enemy_x' = 0 /\ enemy_y' = 0

\* ... and the direction is written; the port goes down with it.  The variant
\* of the mutation runs does not write it.
WriteDirForgotten ==
  /\ pc = "dir" /\ pc' = "player"
  /\ late' = 0
  /\ turns' = IF type = 1 THEN turns + 1 ELSE turns
  /\ Forget
  /\ UNCHANGED <<scene, walkVars, dir, strays, lastDir, lost>>
WriteDir ==
  /\ pc = "dir" /\ pc' = "player"
  /\ dir' \in Orders
  /\ late' = 0
  /\ turns' = IF type = 1 THEN turns + 1 ELSE turns
  /\ Forget
  /\ UNCHANGED <<scene, walkVars, strays, lastDir, lost>>

\* A Keese is left alone in most passes.
LeftAlone ==
  /\ Served /\ pc' = "player"
  /\ type = 1
  /\ late' = 0
  /\ Forget
  /\ UNCHANGED <<scene, walkVars, dir, turns, strays, lastDir, lost>>

Pass == ReadPlayer \/ ReadEnemyX \/ ReadEnemyY
        \/ WriteOn \/ WriteDir \/ LeftAlone

Next == Frame \/ Pass

\* The frames go on, and so does the main loop as long as the keyboard answers.
Spec == Init /\ [][Next]_vars /\ SF_vars(Frame) /\ WF_vars(Pass)

-----------------------------------------------------------------------------

TypeOK ==
  /\ scene \in Scenes /\ player \in scene.spots
  /\ x \in 0 .. 1023 /\ y \in 0 .. 1023
  /\ enemy_x \in 0 .. 1023 /\ enemy_y \in 0 .. 1023
  /\ x_motion \in {-2, 0, 2} /\ y_motion \in {-4, -2, 0, 2, 4}
  /\ x_motion = 0 \/ y_motion = 0
  /\ dir \in Dir /\ lastDir \in Dir /\ lost \in BOOLEAN
  /\ pc \in {"player", "enemy_x", "enemy_y", "write", "dir"}
  /\ player_x \in 0 .. 608 /\ player_y \in 0 .. 448
  /\ late \in 0 .. PollFrames /\ turns \in 0 .. MaxTurns /\ strays \in 0 .. MaxStrays

\* An enemy gets deeper into a wall than one step (the longest is a Slider's),
\* and so through it, only if its direction changed while it touched the wall:
\* the walls bounce whoever keeps its direction, off the screen too.
FloorInside(px, py, n) ==
  \A c \in {n, 31 - n} \X {n, 31 - n} : FALSE \in Answers(Wide(px + c[1]), Wide(py + c[2]))
OneStepIntoWalls == ~lost => FloorInside(x, y, 4)

\* A Slider leaves its column only while it has the direction of another
\* enemy: the one left from the room before, in the motion it starts with and
\* until its first order, and those still on the port in frames that begin
\* while an order is being written.
ColumnKept ==
  LET drift == Enemy_X_Step * (PollFrames + 1 + MaxStrays)
  IN  type = 3 => \E off \in -drift .. drift : x = Wide(home[1] + off)

\* A ReDead gets to a player that stands still, and stays, although it sees
\* itself where it was frames ago.  (With a clear way in the scene.)
ReDeadArrives ==
  (<>[][FALSE]_player) =>
    <>[](type = 2 /\ ~lost => /\ x - player[1] \in -16 .. 16
                              /\ y - player[2] \in -16 .. 16)

\* A Slider comes down on a player that stands in its way, if there is no wall
\* between them, and rests if the player is not in its way; exactly above or
\* below it is not in its way.
WayClear ==
  LET lo == IF y < player[2] THEN y ELSE player[2]
      hi == IF y < player[2] THEN player[2] ELSE y
  IN  \A row \in (lo \div TileSize) .. ((hi + 31) \div TileSize), dx \in {0, 31} :
        ~IsWall(scene.room, x + dx, TileSize * row)
SliderSettles ==
  (<>[][FALSE]_player) =>
    <>[](type = 3 /\ ~lost =>
           IF InTheWay(player[1], x) THEN WayClear => y - player[2] \in -32 .. 32
                                     ELSE y_motion = 0)

=============================================================================
