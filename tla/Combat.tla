------------------------------- MODULE Combat -------------------------------
(***************************************************************************)
(* The enemies, the rules of the game and the rooms together: GameRules,   *)
(* Enemy and RoomState as lab8.sv connects them.  GameRules lets anybody   *)
(* be near the player; here it is who is on the screen.  What GameRules    *)
(* calls a frame is the first of the two clock edges here, and the second  *)
(* leaves its variables alone: CombatSpec implements Rules.                *)
(*                                                                         *)
(* As in Dungeon, every frame has two clock edges.  At the rising edge of  *)
(* VGA_VS, GameState compares the positions of the last frame and          *)
(* RoomState enters the room behind the door of the last frame; at the     *)
(* Clk edge after it the enemies act on both.  The player is an input:     *)
(* whether it attacks, which of the enemies on the screen are near it or   *)
(* touch it, and by which door it leaves.                                  *)
(***************************************************************************)
EXTENDS GameRules, RoomState

VARIABLES
  active, Enemy_Type, hidden,
  room,
  doorcode,
  phase,       \* which of the two clock edges of a frame comes next
  cameFrom,    \* history: the room of the frame before
  hitsOn       \* history: how often an enemy was hit since it was put in
               \* its place, up to three

E == INSTANCE Enemy

combatVars ==
  <<vars, active, Enemy_Type, hidden, room, doorcode, phase, cameFrom, hitsOn>>

Unhurt == [e \in EnemyId |-> 0]

CombatInit ==
  /\ Init
  /\ E!EnemyInit
  /\ room = 0
  /\ doorcode = NoDoor
  /\ phase = "vsync"
  /\ cameFrom = 0
  /\ hitsOn = Unhurt

\* The rising edge of VGA_VS.  An enemy at (700, 700) is near to nobody.
VsyncEdge ==
  /\ phase = "vsync"
  /\ \E attack \in BOOLEAN, near \in SUBSET (EnemyId \ hidden) :
       \E touch \in SUBSET near : Frame(attack, near, touch)
  /\ room' = NextRoom(room, doorcode, game_over)
  /\ phase' = "clk"
  /\ cameFrom' = room
  /\ hitsOn' = [e \in EnemyId |->
                  IF e \in Damage' /\ hitsOn[e] < 3 THEN hitsOn[e] + 1 ELSE hitsOn[e]]
  /\ UNCHANGED <<active, Enemy_Type, hidden, doorcode>>

\* The player may leave by any door of its room, or stay.
Doors == {NoDoor} \union {d \in Door : IsPassage(room, d)}

\* The Clk edge of a frame in which the player has come through a door, ...
ClkEdgeOnArrival ==
  /\ phase = "clk" /\ ~game_over
  /\ InitializeRoom(doorcode, game_over)
  /\ E!EnemyLoad(room)
  /\ hitsOn' = Unhurt
  /\ doorcode' \in Doors
  /\ phase' = "vsync"
  /\ UNCHANGED <<vars, room, cameFrom>>

\* ... of any other frame ...
ClkEdgeInRoom ==
  /\ phase = "clk" /\ ~game_over
  /\ ~InitializeRoom(doorcode, game_over)
  /\ E!EnemyMove(Damage)
  /\ doorcode' \in Doors
  /\ phase' = "vsync"
  /\ UNCHANGED <<vars, room, cameFrom, hitsOn>>

\* ... and while the game is over.  The door of the player is not reset.
ClkEdgeInReset ==
  /\ phase = "clk" /\ game_over
  /\ E!EnemyReset
  /\ hitsOn' = Unhurt
  /\ phase' = "vsync"
  /\ UNCHANGED <<vars, room, doorcode, cameFrom>>

CombatNext == VsyncEdge \/ ClkEdgeOnArrival \/ ClkEdgeInRoom \/ ClkEdgeInReset

CombatSpec == CombatInit /\ [][CombatNext]_combatVars

-----------------------------------------------------------------------------

CombatTypeOK ==
  /\ TypeOK
  /\ E!EnemyTypeOK
  /\ room \in Room /\ doorcode \in DoorCode
  /\ phase \in {"vsync", "clk"}
  /\ cameFrom \in Room
  /\ hitsOn \in [EnemyId -> 0 .. 3]

\* Between frames, whoever is alive is a resident of the room the player is
\* in: no enemy follows into another room, none survives a lost game, and
\* the type that the controller reads is the one of the table.
OnlyResidents ==
  phase = "vsync" =>
    \A e \in active : E!Inhabited(room) /\ Enemy_Type[e] = E!SpawnType(room, e)

\* An enemy gives two points at most: one when it dies, and one more in the
\* frame after, in which it is dead but still on the screen.
TwoPointsAtMost == \A e \in EnemyId : hitsOn[e] <= 2

\* Enemies appear only in a frame in which the player comes from another
\* room; who was killed stays dead until then.
AppearOnArrival ==
  [][~(active' \subseteq active) => room # cameFrom /\ active' = EnemyId]_combatVars

\* Hearts are lost only while somebody is alive or died in the frame before:
\* a room that has been cleared is safe, and so are the rooms without
\* residents, from the frame after the player came in.
ClearedRoomIsSafe == [][health' < health => active \union Damage # {}]_combatVars

=============================================================================
