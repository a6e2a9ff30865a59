------------------------------- MODULE Enemy --------------------------------
(***************************************************************************)
(* The life of the enemies (Enemy.sv): who is in which room, when they are *)
(* loaded, when they die and when they are off the screen.  Where exactly  *)
(* they walk is abstracted to one bit: an enemy is hidden when it is known *)
(* to stand at (700, 700), far from every place the player can be, and may *)
(* be anywhere otherwise.                                                  *)
(***************************************************************************)
EXTENDS Residents

CONSTANT EnemyId     \* the numbers of the enemies (1 .. 5)

VARIABLES
  active,       \* the enemies that are alive
  Enemy_Type,   \* 1 Keese, 2 ReDead, 3 Slider, 0 none
  hidden        \* the enemies at (700, 700)

enemyVars == <<active, Enemy_Type, hidden>>

\* Before the first room with residents is entered.
EnemyInit ==
  /\ active = {}
  /\ Enemy_Type = [e \in EnemyId |-> 0]
  /\ hidden = EnemyId

\* Variants with a mistake, for the mutation runs: a reset that moves the
\* enemies away but leaves them alive, a default that is alive instead of
\* unchanged, the dead left where they fell, the enemies of the last room left
\* where they were.
EnemyResetAlive ==
  /\ hidden' = EnemyId
  /\ UNCHANGED <<active, Enemy_Type>>
EnemyMoveDefaultAlive(damage) ==
  /\ active' = EnemyId \ damage
  /\ hidden' = EnemyId \ active
  /\ UNCHANGED Enemy_Type
EnemyMoveGhosts(damage) ==
  /\ active' = active \ damage
  /\ UNCHANGED <<hidden, Enemy_Type>>
EnemyLoadInPlace(room) ==
  /\ active' = IF Inhabited(room) THEN EnemyId ELSE {}
  /\ hidden' = hidden \ active'
  /\ Enemy_Type' = [e \in EnemyId |-> SpawnType(room, e)]

\* The reset, by the button or because the game is over; the types stay.
EnemyReset ==
  /\ active' = {}
  /\ hidden' = EnemyId
  /\ UNCHANGED Enemy_Type

\* A frame with initialize up: the residents of the room take their places,
\* and whoever was hit in this frame is not affected.
EnemyLoad(room) ==
  /\ active' = IF Inhabited(room) THEN EnemyId ELSE {}
  /\ hidden' = EnemyId \ active'
  /\ Enemy_Type' = [e \in EnemyId |-> SpawnType(room, e)]

\* Any other frame.  An enemy that is hit is dead, but it leaves the screen
\* one frame later only, when its position is computed with active down.
EnemyMove(damage) ==
  /\ active' = active \ damage
  /\ hidden' = EnemyId \ active
  /\ UNCHANGED Enemy_Type

EnemyTypeOK ==
  /\ active \in SUBSET EnemyId
  /\ Enemy_Type \in [EnemyId -> 0 .. 3]
  /\ hidden \in SUBSET EnemyId

=============================================================================
