----------------------------- MODULE EntityBus ------------------------------
(***************************************************************************)
(* How the program on the NIOS steers the enemies: updateEnemies of        *)
(* enemyController.c and the registers of entityInterface.sv, joined by    *)
(* the parallel ports entity_select, entity_read, entity_write and         *)
(* entity_dir that the program writes one at a time.                       *)
(*                                                                         *)
(* A step is one access of the program, one Clk edge, or a change in the   *)
(* game: these run independently of each other, except that the bus        *)
(* leaves a Clk edge between two accesses.  A position is abstracted to    *)
(* whose position it is, and the direction that the program computes from  *)
(* the positions to any that it can compute for that type of enemy.        *)
(***************************************************************************)
EXTENDS Naturals

CONSTANTS
  N,            \* enemies (5)
  KeeseDelay,   \* passes between two turns of a Keese (3)
  Dir,          \* directions: 0 stop, 1 left, 2 right, 3 down, 4 up
  Population    \* the types of enemies 1 .. N in the rooms

Keese == 1
ReDead == 2
Slider == 3
EnemyType == 0 .. 3
Vertical == {0, 3, 4}
Player == 0          \* the number of the player on entity_select
Nobody == N + 1      \* whose position is (0, 0)

ASSUME BusAssumption ==
  /\ N \in Nat \ {0} /\ KeeseDelay \in Nat
  /\ 0 \in Dir /\ Dir \subseteq 0 .. 4
  /\ Population \subseteq [1 .. N -> EnemyType]

VARIABLES
  active, Enemy_Type,                    \* of the enemies
  select, read, write, sel_dir,          \* the ports
  dir,                                   \* toEnemy1_dir .. toEnemy5_dir
  toNIOS_X, toNIOS_Y, toNIOS_Type,       \* registers read by the program
  pc, i,                                 \* the next access, and for whom
  player_x, player_y,                    \* what the program has read
  enemy_x, enemy_y, enemy_active, enemy_type,
  order,                                 \* the direction it has computed
  enemyCounter,                          \* counted up to KeeseDelay only
  accessed,                              \* no Clk edge since the last access
  ordered                                \* history: the last order for each

gameVars    == <<active, Enemy_Type>>
portVars    == <<select, read, write, sel_dir>>
ifVars      == <<dir, toNIOS_X, toNIOS_Y, toNIOS_Type>>
playerVars  == <<player_x, player_y>>
enemyVars   == <<enemy_x, enemy_y, enemy_active, enemy_type>>
programVars == <<pc, i, playerVars, enemyVars, order, enemyCounter>>
vars == <<gameVars, portVars, ifVars, programVars, accessed, ordered>>

Enemies == 1 .. N

Init ==
  /\ active = {} /\ Enemy_Type = [e \in Enemies |-> 0]
  /\ select = Player /\ read = FALSE /\ write = FALSE /\ sel_dir = 0
  /\ dir = [e \in Enemies |-> 0]
  /\ toNIOS_X = Nobody /\ toNIOS_Y = Nobody /\ toNIOS_Type = 0
  /\ pc = "player_select" /\ i = 1
  /\ player_x = Nobody /\ player_y = Nobody
  /\ enemy_x = Nobody /\ enemy_y = Nobody /\ enemy_active = FALSE /\ enemy_type = 0
  /\ order = 0
  /\ enemyCounter = [e \in Enemies |-> 0]
  /\ accessed = FALSE
  /\ ordered = [e \in Enemies |-> 0]

-----------------------------------------------------------------------------
(* The game: a room is entered, or an enemy dies.                           *)

EnterRoom ==
  /\ \E room \in Population :
       active' = {e \in Enemies : room[e] # 0} /\ Enemy_Type' = room
  /\ UNCHANGED <<portVars, ifVars, programVars, accessed, ordered>>

Die(e) ==
  /\ e \in active
  /\ active' = active \ {e}
  /\ UNCHANGED <<Enemy_Type, portVars, ifVars, programVars, accessed, ordered>>

-----------------------------------------------------------------------------
(* entityInterface.sv.                                                      *)

Selected == IF read /\ select \in Enemies \union {Player} THEN select ELSE Nobody
Type_Out == IF read /\ select \in Enemies THEN Enemy_Type[select] ELSE 0
toNIOS_Active == read /\ select \in active

ClkEdge ==
  /\ dir' = IF write /\ select \in Enemies THEN [dir EXCEPT ![select] = sel_dir] ELSE dir
  /\ toNIOS_X' = Selected /\ toNIOS_Y' = Selected
  /\ toNIOS_Type' = Type_Out
  /\ accessed' = FALSE
  /\ UNCHANGED <<gameVars, portVars, programVars, ordered>>

-----------------------------------------------------------------------------
(* The accesses of updateEnemies, in the order of the program.              *)

Access(from, to) ==
  /\ pc = from /\ ~accessed
  /\ pc' = to
  /\ accessed' = TRUE
  /\ UNCHANGED <<gameVars, ifVars>>

SelectPlayer ==
  /\ Access("player_select", "player_on")
  /\ select' = Player
  /\ UNCHANGED <<read, write, sel_dir, i, playerVars, enemyVars, order, enemyCounter, ordered>>

\* The variant of the mutation runs selects nobody.
SelectEnemyForgotten ==
  /\ Access("select", "on")
  /\ UNCHANGED <<portVars, i, playerVars, enemyVars, order, enemyCounter, ordered>>
SelectEnemy ==
  /\ Access("select", "on")
  /\ select' = i
  /\ UNCHANGED <<read, write, sel_dir, i, playerVars, enemyVars, order, enemyCounter, ordered>>

ReadOn ==
  /\ Access("player_on", "player_x") \/ Access("on", "x")
  /\ read' = TRUE
  /\ UNCHANGED <<select, write, sel_dir, i, playerVars, enemyVars, order, enemyCounter, ordered>>

PlayerX ==
  /\ Access("player_x", "player_y")
  /\ player_x' = toNIOS_X
  /\ UNCHANGED <<portVars, i, player_y, enemyVars, order, enemyCounter, ordered>>
PlayerY ==
  /\ Access("player_y", "player_off")
  /\ player_y' = toNIOS_Y
  /\ UNCHANGED <<portVars, i, player_x, enemyVars, order, enemyCounter, ordered>>

EnemyX ==
  /\ Access("x", "y")
  /\ enemy_x' = toNIOS_X
  /\ UNCHANGED <<portVars, i, playerVars, enemy_y, enemy_active, enemy_type, order, enemyCounter, ordered>>
EnemyY ==
  /\ Access("y", "active")
  /\ enemy_y' = toNIOS_Y
  /\ UNCHANGED <<portVars, i, playerVars, enemy_x, enemy_active, enemy_type, order, enemyCounter, ordered>>
EnemyIsActive ==
  /\ Access("active", "type")
  /\ enemy_active' = toNIOS_Active
  /\ UNCHANGED <<portVars, i, playerVars, enemy_x, enemy_y, enemy_type, order, enemyCounter, ordered>>
EnemyTypeIs ==
  /\ Access("type", "off")
  /\ enemy_type' = toNIOS_Type
  /\ UNCHANGED <<portVars, i, playerVars, enemy_x, enemy_y, enemy_active, order, enemyCounter, ordered>>

ReadOff ==
  /\ \/ Access("player_off", "select") /\ i' = 1
     \/ Access("off", "decide") /\ UNCHANGED i
  /\ read' = FALSE
  /\ UNCHANGED <<select, write, sel_dir, playerVars, enemyVars, order, enemyCounter, ordered>>

\* The directions that the program can compute for an enemy of the type.
CommandsAnyDir(type) == IF type = Keese THEN Dir \ {0} ELSE Dir
Commands(type) == IF type = Keese THEN Dir \ {0}
                  ELSE IF type = ReDead THEN Dir
                  ELSE IF type = Slider THEN Dir \intersect Vertical
                  ELSE {}

MustCommand ==
  /\ enemy_active
  /\ enemy_type # 0
  /\ enemy_type = Keese => enemyCounter[i] >= KeeseDelay

\* The loop goes on to the next enemy, or the function returns and the main
\* loop calls it again after the next report of the keyboard.
NextEnemy ==
  IF i < N THEN pc' = "select" /\ i' = i + 1
           ELSE pc' = "player_select" /\ UNCHANGED i

\* Variants with a mistake, for the mutation runs.
CountOn(n) == n + 1
CountNever(n) == n

Count(n) == IF n < KeeseDelay THEN n + 1 ELSE n

Decide ==
  /\ pc = "decide" /\ MustCommand
  /\ order' \in Commands(enemy_type)
  /\ pc' = "write_on"
  /\ UNCHANGED <<gameVars, portVars, ifVars, i, playerVars, enemyVars, enemyCounter, accessed, ordered>>

Skip ==
  /\ pc = "decide" /\ ~MustCommand
  /\ enemyCounter' = [enemyCounter EXCEPT ![i] = Count(@)]
  /\ NextEnemy
  /\ UNCHANGED <<gameVars, portVars, ifVars, playerVars, enemyVars, order, accessed, ordered>>

WriteOn ==
  /\ Access("write_on", "dir")
  /\ write' = TRUE
  /\ UNCHANGED <<select, read, sel_dir, i, playerVars, enemyVars, order, enemyCounter, ordered>>

WriteDir ==
  /\ Access("dir", "write_off")
  /\ sel_dir' = order
  /\ ordered' = [ordered EXCEPT ![i] = order]
  /\ UNCHANGED <<select, read, write, i, playerVars, enemyVars, order, enemyCounter>>

\* The variant of the mutation runs leaves the port up.
WriteOffForgotten ==
  /\ pc = "write_off" /\ ~accessed
  /\ accessed' = TRUE
  /\ enemyCounter' = [enemyCounter EXCEPT ![i] = Count(IF enemy_type = Keese THEN 0 ELSE @)]
  /\ NextEnemy
  /\ UNCHANGED <<gameVars, portVars, ifVars, playerVars, enemyVars, order, ordered>>
WriteOff ==
  /\ pc = "write_off" /\ ~accessed
  /\ write' = FALSE
  /\ accessed' = TRUE
  /\ enemyCounter' = [enemyCounter EXCEPT ![i] = Count(IF enemy_type = Keese THEN 0 ELSE @)]
  /\ NextEnemy
  /\ UNCHANGED <<gameVars, select, read, sel_dir, ifVars, playerVars, enemyVars, order, ordered>>

Program ==
  \/ SelectPlayer \/ PlayerX \/ PlayerY
  \/ SelectEnemy \/ EnemyX \/ EnemyY \/ EnemyIsActive \/ EnemyTypeIs
  \/ ReadOn \/ ReadOff
  \/ Decide \/ Skip \/ WriteOn \/ WriteDir \/ WriteOff

Game == EnterRoom \/ \E e \in Enemies : Die(e)

Next == Game \/ ClkEdge \/ Program

\* Clk runs, and so does the program as long as the keyboard answers.
Spec == Init /\ [][Next]_vars /\ WF_vars(ClkEdge) /\ WF_vars(Program)

-----------------------------------------------------------------------------

TypeOK ==
  /\ active \subseteq Enemies /\ Enemy_Type \in [Enemies -> EnemyType]
  /\ select \in 0 .. N /\ read \in BOOLEAN /\ write \in BOOLEAN
  /\ sel_dir \in Dir /\ order \in Dir
  /\ dir \in [Enemies -> Dir] /\ ordered \in [Enemies -> Dir]
  /\ {toNIOS_X, toNIOS_Y, player_x, player_y, enemy_x, enemy_y} \subseteq 0 .. (N + 1)
  /\ {toNIOS_Type, enemy_type} \subseteq EnemyType
  /\ enemy_active \in BOOLEAN /\ accessed \in BOOLEAN
  /\ i \in Enemies
  /\ enemyCounter \in [Enemies -> 0 .. KeeseDelay]

\* What the program computes with are the positions of the player and of the
\* enemy it steers, although the ports and registers between are one Clk
\* behind each other and are shared by all of them.
RightPositions ==
  pc = "decide" => /\ player_x = Player /\ player_y = Player
                   /\ enemy_x = i /\ enemy_y = i

\* An enemy has the direction of its last order, except for the one that is
\* being written just now: while entity_write is up and entity_dir is still
\* that of another enemy, it obeys the order of that one.
OrdersReachTheirEnemy ==
  \A e \in Enemies : dir[e] # ordered[e] => write /\ select = e

\* Once the room stays as it is, the Sliders in it will only move up and
\* down, whatever they were told to do as residents of another room, except
\* while a direction is being written.
SlidersSettle ==
  <>[][FALSE]_gameVars =>
    <>[](\A e \in active : Enemy_Type[e] = Slider /\ ~(write /\ select = e)
                             => dir[e] \in Vertical)

\* A Keese that is left alive is given a new direction again and again.
KeeseTurn ==
  <>[][FALSE]_gameVars =>
    \A e \in Enemies :
      <>[](e \in active /\ Enemy_Type[e] = Keese) => []<>(pc = "dir" /\ i = e)

=============================================================================
