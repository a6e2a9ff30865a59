-------------------------- MODULE EntityBusProofs ---------------------------
(***************************************************************************)
(* Proofs about the ports between the program and the enemies, for any     *)
(* number of enemies and any population of the rooms.                      *)
(***************************************************************************)
EXTENDS EntityBus, TLAPS

(***************************************************************************)
(* The inductive invariant says what the ports hold at each place of the   *)
(* program.  What makes it inductive is the Clk edge between two accesses: *)
(* only if there was one since the last access (~accessed) do the          *)
(* registers of the interface show what the ports say.                     *)
(***************************************************************************)

PlayerPart == {"player_on", "player_x", "player_y", "player_off"}
Reading    == {"player_x", "player_y", "player_off", "x", "y", "active", "type", "off"}
Writing    == {"dir", "write_off"}
EnemyPart  == {"on", "x", "y", "active", "type", "off", "decide", "write_on", "dir", "write_off"}

Ranges ==
  /\ i \in Enemies
  /\ select \in 0 .. N
  /\ read \in BOOLEAN /\ write \in BOOLEAN
  /\ sel_dir \in Dir /\ order \in Dir
  /\ dir \in [Enemies -> Dir] /\ ordered \in [Enemies -> Dir]
  /\ pc \in {"player_select", "select"} \union PlayerPart \union EnemyPart

PortsFollowTheProgram ==
  /\ pc \in PlayerPart => select = Player
  /\ pc \in EnemyPart => select = i
  /\ read <=> pc \in Reading
  /\ write <=> pc \in Writing
  /\ pc = "write_off" => sel_dir = ordered[i]

RegistersFollowThePorts ==
  /\ pc \in Reading /\ ~accessed => toNIOS_X = select /\ toNIOS_Y = select
  /\ pc = "write_off" /\ ~accessed => dir[i] = ordered[i]

ProgramHasRead ==
  /\ pc \notin {"player_select", "player_on", "player_x"} => player_x = Player
  /\ pc \notin {"player_select", "player_on", "player_x", "player_y"} => player_y = Player
  /\ pc \in {"y", "active", "type", "off", "decide"} => enemy_x = i
  /\ pc \in {"active", "type", "off", "decide"} => enemy_y = i

IInv ==
  /\ Ranges /\ PortsFollowTheProgram /\ RegistersFollowThePorts
  /\ ProgramHasRead /\ OrdersReachTheirEnemy

LEMMA InitIInv == Init => IInv
<1> SUFFICES ASSUME Init PROVE IInv
  OBVIOUS
<1> USE DEF Init, PlayerPart, Reading, Writing, EnemyPart
<1>1. i \in Enemies /\ select \in 0 .. N
  BY BusAssumption DEF Enemies, Player
<1>2. read \in BOOLEAN /\ write \in BOOLEAN
  OBVIOUS
<1>3. Ranges
  BY <1>1, <1>2, BusAssumption DEF Ranges
<1>4. PortsFollowTheProgram
  BY DEF PortsFollowTheProgram
<1>5. RegistersFollowThePorts /\ ProgramHasRead
  BY DEF RegistersFollowThePorts, ProgramHasRead
<1>6. OrdersReachTheirEnemy
  BY DEF OrdersReachTheirEnemy
<1> QED BY <1>3, <1>4, <1>5, <1>6 DEF IInv

\* The game touches none of this.
LEMMA GameStep == IInv /\ Game => IInv'
  BY DEF Game, EnterRoom, Die, portVars, ifVars, programVars, playerVars, enemyVars,
     IInv, Ranges, PortsFollowTheProgram, RegistersFollowThePorts,
     ProgramHasRead, OrdersReachTheirEnemy

\* A Clk edge brings the registers up to date.
LEMMA ClkStep == IInv /\ ClkEdge => IInv'
<1> SUFFICES ASSUME IInv, ClkEdge PROVE IInv'
  OBVIOUS
<1> USE DEF IInv, Ranges, PortsFollowTheProgram, portVars, programVars, playerVars, enemyVars
<1>1. UNCHANGED <<portVars, programVars, ordered>> /\ Player = 0
  BY DEF ClkEdge, Player
<1>2. toNIOS_X' = Selected /\ toNIOS_Y' = Selected
  BY DEF ClkEdge
<1>3. read => Selected = select
  BY DEF Selected, Enemies, Player
<1>4. dir' = IF write /\ select \in Enemies THEN [dir EXCEPT ![select] = sel_dir] ELSE dir
  BY DEF ClkEdge
<1>5. dir' \in [Enemies -> Dir]
  BY <1>4
<1>6. write => select = i /\ dir' = [dir EXCEPT ![i] = sel_dir]
  BY <1>4 DEF Writing, EnemyPart
<1>7. RegistersFollowThePorts'
  <2>1. pc = "write_off" => dir'[i] = ordered[i]
    BY <1>6 DEF Writing
  <2> QED BY <1>1, <1>2, <1>3, <2>1 DEF RegistersFollowThePorts
<1>8. OrdersReachTheirEnemy'
  BY <1>1, <1>4, <1>6 DEF OrdersReachTheirEnemy
<1> QED BY <1>1, <1>5, <1>7, <1>8 DEF ProgramHasRead

\* Every access of the program leaves the ports as the next one needs them.
LEMMA ProgramStep == IInv /\ Program => IInv'
<1> SUFFICES ASSUME IInv, Program PROVE IInv'
  OBVIOUS
<1> USE DEF IInv, Ranges, PortsFollowTheProgram, RegistersFollowThePorts, ProgramHasRead,
            OrdersReachTheirEnemy, PlayerPart, Reading, Writing, EnemyPart,
            Access, gameVars, portVars, ifVars, playerVars, enemyVars, Player
<1>1. CASE SelectPlayer
  BY <1>1, BusAssumption DEF SelectPlayer
<1>2. CASE PlayerX
  BY <1>2 DEF PlayerX
<1>3. CASE PlayerY
  BY <1>3 DEF PlayerY
<1>4. CASE SelectEnemy
  BY <1>4, BusAssumption DEF SelectEnemy, Enemies
<1>5. CASE EnemyX
  BY <1>5 DEF EnemyX
<1>6. CASE EnemyY
  BY <1>6 DEF EnemyY
<1>7. CASE EnemyIsActive
  BY <1>7 DEF EnemyIsActive
<1>8. CASE EnemyTypeIs
  BY <1>8 DEF EnemyTypeIs
<1>9. CASE ReadOn
  BY <1>9 DEF ReadOn
<1>10. CASE ReadOff
  <2>1. CASE Access("player_off", "select") /\ i' = 1
    <3>1. i' \in Enemies
      BY <2>1, BusAssumption DEF Enemies
    <3> QED BY <1>10, <2>1, <3>1 DEF ReadOff
  <2>2. CASE Access("off", "decide") /\ UNCHANGED i
    BY <1>10, <2>2 DEF ReadOff
  <2> QED BY <1>10, <2>1, <2>2 DEF ReadOff
<1>11. CASE Decide
  <2>1. order' \in Dir
    BY <1>11 DEF Decide, Commands
  <2> QED BY <1>11, <2>1 DEF Decide
<1>12. CASE Skip
  <2>1. i' \in Enemies /\ pc' \in {"select", "player_select"}
    BY <1>12, BusAssumption DEF Skip, NextEnemy, Enemies
  <2> QED BY <1>12, <2>1 DEF Skip
<1>13. CASE WriteOn
  BY <1>13 DEF WriteOn
<1>14. CASE WriteDir
  BY <1>14 DEF WriteDir
<1>15. CASE WriteOff
  <2>1. i' \in Enemies /\ pc' \in {"select", "player_select"}
    BY <1>15, BusAssumption DEF WriteOff, NextEnemy, Enemies
  <2> QED BY <1>15, <2>1 DEF WriteOff
<1> QED BY <1>1, <1>2, <1>3, <1>4, <1>5, <1>6, <1>7, <1>8, <1>9, <1>10,
           <1>11, <1>12, <1>13, <1>14, <1>15 DEF Program

LEMMA StepIInv == IInv /\ [Next]_vars => IInv'
<1>1. ASSUME IInv, UNCHANGED vars PROVE IInv'
  BY <1>1 DEF vars, gameVars, portVars, ifVars, programVars, playerVars, enemyVars,
     IInv, Ranges, PortsFollowTheProgram, RegistersFollowThePorts,
     ProgramHasRead, OrdersReachTheirEnemy
<1> QED BY <1>1, GameStep, ClkStep, ProgramStep DEF Next

THEOREM Invariance == Spec => []IInv
<1> QED BY InitIInv, StepIInv, PTL DEF Spec

-----------------------------------------------------------------------------

\* The program never computes with the position of anybody but the player
\* and the enemy it steers (enemyController.c:21-36).
THEOREM PositionsAreRight == Spec => []RightPositions
<1>1. IInv => RightPositions
  BY DEF IInv, ProgramHasRead, RightPositions
<1> QED BY <1>1, Invariance, PTL

\* No order stays with an enemy it is not for (enemyController.c:42-44 and
\* entityInterface.sv:44-52).
THEOREM OrdersArrive == Spec => []OrdersReachTheirEnemy
<1>1. IInv => OrdersReachTheirEnemy
  BY DEF IInv
<1> QED BY <1>1, Invariance, PTL

-----------------------------------------------------------------------------
\* What the program reads: the registers of the interface, with the types of
\* the enemies in them.
Readings ==
  /\ active \subseteq Enemies /\ Enemy_Type \in [Enemies -> EnemyType]
  /\ {toNIOS_X, toNIOS_Y, player_x, player_y, enemy_x, enemy_y} \subseteq 0 .. (N + 1)
  /\ {toNIOS_Type, enemy_type} \subseteq EnemyType
  /\ enemy_active \in BOOLEAN /\ accessed \in BOOLEAN
  /\ enemyCounter \in [Enemies -> 0 .. KeeseDelay]

LEMMA ReadingsStep == ASSUME IInv, Readings, [Next]_vars PROVE Readings'
<1> USE DEF Readings, Access, gameVars, portVars, ifVars, programVars, playerVars, enemyVars
<1>1. CASE EnterRoom
  <2>1. PICK room \in Population :
          active' = {e \in Enemies : room[e] # 0} /\ Enemy_Type' = room
    BY <1>1 DEF EnterRoom
  <2>2. room \in [Enemies -> EnemyType]
    BY BusAssumption DEF Enemies
  <2> QED BY <1>1, <2>1, <2>2 DEF EnterRoom
<1>2. ASSUME NEW e \in Enemies, Die(e) PROVE Readings'
  BY <1>2 DEF Die
<1>3. CASE ClkEdge
  <2>1. Selected \in 0 .. (N + 1)
    BY BusAssumption DEF Selected, Enemies, Player, Nobody
  <2>2. Type_Out \in EnemyType
    BY DEF Type_Out, EnemyType
  <2> QED BY <1>3, <2>1, <2>2 DEF ClkEdge
<1>4. CASE SelectPlayer \/ SelectEnemy \/ ReadOn \/ WriteOn \/ WriteDir
  BY <1>4 DEF SelectPlayer, SelectEnemy, ReadOn, WriteOn, WriteDir
<1>5. CASE PlayerX \/ PlayerY \/ EnemyX \/ EnemyY \/ EnemyTypeIs
  BY <1>5 DEF PlayerX, PlayerY, EnemyX, EnemyY, EnemyTypeIs
<1>6. CASE EnemyIsActive
  BY <1>6 DEF EnemyIsActive, toNIOS_Active, IInv, Ranges
<1>7. CASE ReadOff
  BY <1>7 DEF ReadOff
<1>8. CASE Decide
  BY <1>8 DEF Decide
<1>9. ASSUME NEW n \in 0 .. KeeseDelay PROVE Count(n) \in 0 .. KeeseDelay
  BY <1>9, BusAssumption DEF Count
<1>10. 0 \in 0 .. KeeseDelay
  BY BusAssumption
<1>11. CASE Skip
  <2>1. enemyCounter' = [enemyCounter EXCEPT ![i] = Count(enemyCounter[i])]
    BY <1>11 DEF Skip
  <2>2. Count(enemyCounter[i]) \in 0 .. KeeseDelay
    BY <1>9 DEF IInv, Ranges
  <2> QED BY <1>11, <2>1, <2>2 DEF Skip
<1>12. CASE WriteOff
  <2>1. PICK n \in 0 .. KeeseDelay : enemyCounter' = [enemyCounter EXCEPT ![i] = Count(n)]
    <3>1. enemyCounter[i] \in 0 .. KeeseDelay
      BY DEF IInv, Ranges
    <3> QED BY <1>10, <1>12, <3>1 DEF WriteOff
  <2>2. Count(n) \in 0 .. KeeseDelay
    BY <1>9
  <2> QED BY <1>12, <2>1, <2>2 DEF WriteOff
<1>13. CASE UNCHANGED vars
  BY <1>13 DEF vars
<1> QED BY <1>1, <1>2, <1>3, <1>4, <1>5, <1>6, <1>7, <1>8, <1>11, <1>12, <1>13
        DEF Next, Game, Program

\* The registers of the interface and the variables of updateEnemies keep
\* their types, and the number of the selected enemy stays in range.
THEOREM TypeCorrect == Spec => []TypeOK
<1>1. Init => Readings
  <2>1. 0 \in 0 .. KeeseDelay /\ Nobody \in 0 .. (N + 1) /\ 0 \in EnemyType
    BY BusAssumption DEF Nobody, EnemyType
  <2> QED BY <2>1 DEF Init, Readings
<1>2. IInv /\ Readings /\ [Next]_vars => Readings'
  BY ReadingsStep
<1>3. IInv /\ Readings => TypeOK
  BY DEF IInv, Ranges, Readings, TypeOK
<1> QED BY <1>1, <1>2, <1>3, Invariance, PTL DEF Spec

=============================================================================
