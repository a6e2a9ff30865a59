----------------------------- MODULE ChaseProofs -----------------------------
(***************************************************************************)
(* Proofs about an enemy on its way, for any scenes, any bounds and any    *)
(* walls: of the level ROM only the size of its tiles is used, so what is  *)
(* proved does not hang on the map, nor on what the ROM answers beyond the *)
(* edge of the screen.                                                     *)
(***************************************************************************)
EXTENDS Chase, TLAPS

Place == (0 .. 1023) \X (0 .. 1023)

Resident == (0 .. 608) \X (0 .. 448) \X (1 .. 3)

\* The table of residents has places on the screen and three kinds.
LEMMA ResidentFacts ==
  \A r \in 1 .. 6, n \in Number :
    Residents[r][n] \in Resident
<1> TAKE r \in 1 .. 6, n \in Number
<1>1. r \in {1, 2, 3, 4, 5, 6} /\ n \in {1, 2, 3, 4, 5}
  BY DEF Number
<1> USE <1>1 DEF Residents, Resident
<1>2. CASE r = 1
  BY <1>2 DEF Room1Residents
<1>3. CASE r = 2
  BY <1>3 DEF Room2Residents
<1>4. CASE r = 3
  BY <1>4 DEF Room3Residents
<1>5. CASE r = 4
  BY <1>5 DEF Room4Residents
<1>6. CASE r = 5
  BY <1>6 DEF Room5Residents
<1>7. CASE r = 6
  BY <1>7 DEF Room6Residents
<1> QED BY <1>2, <1>3, <1>4, <1>5, <1>6, <1>7

LEMMA SceneFacts ==
  ASSUME scene \in Scenes
  PROVE  /\ scene.room \in 1 .. 6 /\ scene.number \in Number /\ scene.before \in Dir
         /\ home[1] \in 0 .. 608 /\ home[2] \in 0 .. 448
         /\ type \in 1 .. 3
         /\ \A p \in scene.spots : p[1] \in 0 .. 608 /\ p[2] \in 0 .. 448
<1>1. scene.room \in 1 .. 6 /\ scene.number \in Number /\ scene.before \in Dir
  BY ChaseAssumption DEF Inhabited
<1>2. \A p \in scene.spots : p[1] \in 0 .. 608 /\ p[2] \in 0 .. 448
  BY ChaseAssumption
<1>3. home \in Resident
  BY <1>1, ResidentFacts DEF home
<1>4. type = home[3]
  BY <1>1 DEF type, home, SpawnType, Inhabited
<1>5. home[1] \in 0 .. 608 /\ home[2] \in 0 .. 448 /\ home[3] \in 1 .. 3
  BY <1>3 DEF Resident
<1> QED BY <1>1, <1>2, <1>4, <1>5

\* The motion that a frame leaves: one step along one axis, or none.
LEMMA HeadingFacts ==
  ASSUME NEW d \in Dir, NEW b \in BOOLEAN
  PROVE  /\ Heading(d, b)[1] \in {-2, 0, 2}
         /\ Heading(d, b)[2] \in {-4, -2, 0, 2, 4}
         /\ Heading(d, b)[1] = 0 \/ Heading(d, b)[2] = 0
         /\ d \notin {Left, Right} => Heading(d, b)[1] = 0
         /\ Sign(Heading(d, b)[2]) \in {-1, 0, 1}
         /\ Heading(d, b)[1] # 0 => Sign(Heading(d, b)[2]) = 0
<1>1. /\ Ahead(d)[1] \in {-2, 0, 2} /\ Ahead(d)[2] \in {-4, -2, 0, 2, 4}
      /\ Ahead(d)[1] = 0 \/ Ahead(d)[2] = 0
      /\ d \notin {Left, Right} => Ahead(d)[1] = 0
  BY DEF Ahead, Enemy_X_Step, Enemy_Y_Step, Still, Left, Right, Down, Up
<1>2. /\ Heading(d, b)[1] = Ahead(d)[1] \/ Heading(d, b)[1] = -Ahead(d)[1]
      /\ Heading(d, b)[2] = Ahead(d)[2] \/ Heading(d, b)[2] = -Ahead(d)[2]
  BY DEF Heading
<1>3. /\ Heading(d, b)[1] \in {-2, 0, 2} /\ Heading(d, b)[2] \in {-4, -2, 0, 2, 4}
      /\ Heading(d, b)[1] = 0 \/ Heading(d, b)[2] = 0
      /\ d \notin {Left, Right} => Heading(d, b)[1] = 0
  BY <1>1, <1>2
<1> QED BY <1>3 DEF Sign

\* The order of every kind of enemy is a direction; that of a Slider is never
\* to the side.
LEMMA OrderFacts ==
  ASSUME scene \in Scenes
  PROVE  /\ Orders \subseteq Dir /\ OnThePort \subseteq Dir
         /\ type = 3 => Orders \subseteq {Still, Down, Up}
<1> USE DEF Dir, Still, Left, Right, Down, Up
<1>1. ReDeadOrder \in Dir
  BY DEF ReDeadOrder
<1>2. SliderOrder \in {Still, Down, Up}
  BY DEF SliderOrder
<1>3. type = 1 \/ type = 2 \/ type = 3
  BY SceneFacts
<1>4. CASE type = 1
  BY <1>4 DEF Orders, OnThePort
<1>5. CASE type = 2
  BY <1>1, <1>5 DEF Orders, OnThePort
<1>6. CASE type = 3
  BY <1>2, <1>6 DEF Orders, OnThePort
<1> QED BY <1>3, <1>4, <1>5, <1>6

-----------------------------------------------------------------------------
(***************************************************************************)
(* Types.  What is added to TypeOK is that the order that is being written *)
(* is one of the turns that the bound allows.                              *)
(***************************************************************************)

TypeInv == TypeOK /\ (pc = "dir" /\ type = 1 => turns < MaxTurns)

LEMMA InitTypes == ASSUME Init PROVE TypeInv
<1>1. scene \in Scenes /\ player \in scene.spots
  BY DEF Init
<1>2. /\ scene.before \in Dir
      /\ home[1] \in 0 .. 608 /\ home[2] \in 0 .. 448
  BY <1>1, SceneFacts
<1>3. x_motion \in {-2, 0, 2} /\ y_motion \in {-4, -2, 0, 2, 4} /\ (x_motion = 0 \/ y_motion = 0)
  <2>1. CASE x_motion = 0 /\ y_motion = 0
    BY <2>1
  <2>2. ASSUME NEW b \in Blocked(dir, x, y), NEW s \in {2, 4},
               x_motion = Heading(dir, b)[1], y_motion = Sign(Heading(dir, b)[2]) * s
        PROVE  x_motion \in {-2, 0, 2} /\ y_motion \in {-4, -2, 0, 2, 4} /\ (x_motion = 0 \/ y_motion = 0)
    <3>1. b \in BOOLEAN /\ dir \in Dir
      BY <1>2 DEF Blocked, Init
    <3>2. /\ x_motion \in {-2, 0, 2} /\ Sign(Heading(dir, b)[2]) \in {-1, 0, 1}
          /\ x_motion # 0 => Sign(Heading(dir, b)[2]) = 0
      BY <2>2, <3>1, HeadingFacts
    <3>3. y_motion \in {-4, -2, 0, 2, 4} /\ (x_motion # 0 => y_motion = 0)
      BY <2>2, <3>2
    <3> QED BY <3>2, <3>3
  <2> QED BY <2>1, <2>2 DEF Init
<1>4. lost \in BOOLEAN
  BY DEF Init, InWall
<1> QED BY <1>1, <1>2, <1>3, <1>4, ChaseAssumption DEF Init, TypeInv, TypeOK

\* A frame, type by type.
LEMMA FrameTypes == ASSUME TypeInv, Frame PROVE TypeInv'
<1>1. /\ scene \in Scenes /\ scene' = scene /\ dir \in Dir /\ dir' = dir
      /\ UNCHANGED <<pc, readVars, turns>>
  BY DEF TypeInv, TypeOK, Frame
<1>2. x' \in 0 .. 1023 /\ y' \in 0 .. 1023
  <2>1. x \in 0 .. 1023 /\ y \in 0 .. 1023
    BY DEF TypeInv, TypeOK
  <2>2. x_motion \in {-2, 0, 2} /\ y_motion \in {-4, -2, 0, 2, 4}
    BY DEF TypeInv, TypeOK
  <2>3. PICK m \in Int, n \in Int : m = x + x_motion /\ n = y + y_motion
    BY <2>1, <2>2
  <2>4. x' = Wide(m) /\ y' = Wide(n)
    BY <2>3 DEF Frame
  <2>5. Wide(m) \in 0 .. 1023 /\ Wide(n) \in 0 .. 1023
    BY DEF Wide
  <2> QED BY <2>4, <2>5
<1>3. x_motion' \in {-2, 0, 2} /\ y_motion' \in {-4, -2, 0, 2, 4} /\ (x_motion' = 0 \/ y_motion' = 0)
  <2>1. PICK b \in BOOLEAN :
          x_motion' = Heading(dir, b)[1] /\ y_motion' = Heading(dir, b)[2]
    BY DEF Frame, Blocked
  <2> QED BY <1>1, <2>1, HeadingFacts
<1>4. late' \in 0 .. PollFrames /\ strays' \in 0 .. MaxStrays
  BY ChaseAssumption DEF TypeInv, TypeOK, Frame
<1>5. lost' \in BOOLEAN /\ lastDir' \in Dir
  BY <1>1 DEF Frame, TypeInv, TypeOK, InWall
<1>6. player' \in scene.spots
  BY DEF Frame, PlayerStep
<1>7. (pc = "dir" /\ type = 1 => turns < MaxTurns)'
  BY <1>1 DEF TypeInv, type
<1>8. /\ enemy_x' \in 0 .. 1023 /\ enemy_y' \in 0 .. 1023
      /\ player_x' \in 0 .. 608 /\ player_y' \in 0 .. 448
      /\ pc' \in {"player", "enemy_x", "enemy_y", "write", "dir"}
      /\ turns' \in 0 .. MaxTurns
  BY <1>1 DEF TypeInv, TypeOK, readVars
<1> QED BY <1>1, <1>2, <1>3, <1>4, <1>5, <1>6, <1>7, <1>8 DEF TypeInv, TypeOK

\* What the steps of updateEnemies leave alone, and what they do to the rest.
LEMMA PassFacts ==
  ASSUME TypeInv, Pass
  PROVE  /\ UNCHANGED <<scene, walkVars, strays, lastDir, lost>>
         /\ dir' \in Dir
         /\ pc' \in {"player", "enemy_x", "enemy_y", "write", "dir"}
         /\ late' \in {0, late}
<1>1. Orders \subseteq Dir /\ OnThePort \subseteq Dir /\ dir \in Dir
  BY OrderFacts DEF TypeInv, TypeOK
<1> USE <1>1
<1>2. CASE ReadPlayer
  BY <1>2 DEF ReadPlayer, Reads
<1>3. CASE ReadEnemyX
  BY <1>3 DEF ReadEnemyX, Reads
<1>4. CASE ReadEnemyY
  BY <1>4 DEF ReadEnemyY, Reads
<1>5. CASE WriteOn
  BY <1>5 DEF WriteOn
<1>6. CASE WriteDir
  BY <1>6 DEF WriteDir
<1>7. CASE LeftAlone
  BY <1>7 DEF LeftAlone
<1> QED BY <1>2, <1>3, <1>4, <1>5, <1>6, <1>7 DEF Pass

LEMMA PassTypes == ASSUME TypeInv, Pass PROVE TypeInv'
<1>1. /\ UNCHANGED <<scene, walkVars, strays, lastDir, lost>>
      /\ dir' \in Dir /\ late' \in {0, late}
      /\ pc' \in {"player", "enemy_x", "enemy_y", "write", "dir"}
  BY PassFacts
<1>2. player[1] \in 0 .. 608 /\ player[2] \in 0 .. 448
  BY SceneFacts DEF TypeInv, TypeOK
<1>3. /\ enemy_x' \in 0 .. 1023 /\ enemy_y' \in 0 .. 1023
      /\ player_x' \in 0 .. 608 /\ player_y' \in 0 .. 448
  <2>1. CASE ReadPlayer
    BY <1>2, <2>1 DEF ReadPlayer, TypeInv, TypeOK
  <2>2. CASE ReadEnemyX
    BY <2>2 DEF ReadEnemyX, TypeInv, TypeOK
  <2>3. CASE ReadEnemyY
    BY <2>3 DEF ReadEnemyY, TypeInv, TypeOK
  <2>4. CASE WriteOn
    BY <2>4 DEF WriteOn, readVars, TypeInv, TypeOK
  <2>5. CASE WriteDir \/ LeftAlone
    BY <2>5 DEF WriteDir, LeftAlone, Forget
  <2> QED BY <2>1, <2>2, <2>3, <2>4, <2>5 DEF Pass
<1>4. turns' \in 0 .. MaxTurns /\ (pc = "dir" /\ type = 1 => turns < MaxTurns)'
  <2>1. type' = type /\ MaxTurns \in Nat /\ turns \in 0 .. MaxTurns
    BY <1>1, ChaseAssumption DEF type, TypeInv, TypeOK
  <2>2. CASE ReadPlayer \/ ReadEnemyX \/ ReadEnemyY
    BY <2>1, <2>2 DEF ReadPlayer, ReadEnemyX, ReadEnemyY, Reads
  <2>3. CASE WriteOn
    BY <2>1, <2>3 DEF WriteOn
  <2>4. CASE WriteDir
    BY <2>1, <2>4 DEF WriteDir, TypeInv
  <2>5. CASE LeftAlone
    BY <2>1, <2>5 DEF LeftAlone
  <2> QED BY <2>2, <2>3, <2>4, <2>5 DEF Pass
<1> QED BY <1>1, <1>3, <1>4, ChaseAssumption DEF TypeInv, TypeOK, walkVars

LEMMA TypeInvariance == Spec => []TypeInv
<1>1. Init => TypeInv
  BY InitTypes
<1>2. TypeInv /\ [Next]_vars => TypeInv'
  <2>1. TypeInv /\ UNCHANGED vars => TypeInv'
    BY DEF vars, walkVars, readVars, TypeInv, TypeOK, type
  <2> QED BY <2>1, FrameTypes, PassTypes DEF Next
<1> QED BY <1>1, <1>2, PTL DEF Spec

\* Everything keeps its width: the ten bits of the coordinates above all, off
\* the screen too (Enemy.sv:14-15).
THEOREM TypeCorrect == Spec => []TypeOK
<1>1. TypeInv => TypeOK
  BY DEF TypeInv
<1> QED BY <1>1, TypeInvariance, PTL

-----------------------------------------------------------------------------
(***************************************************************************)
(* The column of a Slider.  Of what a Slider can be away from its column,  *)
(* the motion it has counts as if it were already done.  The first bound   *)
(* holds always; the second, until the first order comes, is what leaves   *)
(* room for the frames of the direction that it starts with.               *)
(***************************************************************************)

\* In n pixels of its column, and after the next frame too, whether the motion
\* it has is to one side or to the other.
Within(n) ==
  \E off \in Int : /\ x = Wide(home[1] + off)
                  /\ off + x_motion \in -n .. n /\ off - x_motion \in -n .. n

ColumnInv ==
  type = 3 =>
    /\ Within(2 * (1 + PollFrames + strays))
    /\ pc # "dir" /\ dir \in {Left, Right} => Within(2 * (1 + late + strays))

LEMMA WithinMore ==
  ASSUME NEW n \in Nat, NEW k \in Nat, n <= k, x_motion \in Int, Within(n) PROVE Within(k)
  BY DEF Within

\* A frame takes a Slider at most one step further, and none at all if it looks
\* up or down.
LEMMA WithinFrame ==
  ASSUME NEW n \in Nat, TypeInv, Frame, Within(n)
  PROVE  Within(n + 2)' /\ (dir \notin {Left, Right} => Within(n)')
<1>1. home' = home /\ home[1] \in Int
  <2>1. scene \in Scenes /\ scene' = scene
    BY DEF Frame, TypeInv, TypeOK
  <2>2. home[1] \in 0 .. 608
    BY <2>1, SceneFacts
  <2>3. home' = home
    BY <2>1 DEF home
  <2> QED BY <2>2, <2>3
<1>2. PICK off \in Int : /\ x = Wide(home[1] + off)
                         /\ off + x_motion \in -n .. n /\ off - x_motion \in -n .. n
  BY DEF Within
<1>3. x_motion \in Int
  BY DEF TypeInv, TypeOK
<1>4. PICK turn \in Int : /\ x_motion' = turn /\ -2 <= turn /\ turn <= 2
                          /\ dir \notin {Left, Right} => turn = 0
  <2>1. dir \in Dir
    BY DEF TypeInv, TypeOK
  <2>2. PICK b \in BOOLEAN : x_motion' = Heading(dir, b)[1]
    BY DEF Frame, Blocked
  <2>3. x_motion' \in {-2, 0, 2} /\ (dir \notin {Left, Right} => x_motion' = 0)
    BY <2>1, <2>2, HeadingFacts
  <2> QED BY <2>3
<1>5. PICK new \in Int : new = off + x_motion
  BY <1>3
<1>6. -n <= new /\ new <= n
  BY <1>2, <1>5
<1>7. /\ new + turn \in -(n + 2) .. (n + 2) /\ new - turn \in -(n + 2) .. (n + 2)
      /\ turn = 0 => new + turn \in -n .. n /\ new - turn \in -n .. n
  BY <1>4, <1>6
<1>8. x' = Wide(home'[1] + new)
  BY <1>1, <1>2, <1>3, <1>5 DEF Wide, Frame
<1> QED BY <1>4, <1>7, <1>8 DEF Within

LEMMA InitColumn == ASSUME Init PROVE ColumnInv
<1>1. /\ TypeInv /\ x = home[1] /\ home[1] \in 0 .. 608
      /\ late = 0 /\ strays = 0 /\ PollFrames \in Nat
  BY InitTypes, SceneFacts, ChaseAssumption DEF Init
<1>2. x_motion \in {-2, 0, 2}
  BY <1>1 DEF TypeInv, TypeOK
<1>3. x = Wide(home[1] + 0) /\ 0 + x_motion \in -2 .. 2 /\ 0 - x_motion \in -2 .. 2
  BY <1>1, <1>2 DEF Wide
<1>4. Within(2)
  BY <1>3 DEF Within
<1>5. 2 * (1 + late + strays) = 2
  BY <1>1
<1>6. /\ 2 * (1 + PollFrames + strays) \in Nat /\ 2 <= 2 * (1 + PollFrames + strays)
      /\ x_motion \in Int
  BY <1>1, <1>2
<1>7. Within(2 * (1 + PollFrames + strays))
  BY <1>4, <1>6, WithinMore
<1> QED BY <1>4, <1>5, <1>7 DEF ColumnInv

LEMMA FrameColumn == ASSUME TypeInv, ColumnInv, Frame PROVE ColumnInv'
<1> SUFFICES ASSUME type' = 3 PROVE ColumnInv'
  BY DEF ColumnInv
<1>1. /\ type = 3 /\ pc' = pc /\ dir' = dir
      /\ late \in Nat /\ strays \in Nat /\ PollFrames \in Nat
      /\ late' = late + 1 /\ late' <= PollFrames
      /\ strays' = IF pc = "dir" THEN strays + 1 ELSE strays
  BY ChaseAssumption DEF type, Frame, TypeInv, TypeOK
<1>2. TypeInv' /\ x_motion' \in Int
  BY FrameTypes DEF TypeInv, TypeOK
<1>3. PICK most \in Nat, sofar \in Nat :
        most = 2 * (1 + PollFrames + strays) /\ sofar = 2 * (1 + late + strays)
  <2>1. 2 * (1 + PollFrames + strays) \in Nat /\ 2 * (1 + late + strays) \in Nat
    BY <1>1
  <2> QED BY <2>1
<1>4. /\ sofar + 2 <= most
      /\ (2 * (1 + late + strays))' = IF pc = "dir" THEN sofar + 4 ELSE sofar + 2
      /\ (2 * (1 + PollFrames + strays))' = IF pc = "dir" THEN most + 2 ELSE most
  BY <1>1, <1>3
<1>5. Within(most)
  BY <1>1, <1>3 DEF ColumnInv
<1>6. Within(most + 2)' /\ (dir \notin {Left, Right} => Within(most)')
  BY <1>5, WithinFrame
<1>7. CASE pc = "dir"
  BY <1>1, <1>4, <1>6, <1>7 DEF ColumnInv
<1>8. CASE pc # "dir" /\ dir \in {Left, Right}
  <2>1. Within(sofar)
    BY <1>1, <1>3, <1>8 DEF ColumnInv
  <2>2. Within(sofar + 2)'
    BY <2>1, WithinFrame
  <2>3. Within(most)'
    <3>1. PICK off \in Int : /\ x' = Wide(home'[1] + off)
                             /\ off + x_motion' \in -(sofar + 2) .. (sofar + 2)
                             /\ off - x_motion' \in -(sofar + 2) .. (sofar + 2)
      BY <2>2 DEF Within
    <3>2. PICK turn \in Int : turn = x_motion'
      BY <1>2
    <3>3. /\ off + turn \in -(sofar + 2) .. (sofar + 2)
          /\ off - turn \in -(sofar + 2) .. (sofar + 2)
      BY <3>1, <3>2
    <3>4. sofar + 2 <= most
      BY <1>4
    <3>5. off + turn \in -most .. most /\ off - turn \in -most .. most
      BY <3>3, <3>4
    <3> QED BY <3>1, <3>2, <3>5 DEF Within
  <2> QED BY <1>1, <1>4, <1>8, <2>2, <2>3 DEF ColumnInv
<1>9. CASE pc # "dir" /\ dir \notin {Left, Right}
  BY <1>1, <1>4, <1>6, <1>9 DEF ColumnInv
<1> QED BY <1>7, <1>8, <1>9

LEMMA PassColumn == ASSUME TypeInv, ColumnInv, Pass PROVE ColumnInv'
<1>1. UNCHANGED <<scene, walkVars, strays>>
  BY PassFacts
<1>2. \A n \in Int : Within(n) => Within(n)'
  BY <1>1 DEF Within, walkVars, home
<1>3. type' = type /\ PollFrames \in Nat /\ strays \in Nat /\ late \in Nat
  BY <1>1, ChaseAssumption DEF type, TypeInv, TypeOK
<1>4. pc' # "dir" /\ dir' \in {Left, Right} /\ type = 3 =>
        pc # "dir" /\ dir' = dir /\ late' = late
  <2>1. CASE ReadPlayer \/ ReadEnemyX \/ ReadEnemyY
    BY <2>1 DEF ReadPlayer, ReadEnemyX, ReadEnemyY, Reads
  <2>2. CASE WriteOn
    BY <2>2 DEF WriteOn
  <2>3. CASE WriteDir
    <3>1. type = 3 => dir' \in {Still, Down, Up}
      BY <2>3, OrderFacts DEF WriteDir, TypeInv, TypeOK
    <3> QED BY <3>1 DEF Still, Down, Up, Left, Right
  <2>4. CASE LeftAlone
    BY <2>4 DEF LeftAlone
  <2> QED BY <2>1, <2>2, <2>3, <2>4 DEF Pass
<1>5. 2 * (1 + PollFrames + strays) \in Int /\ 2 * (1 + late + strays) \in Int
  BY <1>3
<1>6. strays' = strays
  BY <1>1
<1> QED BY <1>2, <1>3, <1>4, <1>5, <1>6 DEF ColumnInv

\* A Slider keeps to its column, except for the frames with the direction of
\* another enemy (enemyController.c:82-111 against entityInterface.sv:44-52).
THEOREM SlidersKeepTheirColumn == Spec => []ColumnKept
<1>1. Init => ColumnInv
  BY InitColumn
<1>2. TypeInv /\ ColumnInv /\ [Next]_vars => ColumnInv'
  <2>1. ColumnInv /\ UNCHANGED vars => ColumnInv'
    BY DEF vars, walkVars, ColumnInv, Within, type, home
  <2> QED BY <2>1, FrameColumn, PassColumn DEF Next
<1>3. TypeInv /\ ColumnInv => ColumnKept
  <2> SUFFICES ASSUME TypeInv, ColumnInv, type = 3 PROVE ColumnKept
    BY DEF ColumnKept
  <2>1. PollFrames \in Nat /\ strays \in Nat /\ strays <= MaxStrays /\ MaxStrays \in Nat
    BY ChaseAssumption DEF TypeInv, TypeOK
  <2>2. x_motion \in Int
    BY DEF TypeInv, TypeOK
  <2> DEFINE most == 2 * (1 + PollFrames + strays)
             drift == Enemy_X_Step * (PollFrames + 1 + MaxStrays)
  <2>3. most \in Nat /\ drift \in Nat /\ most <= drift
    BY <2>1 DEF Enemy_X_Step
  <2>4. Within(most)
    BY DEF ColumnInv
  <2> HIDE DEF most, drift
  <2>5. PICK off \in Int : /\ x = Wide(home[1] + off)
                           /\ off + x_motion \in -most .. most
                           /\ off - x_motion \in -most .. most
    BY <2>4 DEF Within
  <2>6. off \in -drift .. drift
    BY <2>2, <2>3, <2>5
  <2> QED BY <2>5, <2>6 DEF ColumnKept, drift
<1> QED BY <1>1, <1>2, <1>3, TypeInvariance, PTL DEF Spec

-----------------------------------------------------------------------------
(***************************************************************************)
(* The tiles.  A box of 32 pixels lies on two tiles at most in either      *)
(* direction, and its corners lie on all of them: this is why the four     *)
(* lookups of Enemy.sv:20-23 are enough.                                   *)
(***************************************************************************)

At(a, b) == Answers(Wide(a), Wide(b))

LEMMA TileBetween ==
  ASSUME NEW p \in Int, NEW q \in Int, NEW r \in Int, p <= q, q <= r, r <= p + 31
  PROVE  \/ Wide(q) \div 32 = Wide(p) \div 32
         \/ Wide(q) \div 32 = Wide(r) \div 32
  BY DEF Wide

\* What the ROMs answer is the same for all the pixels of a tile.
LEMMA SameTile ==
  ASSUME NEW px, NEW py, px \in 0 .. 1023, py \in 0 .. 1023,
         NEW qx, NEW qy, qx \in 0 .. 1023, qy \in 0 .. 1023,
         px \div 32 = qx \div 32, py \div 32 = qy \div 32
  PROVE  Answers(px, py) = Answers(qx, qy)
<1>1. px < 640 <=> qx < 640
  OBVIOUS
<1> QED BY <1>1 DEF Answers, OnRom, IsWall, TileSize

LEMMA BetweenX ==
  ASSUME NEW p \in Int, NEW q \in Int, NEW r \in Int, p <= q, q <= r, r <= p + 31,
         NEW b \in Int
  PROVE  At(q, b) = At(p, b) \/ At(q, b) = At(r, b)
<1>1. /\ Wide(p) \in 0 .. 1023 /\ Wide(q) \in 0 .. 1023
      /\ Wide(r) \in 0 .. 1023 /\ Wide(b) \in 0 .. 1023
  BY DEF Wide
<1>2. Wide(q) \div 32 = Wide(p) \div 32 \/ Wide(q) \div 32 = Wide(r) \div 32
  BY TileBetween
<1> QED BY <1>1, <1>2, SameTile DEF At

LEMMA BetweenY ==
  ASSUME NEW p \in Int, NEW q \in Int, NEW r \in Int, p <= q, q <= r, r <= p + 31,
         NEW a \in Int
  PROVE  At(a, q) = At(a, p) \/ At(a, q) = At(a, r)
<1>1. /\ Wide(p) \in 0 .. 1023 /\ Wide(q) \in 0 .. 1023
      /\ Wide(r) \in 0 .. 1023 /\ Wide(a) \in 0 .. 1023
  BY DEF Wide
<1>2. Wide(q) \div 32 = Wide(p) \div 32 \/ Wide(q) \div 32 = Wide(r) \div 32
  BY TileBetween
<1> QED BY <1>1, <1>2, SameTile DEF At

\* The ROMs answer something.
LEMMA SomeAnswer == ASSUME NEW a, NEW b PROVE At(a, b) \in {{TRUE}, {FALSE}, BOOLEAN}
<1>1. IsWall(scene.room, Wide(a), Wide(b)) \in BOOLEAN
  BY DEF IsWall
<1> QED BY <1>1 DEF At, Answers

\* A box that touches no wall lies on floor with every one of its pixels, and
\* on the screen.
LEMMA ClearBox ==
  ASSUME NEW px \in Int, NEW py \in Int, ~InWall(px, py),
         NEW i \in 0 .. 31, NEW j \in 0 .. 31
  PROVE  At(px + i, py + j) = {FALSE}
<1>1. \A c \in Box : At(px + c[1], py + c[2]) = {FALSE}
  <2> SUFFICES ASSUME NEW c \in Box PROVE At(px + c[1], py + c[2]) = {FALSE}
    OBVIOUS
  <2>1. TRUE \notin At(px + c[1], py + c[2])
    BY DEF InWall, At
  <2> QED BY <2>1, SomeAnswer
<1>2. /\ At(px, py) = {FALSE} /\ At(px, py + 31) = {FALSE}
      /\ At(px + 31, py) = {FALSE} /\ At(px + 31, py + 31) = {FALSE}
  <2>1. << <<0, 0>>, <<0, 31>>, <<31, 0>>, <<31, 31>> >> \in Box \X Box \X Box \X Box
    BY DEF Box
  <2>2. px + 0 = px /\ py + 0 = py
    OBVIOUS
  <2> QED BY <1>1, <2>1, <2>2
<1>3. At(px, py + j) = {FALSE} /\ At(px + 31, py + j) = {FALSE}
  <2>1. At(px, py + j) = At(px, py) \/ At(px, py + j) = At(px, py + 31)
    BY BetweenY
  <2>2. At(px + 31, py + j) = At(px + 31, py) \/ At(px + 31, py + j) = At(px + 31, py + 31)
    BY BetweenY
  <2> QED BY <1>2, <2>1, <2>2
<1>4. At(px + i, py + j) = At(px, py + j) \/ At(px + i, py + j) = At(px + 31, py + j)
  BY BetweenX
<1> QED BY <1>3, <1>4

-----------------------------------------------------------------------------
(***************************************************************************)
(* One step.  An enemy that sees no wall in front of it may go one step on *)
(* and will be off the walls but for the margin.                           *)
(***************************************************************************)

\* It may be floor.
Floor(a, b) == FALSE \in At(a, b)

LEMMA FloorBetween ==
  /\ \A p, q, r, b \in Int : p <= q /\ q <= r /\ r <= p + 31 /\ Floor(p, b) /\ Floor(r, b)
                              => Floor(q, b)
  /\ \A p, q, r, a \in Int : p <= q /\ q <= r /\ r <= p + 31 /\ Floor(a, p) /\ Floor(a, r)
                              => Floor(a, q)
<1>1. ASSUME NEW p \in Int, NEW q \in Int, NEW r \in Int, NEW b \in Int,
             p <= q, q <= r, r <= p + 31
      PROVE  /\ Floor(p, b) /\ Floor(r, b) => Floor(q, b)
             /\ Floor(b, p) /\ Floor(b, r) => Floor(b, q)
  <2>1. At(q, b) = At(p, b) \/ At(q, b) = At(r, b)
    BY <1>1, BetweenX
  <2>2. At(b, q) = At(b, p) \/ At(b, q) = At(b, r)
    BY <1>1, BetweenY
  <2> QED BY <2>1, <2>2 DEF Floor
<1> QED BY <1>1

\* The inner box, moved by up to four pixels towards an edge of the box that is
\* on the floor, is on the floor.
LEMMA InnerMoves ==
  ASSUME NEW p \in Int, NEW b \in Int, NEW s \in 0 .. 4
  PROVE  /\ Floor(p + 4, b) /\ Floor(p + 27, b) /\ Floor(p + 31, b)
              => Floor(p + s + 4, b) /\ Floor(p + s + 27, b)
         /\ Floor(p + 4, b) /\ Floor(p + 27, b) /\ Floor(p, b)
              => Floor(p - s + 4, b) /\ Floor(p - s + 27, b)
         /\ Floor(b, p + 4) /\ Floor(b, p + 27) /\ Floor(b, p + 31)
              => Floor(b, p + s + 4) /\ Floor(b, p + s + 27)
         /\ Floor(b, p + 4) /\ Floor(b, p + 27) /\ Floor(b, p)
              => Floor(b, p - s + 4) /\ Floor(b, p - s + 27)
<1>1. PICK u1 \in Int, u2 \in Int, v1 \in Int, v2 \in Int, p4 \in Int, p27 \in Int, p31 \in Int :
        /\ u1 = p + s + 4 /\ u2 = p + s + 27 /\ v1 = p - s + 4 /\ v2 = p - s + 27
        /\ p4 = p + 4 /\ p27 = p + 27 /\ p31 = p + 31
  OBVIOUS
<1>2. /\ p4 <= u1 /\ u1 <= p27 /\ p27 <= u2 /\ u2 <= p31 /\ p27 <= p4 + 31 /\ p31 <= p27 + 31
      /\ p <= v1 /\ v1 <= p4 /\ p4 <= v2 /\ v2 <= p27 /\ p4 <= p + 31
  BY <1>1
<1> QED BY <1>1, <1>2, FloorBetween

LEMMA BlockedFalse ==
  ASSUME NEW d, NEW px, NEW py
  PROVE  FALSE \in Blocked(d, px, py) <=> \A c \in Corners(d) : Floor(px + c[1], py + c[2])
  BY DEF Blocked, Floor, At

LEMMA BlockedTrue ==
  ASSUME NEW d, NEW px, NEW py
  PROVE  TRUE \in Blocked(d, px, py) <=>
           \E c \in Corners(d) : TRUE \in At(px + c[1], py + c[2])
  BY DEF Blocked, At

LEMMA WideWide == ASSUME NEW a \in Int, NEW i \in Int PROVE Wide(Wide(a) + i) = Wide(a + i)
  BY DEF Wide

\* The corners of the inner box.
LEMMA FloorInsideIs ==
  ASSUME NEW px \in Int, NEW py \in Int
  PROVE  FloorInside(Wide(px), Wide(py), 4) <=>
           /\ Floor(px + 4, py + 4) /\ Floor(px + 4, py + 27)
           /\ Floor(px + 27, py + 4) /\ Floor(px + 27, py + 27)
<1>1. FloorInside(Wide(px), Wide(py), 4) <=>
        \A c \in {4, 27} \X {4, 27} :
          FALSE \in Answers(Wide(Wide(px) + c[1]), Wide(Wide(py) + c[2]))
  BY DEF FloorInside
<1>2. \A i \in {4, 27}, j \in {4, 27} :
        Answers(Wide(Wide(px) + i), Wide(Wide(py) + j)) = At(px + i, py + j)
  BY WideWide DEF At
<1>3. FloorInside(Wide(px), Wide(py), 4) <=>
        \A i \in {4, 27}, j \in {4, 27} :
          FALSE \in Answers(Wide(Wide(px) + i), Wide(Wide(py) + j))
  <2>1. \A c \in {4, 27} \X {4, 27} :
          c[1] \in {4, 27} /\ c[2] \in {4, 27}
    OBVIOUS
  <2>2. \A i \in {4, 27}, j \in {4, 27} :
          <<i, j>> \in {4, 27} \X {4, 27} /\ <<i, j>>[1] = i /\ <<i, j>>[2] = j
    OBVIOUS
  <2> QED BY <1>1, <2>1, <2>2
<1>4. FloorInside(Wide(px), Wide(py), 4) <=>
        \A i \in {4, 27}, j \in {4, 27} : Floor(px + i, py + j)
  BY <1>2, <1>3 DEF Floor
<1> QED BY <1>4

LEMMA AheadCases ==
  ASSUME NEW d \in Dir
  PROVE  \E s \in {2, 4} :
           \/ d = Still /\ Ahead(d) = <<0, 0>>  /\ Corners(d) = {}
           \/ d = Left  /\ Ahead(d) = <<-2, 0>> /\ Corners(d) = {<<0, 0>>, <<0, 31>>}
           \/ d = Right /\ Ahead(d) = <<2, 0>>  /\ Corners(d) = {<<31, 0>>, <<31, 31>>}
           \/ d = Down  /\ Ahead(d) = <<0, s>>  /\ Corners(d) = {<<0, 31>>, <<31, 31>>}
           \/ d = Up    /\ Ahead(d) = <<0, -s>> /\ Corners(d) = {<<0, 0>>, <<31, 0>>}
<1> USE DEF Ahead, Corners, Box, Enemy_X_Step, Enemy_Y_Step, Still, Left, Right, Down, Up
<1>1. CASE d = Still
  BY <1>1
<1>2. CASE d = Left
  BY <1>2
<1>3. CASE d = Right
  BY <1>3
<1>4. CASE d = Down
  BY <1>4
<1>5. CASE d = Up
  BY <1>5
<1> QED BY <1>1, <1>2, <1>3, <1>4, <1>5 DEF Dir

\* No wall in front: one step on, the inner box is off the walls.
LEMMA StepOn ==
  ASSUME NEW d \in Dir, NEW px, NEW py, px \in 0 .. 1023, py \in 0 .. 1023,
         FloorInside(px, py, 4), FALSE \in Blocked(d, px, py)
  PROVE  FloorInside(Wide(px + Ahead(d)[1]), Wide(py + Ahead(d)[2]), 4)
<1>1. /\ px \in Int /\ py \in Int /\ Wide(px) = px /\ Wide(py) = py
      /\ px + 0 = px /\ py + 0 = py
  BY DEF Wide
<1>2. /\ Floor(px + 4, py + 4) /\ Floor(px + 4, py + 27)
      /\ Floor(px + 27, py + 4) /\ Floor(px + 27, py + 27)
  BY <1>1, FloorInsideIs
<1>3. \A c \in Corners(d) : Floor(px + c[1], py + c[2])
  BY BlockedFalse
<1>4. PICK s \in {2, 4} :
        \/ d = Still /\ Ahead(d) = <<0, 0>>  /\ Corners(d) = {}
        \/ d = Left  /\ Ahead(d) = <<-2, 0>> /\ Corners(d) = {<<0, 0>>, <<0, 31>>}
        \/ d = Right /\ Ahead(d) = <<2, 0>>  /\ Corners(d) = {<<31, 0>>, <<31, 31>>}
        \/ d = Down  /\ Ahead(d) = <<0, s>>  /\ Corners(d) = {<<0, 31>>, <<31, 31>>}
        \/ d = Up    /\ Ahead(d) = <<0, -s>> /\ Corners(d) = {<<0, 0>>, <<31, 0>>}
  BY AheadCases
<1>5. PICK x4 \in Int, x27 \in Int, x31 \in Int, y4 \in Int, y27 \in Int, y31 \in Int :
        /\ x4 = px + 4 /\ x27 = px + 27 /\ x31 = px + 31
        /\ y4 = py + 4 /\ y27 = py + 27 /\ y31 = py + 31
  OBVIOUS
<1>6. CASE d = Still /\ Ahead(d) = <<0, 0>>
  BY <1>1, <1>6
<1>7. CASE d = Left /\ Ahead(d) = <<-2, 0>> /\ Corners(d) = {<<0, 0>>, <<0, 31>>}
  <2>1. Floor(px, py) /\ Floor(px, y31)
    BY <1>1, <1>3, <1>5, <1>7
  <2>2. Floor(px, y4) /\ Floor(px, y27)
    BY <1>1, <1>5, <2>1, FloorBetween
  <2>3. /\ Floor(px - 2 + 4, y4) /\ Floor(px - 2 + 27, y4)
        /\ Floor(px - 2 + 4, y27) /\ Floor(px - 2 + 27, y27)
    BY <1>1, <1>2, <1>5, <2>2, InnerMoves
  <2>4. FloorInside(Wide(px - 2), Wide(py), 4)
    BY <1>1, <1>5, <2>3, FloorInsideIs
  <2> QED BY <1>1, <1>7, <2>4
<1>8. CASE d = Right /\ Ahead(d) = <<2, 0>> /\ Corners(d) = {<<31, 0>>, <<31, 31>>}
  <2>1. Floor(x31, py) /\ Floor(x31, y31)
    BY <1>1, <1>3, <1>5, <1>8
  <2>2. Floor(x31, y4) /\ Floor(x31, y27)
    BY <1>1, <1>5, <2>1, FloorBetween
  <2>3. /\ Floor(px + 2 + 4, y4) /\ Floor(px + 2 + 27, y4)
        /\ Floor(px + 2 + 4, y27) /\ Floor(px + 2 + 27, y27)
    BY <1>1, <1>2, <1>5, <2>2, InnerMoves
  <2>4. FloorInside(Wide(px + 2), Wide(py), 4)
    BY <1>1, <1>5, <2>3, FloorInsideIs
  <2> QED BY <1>1, <1>8, <2>4
<1>9. CASE d = Down /\ Ahead(d) = <<0, s>> /\ Corners(d) = {<<0, 31>>, <<31, 31>>}
  <2>1. Floor(px, y31) /\ Floor(x31, y31)
    BY <1>1, <1>3, <1>5, <1>9
  <2>2. Floor(x4, y31) /\ Floor(x27, y31)
    BY <1>1, <1>5, <2>1, FloorBetween
  <2>3. /\ Floor(x4, py + s + 4) /\ Floor(x4, py + s + 27)
        /\ Floor(x27, py + s + 4) /\ Floor(x27, py + s + 27)
    BY <1>1, <1>2, <1>5, <2>2, InnerMoves
  <2>4. FloorInside(Wide(px), Wide(py + s), 4)
    BY <1>1, <1>5, <2>3, FloorInsideIs
  <2> QED BY <1>1, <1>9, <2>4
<1>10. CASE d = Up /\ Ahead(d) = <<0, -s>> /\ Corners(d) = {<<0, 0>>, <<31, 0>>}
  <2>1. Floor(px, py) /\ Floor(x31, py)
    BY <1>1, <1>3, <1>5, <1>10
  <2>2. Floor(x4, py) /\ Floor(x27, py)
    BY <1>1, <1>5, <2>1, FloorBetween
  <2>3. /\ Floor(x4, py - s + 4) /\ Floor(x4, py - s + 27)
        /\ Floor(x27, py - s + 4) /\ Floor(x27, py - s + 27)
    BY <1>1, <1>2, <1>5, <2>2, InnerMoves
  <2>4. FloorInside(Wide(px), Wide(py - s), 4)
    BY <1>1, <1>5, <2>3, FloorInsideIs
  <2>5. py + (-s) = py - s
    BY <1>1
  <2> QED BY <1>1, <1>10, <2>4, <2>5
<1> QED BY <1>4, <1>6, <1>7, <1>8, <1>9, <1>10

-----------------------------------------------------------------------------
(***************************************************************************)
(* The inductive invariant.  An enemy that bounces goes back where it came *)
(* from, and may see a wall again (behind the edge of the screen, where    *)
(* the ROMs answer anything, even twice in different ways).  So what must  *)
(* be kept is a set of places over which it can retreat: each of them is   *)
(* off the walls but for the margin, and from each of them one step back   *)
(* leads to another, or no wall is seen there.                             *)
(***************************************************************************)

Coord == 0 .. 1023
Spot(a, b) == <<a, b>>
Onward(d, a, b) == Spot(Wide(a + Ahead(d)[1]), Wide(b + Ahead(d)[2]))
Behind(d, a, b) == Spot(Wide(a - Ahead(d)[1]), Wide(b - Ahead(d)[2]))

Inner(a, b) == FloorInside(a, b, 4)
SeesWall(d, a, b) == TRUE \in Blocked(d, a, b)

Retreat(d, T) ==
  \A a, b \in Coord :
    Spot(a, b) \in T => /\ Inner(a, b)
                        /\ SeesWall(d, a, b) => Behind(d, a, b) \in T

\* The enemy is on its retreat, and after the next frame it will be.
WallInv ==
  ~lost => \E T : /\ Retreat(lastDir, T)
                  /\ Spot(x, y) \in T
                  /\ Spot(Wide(x + x_motion), Wide(y + y_motion)) \in T

LEMMA SameSpot == \A a, b, c, d : Spot(a, b) = Spot(c, d) => a = c /\ b = d
  BY DEF Spot

LEMMA AheadFacts ==
  ASSUME NEW d \in Dir
  PROVE  \E sx, sy \in Int : Ahead(d)[1] = sx /\ Ahead(d)[2] = sy
<1>1. Ahead(d)[1] \in Int /\ Ahead(d)[2] \in Int
  BY DEF Ahead, Enemy_X_Step, Enemy_Y_Step
<1> QED BY <1>1

\* One step on is a place, and one step back from there is where it was.
LEMMA OnwardFacts ==
  ASSUME NEW d \in Dir, NEW px \in Coord, NEW py \in Coord
  PROVE  \E nx, ny \in Coord :
           /\ Onward(d, px, py) = Spot(nx, ny) /\ Behind(d, nx, ny) = Spot(px, py)
           /\ nx = Wide(px + Ahead(d)[1]) /\ ny = Wide(py + Ahead(d)[2])
<1>1. PICK sx \in Int, sy \in Int : Ahead(d)[1] = sx /\ Ahead(d)[2] = sy
  BY AheadFacts
<1>2. PICK nx \in Int, ny \in Int : nx = Wide(px + sx) /\ ny = Wide(py + sy)
  BY DEF Wide, Coord
<1>3. /\ nx \in Coord /\ ny \in Coord
      /\ Wide(nx - sx) = px /\ Wide(ny - sy) = py
  <2>1. nx \in Coord /\ ny \in Coord
    <3>1. PICK m \in Int, n \in Int : m = px + sx /\ n = py + sy
      BY DEF Coord
    <3>2. Wide(m) \in Coord /\ Wide(n) \in Coord
      BY DEF Wide, Coord
    <3> QED BY <1>2, <3>1, <3>2
  <2>2. Wide(nx - sx) = px
    BY <1>2 DEF Wide, Coord
  <2>3. Wide(ny - sy) = py
    BY <1>2 DEF Wide, Coord
  <2> QED BY <2>1, <2>2, <2>3
<1>4. nx = Wide(px + Ahead(d)[1]) /\ ny = Wide(py + Ahead(d)[2])
  BY <1>1, <1>2
<1>5. Onward(d, px, py) = Spot(nx, ny)
  BY <1>4 DEF Onward
<1>6. Behind(d, nx, ny) = Spot(px, py)
  BY <1>1, <1>3 DEF Behind
<1> QED BY <1>3, <1>4, <1>5, <1>6

\* No wall in front: the place one step on belongs to the retreat as well.
LEMMA RetreatGrows ==
  ASSUME NEW d \in Dir, NEW T, Retreat(d, T),
         NEW px \in Coord, NEW py \in Coord, Spot(px, py) \in T,
         FALSE \in Blocked(d, px, py)
  PROVE  Retreat(d, T \union {Onward(d, px, py)})
<1>1. PICK nx \in Coord, ny \in Coord :
        /\ Onward(d, px, py) = Spot(nx, ny) /\ Behind(d, nx, ny) = Spot(px, py)
        /\ nx = Wide(px + Ahead(d)[1]) /\ ny = Wide(py + Ahead(d)[2])
  BY OnwardFacts
<1>2. Inner(nx, ny)
  <2>1. FloorInside(px, py, 4)
    BY DEF Retreat, Inner
  <2>2. px \in 0 .. 1023 /\ py \in 0 .. 1023
    BY DEF Coord
  <2>3. FloorInside(Wide(px + Ahead(d)[1]), Wide(py + Ahead(d)[2]), 4)
    BY <2>1, <2>2, StepOn
  <2> QED BY <1>1, <2>3 DEF Inner
<1> QED BY <1>1, <1>2, SameSpot DEF Retreat

\* The places up to four pixels before and behind, in a direction.
StripX(d) == IF d \in {Left, Right} THEN -4 .. 4 ELSE {0}
StripY(d) == IF d \in {Up, Down} THEN -4 .. 4 ELSE {0}
Around(d, px, py) == {Spot(Wide(px + i), Wide(py + j)) : i \in StripX(d), j \in StripY(d)}

LEMMA StripBack ==
  ASSUME NEW d \in Dir, NEW i \in StripX(d), NEW j \in StripY(d)
  PROVE  /\ i \in -4 .. 4 /\ j \in -4 .. 4
         /\ \/ \A c \in Corners(d) : i + c[1] \in 0 .. 31 /\ j + c[2] \in 0 .. 31
            \/ i - Ahead(d)[1] \in StripX(d) /\ j - Ahead(d)[2] \in StripY(d)
<1>1. i \in -4 .. 4 /\ j \in -4 .. 4
  BY DEF StripX, StripY
<1>2. PICK s \in {2, 4} :
        \/ d = Still /\ Ahead(d) = <<0, 0>>  /\ Corners(d) = {}
        \/ d = Left  /\ Ahead(d) = <<-2, 0>> /\ Corners(d) = {<<0, 0>>, <<0, 31>>}
        \/ d = Right /\ Ahead(d) = <<2, 0>>  /\ Corners(d) = {<<31, 0>>, <<31, 31>>}
        \/ d = Down  /\ Ahead(d) = <<0, s>>  /\ Corners(d) = {<<0, 31>>, <<31, 31>>}
        \/ d = Up    /\ Ahead(d) = <<0, -s>> /\ Corners(d) = {<<0, 0>>, <<31, 0>>}
  BY AheadCases
<1> USE <1>1 DEF StripX, StripY, Left, Right, Up, Down, Still
<1>3. CASE d = Still /\ Corners(d) = {}
  BY <1>3
<1>4. CASE d = Left /\ Ahead(d) = <<-2, 0>> /\ Corners(d) = {<<0, 0>>, <<0, 31>>}
  BY <1>4
<1>5. CASE d = Right /\ Ahead(d) = <<2, 0>> /\ Corners(d) = {<<31, 0>>, <<31, 31>>}
  BY <1>5
<1>6. CASE d = Down /\ Ahead(d) = <<0, s>> /\ Corners(d) = {<<0, 31>>, <<31, 31>>}
  BY <1>6
<1>7. CASE d = Up /\ Ahead(d) = <<0, -s>> /\ Corners(d) = {<<0, 0>>, <<31, 0>>}
  BY <1>7
<1> QED BY <1>2, <1>3, <1>4, <1>5, <1>6, <1>7

\* Near a box that touches no wall: the inner box does not either, and with
\* all the corners in front over the old box no wall is seen.
LEMMA NearClear ==
  ASSUME NEW d \in Dir, NEW px \in Coord, NEW py \in Coord, ~InWall(px, py),
         NEW i \in -4 .. 4, NEW j \in -4 .. 4
  PROVE  /\ Inner(Wide(px + i), Wide(py + j))
         /\ (\A c \in Corners(d) : i + c[1] \in 0 .. 31 /\ j + c[2] \in 0 .. 31)
              => ~SeesWall(d, Wide(px + i), Wide(py + j))
<1>1. ASSUME NEW k \in 0 .. 31, NEW l \in 0 .. 31
      PROVE  At(px + k, py + l) = {FALSE}
  <2>1. px \in Int /\ py \in Int
    BY DEF Coord
  <2> QED BY <2>1, ClearBox
<1>2. Inner(Wide(px + i), Wide(py + j))
  <2>1. PICK i4 \in 0 .. 31, i27 \in 0 .. 31, j4 \in 0 .. 31, j27 \in 0 .. 31 :
          i4 = i + 4 /\ i27 = i + 27 /\ j4 = j + 4 /\ j27 = j + 27
    <3>1. i + 4 \in 0 .. 31 /\ i + 27 \in 0 .. 31 /\ j + 4 \in 0 .. 31 /\ j + 27 \in 0 .. 31
      OBVIOUS
    <3> QED BY <3>1
  <2>2. /\ px + i + 4 = px + i4 /\ px + i + 27 = px + i27
        /\ py + j + 4 = py + j4 /\ py + j + 27 = py + j27
        /\ px + i \in Int /\ py + j \in Int
    BY <2>1 DEF Coord
  <2>3. /\ At(px + i4, py + j4) = {FALSE} /\ At(px + i4, py + j27) = {FALSE}
        /\ At(px + i27, py + j4) = {FALSE} /\ At(px + i27, py + j27) = {FALSE}
    BY <1>1
  <2> QED BY <2>2, <2>3, FloorInsideIs DEF Floor, Inner
<1>3. ASSUME \A c \in Corners(d) : i + c[1] \in 0 .. 31 /\ j + c[2] \in 0 .. 31
      PROVE  ~SeesWall(d, Wide(px + i), Wide(py + j))
  <2>1. ASSUME NEW c \in Corners(d)
        PROVE  At(Wide(px + i) + c[1], Wide(py + j) + c[2]) = {FALSE}
    <3>1. PICK c1 \in Int, c2 \in Int : c1 = c[1] /\ c2 = c[2]
      BY DEF Corners, Box
    <3>2. PICK k \in 0 .. 31, l \in 0 .. 31 : k = i + c1 /\ l = j + c2
      BY <1>3, <3>1
    <3>3. px + i + c1 = px + k /\ py + j + c2 = py + l /\ px + i \in Int /\ py + j \in Int
      BY <3>1, <3>2 DEF Coord
    <3>4. /\ Wide(Wide(px + i) + c1) = Wide(px + k)
          /\ Wide(Wide(py + j) + c2) = Wide(py + l)
      <4>1. PICK m \in Int, n \in Int : m = px + i /\ n = py + j
        BY <3>3
      <4>2. m + c1 = px + k /\ n + c2 = py + l
        BY <3>3, <4>1
      <4>3. Wide(Wide(m) + c1) = Wide(m + c1) /\ Wide(Wide(n) + c2) = Wide(n + c2)
        BY WideWide
      <4> QED BY <4>1, <4>2, <4>3
    <3>5. At(Wide(px + i) + c1, Wide(py + j) + c2) = At(px + k, py + l)
      BY <3>4 DEF At
    <3> QED BY <1>1, <3>1, <3>5
  <2>2. PICK a, b : a = Wide(px + i) /\ b = Wide(py + j)
    OBVIOUS
  <2>3. \A c \in Corners(d) : At(a + c[1], b + c[2]) = {FALSE}
    BY <2>1, <2>2
  <2>4. ~SeesWall(d, a, b)
    BY <2>3, BlockedTrue DEF SeesWall
  <2> QED BY <2>2, <2>4
<1> QED BY <1>2, <1>3

\* Who touches no wall has a retreat: the places around it.
LEMMA RetreatStarts ==
  ASSUME NEW d \in Dir, NEW px \in Coord, NEW py \in Coord, ~InWall(px, py)
  PROVE  /\ Retreat(d, Around(d, px, py))
         /\ ~SeesWall(d, px, py)
         /\ Spot(px, py) \in Around(d, px, py)
<1>1. PICK sx \in Int, sy \in Int : Ahead(d)[1] = sx /\ Ahead(d)[2] = sy
  BY AheadFacts
<1>2. ASSUME NEW a \in Coord, NEW b \in Coord, Spot(a, b) \in Around(d, px, py)
      PROVE  Inner(a, b) /\ (SeesWall(d, a, b) => Behind(d, a, b) \in Around(d, px, py))
  <2>1. PICK i \in StripX(d), j \in StripY(d) : a = Wide(px + i) /\ b = Wide(py + j)
    BY <1>2, SameSpot DEF Around
  <2>2. i \in -4 .. 4 /\ j \in -4 .. 4
    BY StripBack
  <2>3. /\ Inner(Wide(px + i), Wide(py + j))
        /\ (\A c \in Corners(d) : i + c[1] \in 0 .. 31 /\ j + c[2] \in 0 .. 31)
             => ~SeesWall(d, Wide(px + i), Wide(py + j))
    BY <2>2, NearClear
  <2>4. CASE i - sx \in StripX(d) /\ j - sy \in StripY(d)
    <3>1. PICK di \in Int, dj \in Int : di = i - sx /\ dj = j - sy
      BY <2>2
    <3>2. di \in StripX(d) /\ dj \in StripY(d)
      BY <2>4, <3>1
    <3>3. Wide(a - sx) = Wide(px + di) /\ Wide(b - sy) = Wide(py + dj)
      BY <2>1, <2>2, <3>1 DEF Wide, Coord
    <3>4. Behind(d, a, b) = Spot(Wide(px + di), Wide(py + dj))
      BY <1>1, <3>3 DEF Behind
    <3>5. Behind(d, a, b) \in Around(d, px, py)
      BY <3>2, <3>4 DEF Around
    <3> QED BY <2>1, <2>3, <3>5
  <2>5. CASE \A c \in Corners(d) : i + c[1] \in 0 .. 31 /\ j + c[2] \in 0 .. 31
    BY <2>1, <2>3, <2>5
  <2>6. \/ \A c \in Corners(d) : i + c[1] \in 0 .. 31 /\ j + c[2] \in 0 .. 31
        \/ i - Ahead(d)[1] \in StripX(d) /\ j - Ahead(d)[2] \in StripY(d)
    BY StripBack
  <2> QED BY <1>1, <2>4, <2>5, <2>6
<1>3. 0 \in StripX(d) /\ 0 \in StripY(d)
  BY DEF StripX, StripY
<1>4. Wide(px + 0) = px /\ Wide(py + 0) = py
  BY DEF Wide, Coord
<1>5. Spot(px, py) \in Around(d, px, py)
  <2>1. Spot(Wide(px + 0), Wide(py + 0)) \in Around(d, px, py)
    BY <1>3 DEF Around
  <2> QED BY <1>4, <2>1
<1>6. ~SeesWall(d, px, py)
  <2>1. ASSUME NEW c \in Corners(d)
        PROVE  0 + c[1] \in 0 .. 31 /\ 0 + c[2] \in 0 .. 31
    BY DEF Corners, Box
  <2>2. 0 \in -4 .. 4
    OBVIOUS
  <2>3. (\A c \in Corners(d) : 0 + c[1] \in 0 .. 31 /\ 0 + c[2] \in 0 .. 31)
           => ~SeesWall(d, Wide(px + 0), Wide(py + 0))
    BY <2>2, NearClear
  <2> QED BY <1>4, <2>1, <2>3
<1> QED BY <1>2, <1>5, <1>6 DEF Retreat

\* What a retreat is does not change with the state, as long as the enemy does
\* not.
LEMMA RetreatKept ==
  ASSUME NEW d, NEW T, scene' = scene, Retreat(d, T) PROVE Retreat(d, T)'
<1>1. \A a, b : Inner(a, b)' = Inner(a, b)
  BY DEF Inner, FloorInside, Answers, OnRom
<1>2. \A a, b : SeesWall(d, a, b)' = SeesWall(d, a, b)
  BY DEF SeesWall, Blocked, Answers, OnRom
<1>3. \A a, b : Behind(d, a, b)' = Behind(d, a, b)
  BY DEF Behind, Ahead, Enemy_X_Step, Enemy_Y_Step, type
<1> QED BY <1>1, <1>2, <1>3 DEF Retreat

\* The first motion and the first spot are in the strip.
LEMMA InitWall == ASSUME Init PROVE WallInv
<1> SUFFICES ASSUME ~lost PROVE WallInv
  BY DEF WallInv
<1>1. TypeInv /\ x \in Coord /\ y \in Coord /\ dir \in Dir /\ lastDir = dir /\ ~InWall(x, y)
  BY InitTypes DEF Init, TypeInv, TypeOK, Coord
<1>2. /\ Retreat(dir, Around(dir, x, y)) /\ ~SeesWall(dir, x, y)
      /\ Spot(x, y) \in Around(dir, x, y)
  BY <1>1, RetreatStarts
<1>3. x_motion \in StripX(dir) /\ y_motion \in StripY(dir)
  <2>1. CASE x_motion = 0 /\ y_motion = 0
    BY <2>1 DEF StripX, StripY
  <2>2. ASSUME NEW b \in Blocked(dir, x, y), NEW s \in {2, 4},
               x_motion = Heading(dir, b)[1], y_motion = Sign(Heading(dir, b)[2]) * s
        PROVE  x_motion \in StripX(dir) /\ y_motion \in StripY(dir)
    <3>1. b = FALSE
      BY <1>2 DEF SeesWall, Blocked
    <3>2. PICK t \in {2, 4} :
        \/ dir = Still /\ Ahead(dir) = <<0, 0>>  /\ Corners(dir) = {}
        \/ dir = Left  /\ Ahead(dir) = <<-2, 0>> /\ Corners(dir) = {<<0, 0>>, <<0, 31>>}
        \/ dir = Right /\ Ahead(dir) = <<2, 0>>  /\ Corners(dir) = {<<31, 0>>, <<31, 31>>}
        \/ dir = Down  /\ Ahead(dir) = <<0, t>>  /\ Corners(dir) = {<<0, 31>>, <<31, 31>>}
        \/ dir = Up    /\ Ahead(dir) = <<0, -t>> /\ Corners(dir) = {<<0, 0>>, <<31, 0>>}
      BY <1>1, AheadCases
    <3>3. x_motion = Ahead(dir)[1] /\ y_motion = Sign(Ahead(dir)[2]) * s
      BY <2>2, <3>1 DEF Heading
    <3> QED BY <3>2, <3>3 DEF Sign, StripX, StripY, Still, Left, Right, Up, Down
  <2> QED BY <2>1, <2>2 DEF Init
<1>4. Spot(Wide(x + x_motion), Wide(y + y_motion)) \in Around(dir, x, y)
  BY <1>3 DEF Around
<1> QED BY <1>1, <1>2, <1>4 DEF WallInv

\* One step in its direction, from a spot on a retreat, or one step back from
\* a wall.
LEMMA OnTheRetreat ==
  ASSUME NEW d \in Dir, NEW T, Retreat(d, T), NEW px \in Coord, NEW py \in Coord,
         Spot(px, py) \in T, NEW b \in Blocked(d, px, py)
  PROVE  \E U : /\ Retreat(d, U) /\ Spot(px, py) \in U
                /\ Spot(Wide(px + Heading(d, b)[1]), Wide(py + Heading(d, b)[2])) \in U
<1>1. b \in BOOLEAN
  BY DEF Blocked
<1>2. CASE b = FALSE
  <2>1. Retreat(d, T \union {Onward(d, px, py)})
    BY <1>2, RetreatGrows
  <2>2. Onward(d, px, py) = Spot(Wide(px + Heading(d, b)[1]), Wide(py + Heading(d, b)[2]))
    BY <1>2 DEF Heading, Onward
  <2> QED BY <2>1, <2>2
<1>3. CASE b = TRUE
  <2>1. Behind(d, px, py) \in T
    BY <1>3 DEF Retreat, SeesWall
  <2>2. Behind(d, px, py) = Spot(Wide(px + Heading(d, b)[1]), Wide(py + Heading(d, b)[2]))
    <3>1. PICK sx \in Int, sy \in Int : Ahead(d)[1] = sx /\ Ahead(d)[2] = sy
      BY AheadFacts
    <3>2. Heading(d, b)[1] = -sx /\ Heading(d, b)[2] = -sy
      BY <1>3, <3>1 DEF Heading
    <3>3. px + (-sx) = px - sx /\ py + (-sy) = py - sy
      BY DEF Coord
    <3> QED BY <3>1, <3>2, <3>3 DEF Behind
  <2> QED BY <2>1, <2>2
<1> QED BY <1>1, <1>2, <1>3

LEMMA FrameWall == ASSUME TypeInv, TypeInv', WallInv, Frame PROVE WallInv'
<1> SUFFICES ASSUME ~lost' PROVE WallInv'
  BY DEF WallInv
<1>1. /\ scene' = scene /\ dir' = dir /\ lastDir' = dir /\ ~lost
      /\ x' = Wide(x + x_motion) /\ y' = Wide(y + y_motion)
      /\ dir = lastDir \/ ~InWall(x', y')
  BY DEF Frame
<1>2. dir \in Dir /\ x' \in Coord /\ y' \in Coord
  BY DEF TypeInv, TypeOK, Coord
<1>3. PICK px, py : px = x' /\ py = y'
  OBVIOUS
<1>4. PICK b \in Blocked(dir, px, py) :
        x_motion' = Heading(dir, b)[1] /\ y_motion' = Heading(dir, b)[2]
  BY <1>3 DEF Frame
<1>5. PICK T : Retreat(dir, T) /\ Spot(px, py) \in T
  <2>1. CASE dir = lastDir
    BY <1>1, <1>3, <2>1 DEF WallInv
  <2>2. CASE ~InWall(px, py)
    BY <1>2, <1>3, <2>2, RetreatStarts
  <2> QED BY <1>1, <1>3, <2>1, <2>2
<1>6. PICK U : /\ Retreat(dir, U) /\ Spot(px, py) \in U
               /\ Spot(Wide(px + Heading(dir, b)[1]), Wide(py + Heading(dir, b)[2])) \in U
  BY <1>2, <1>3, <1>4, <1>5, OnTheRetreat
<1>7. PICK d : d = dir
  OBVIOUS
<1>8. Retreat(d, U)'
  BY <1>1, <1>6, <1>7, RetreatKept
<1>9. Retreat(lastDir, U)'
  BY <1>1, <1>7, <1>8
<1>10. /\ Spot(x', y') \in U
       /\ Spot(Wide(x' + x_motion'), Wide(y' + y_motion')) \in U
  BY <1>3, <1>4, <1>6
<1> QED BY <1>9, <1>10 DEF WallInv

LEMMA PassWall == ASSUME scene' = scene, UNCHANGED <<walkVars, lastDir, lost>>, WallInv PROVE WallInv'
<1> SUFFICES ASSUME ~lost PROVE WallInv'
  BY DEF WallInv
<1>1. PICK T : /\ Retreat(lastDir, T) /\ Spot(x, y) \in T
               /\ Spot(Wide(x + x_motion), Wide(y + y_motion)) \in T
  BY DEF WallInv
<1>2. PICK d : d = lastDir
  OBVIOUS
<1>3. Retreat(d, T)'
  BY <1>1, <1>2, RetreatKept
<1>4. Retreat(lastDir, T)'
  BY <1>2, <1>3
<1> QED BY <1>1, <1>4 DEF WallInv, walkVars

\* An enemy that has touched no wall at a turn is never deeper in one than one
\* step, on the screen and off it, whatever the walls, the player, the order
\* of the accesses and the answers of the ROMs beyond the edge of the screen
\* (Enemy.sv:91-248).
THEOREM OneStepAtMost == Spec => []OneStepIntoWalls
<1>1. Init => WallInv
  BY InitWall
<1>2. TypeInv /\ TypeInv' /\ WallInv /\ [Next]_vars => WallInv'
  <2> SUFFICES ASSUME TypeInv, TypeInv', WallInv, [Next]_vars PROVE WallInv'
    OBVIOUS
  <2>1. CASE Frame
    BY <2>1, FrameWall
  <2>2. CASE Pass
    BY <2>2, PassFacts, PassWall
  <2>3. CASE UNCHANGED vars
    BY <2>3, PassWall DEF vars
  <2> QED BY <2>1, <2>2, <2>3 DEF Next
<1>3. TypeInv /\ WallInv => OneStepIntoWalls
  <2> SUFFICES ASSUME TypeInv, WallInv, ~lost PROVE FloorInside(x, y, 4)
    BY DEF OneStepIntoWalls
  <2>1. x \in Coord /\ y \in Coord
    BY DEF TypeInv, TypeOK, Coord
  <2>2. Inner(x, y)
    BY <2>1 DEF WallInv, Retreat
  <2> QED BY <2>2 DEF Inner
<1> QED BY <1>1, <1>2, <1>3, TypeInvariance, PTL DEF Spec

=============================================================================
