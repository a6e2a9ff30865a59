--------------------------- MODULE DungeonProofs ----------------------------
(***************************************************************************)
(* Proofs about the dungeon, for every step size from 1 to 31, every start *)
(* position on the field and every level ROM whose doors match up.         *)
(***************************************************************************)
EXTENDS Dungeon, TLAPS

\* The state machine of RoomState.sv stays within its eight rooms.
LEMMA BehindType == ASSUME NEW r \in Room, NEW d PROVE Behind(r, d) \in Room
BY DEF Behind

\* Ten-bit wrap-around of a sum of two ten-bit numbers.
LEMMA Wrap ==
  ASSUME NEW n \in Nat, n < 2048
  PROVE  /\ n < 1024 => n % 1024 = n
         /\ n >= 1024 => n % 1024 = n - 1024
OBVIOUS

\* What the ten-bit adder of Player.sv:81-82 computes on the field.
LEMMA Adder ==
  ASSUME NEW p \in Nat, p \in 1 .. 607, NEW m \in Nat, m \in Motion
  PROVE  /\ Plus(p, m) \in Nat /\ Plus(p, m) <= 1023
         /\ m = 0 => Plus(p, m) = p
         /\ m = Step => Plus(p, m) = p + Step
         /\ m = Negative /\ p >= Step => Plus(p, m) = p - Step
         /\ m = Negative /\ p < Step => Plus(p, m) = 1024 + p - Step
<1>1. Step \in Nat /\ 1 <= Step /\ Step <= 31
  BY StepAssumption
<1>2. PICK n \in Nat : n = p + m /\ n < 2048
  BY <1>1 DEF Motion, Negative, Ten
<1>3. Plus(p, m) = n % 1024
  BY <1>2 DEF Plus, Ten
<1>4. /\ n < 1024 => n % 1024 = n
      /\ n >= 1024 => n % 1024 = n - 1024
  BY <1>2, Wrap
<1> QED
  BY <1>1, <1>2, <1>3, <1>4 DEF Motion, Negative, Ten

-----------------------------------------------------------------------------
(***************************************************************************)
(* The inductive invariant.  OneAxis is what keeps a player who leaves by  *)
(* the top or bottom door on the field in x as well (Player.sv tests y     *)
(* first); HeldAtStart is what a restart relies on.                        *)
(***************************************************************************)

\* The controls move the player along one axis at a time (Player.sv:100-196).
OneAxis == Player_X_Motion = 0 \/ Player_Y_Motion = 0

\* Between the two edges of a restart the player stands at the start.
HeldAtStart ==
  phase = "vsync" /\ game_over =>
    Player_X = Player_X_Center /\ Player_Y = Player_Y_Center

IInv == TypeOK /\ OneAxis /\ HeldAtStart /\ NeverInWall /\ DoorsLeadOut

USE DEF MinX, MaxX, MinY, MaxY, NoDoor, TopDoor, BottomDoor, LeftDoor, RightDoor

\* Where one frame takes a player who is on the field, door by door.
LEMMA FrameCases ==
  ASSUME TypeOK, OneAxis, NEW key, NEW r, PlayerFrame(key, r)
  PROVE  /\ Player_X' \in MinX .. MaxX /\ Player_Y' \in MinY .. MaxY
         /\ doorcode' \in DoorCode
         /\ doorcode' = TopDoor =>
              Player_Y < MinY + Step
              /\ Player_X' = Player_X /\ Player_Y' = MaxY
         /\ doorcode' = BottomDoor =>
              Player_Y > MaxY - Step
              /\ Player_X' = Player_X /\ Player_Y' = MinY
         /\ doorcode' = LeftDoor =>
              Player_X <= Step
              /\ Player_X' = MaxX /\ Player_Y' = Player_Y
         /\ doorcode' = RightDoor =>
              Player_X > MaxX - Step
              /\ Player_X' = MinX /\ Player_Y' = Player_Y
         /\ doorcode' = NoDoor =>
              \/ Player_X' = Player_X /\ Player_Y' = Player_Y
              \/ ~Blocked(r, Player_X', Player_Y')
         /\ doorcode' = NoDoor =>
              /\ Player_X - Step <= Player_X' /\ Player_X' <= Player_X + Step
              /\ Player_Y - Step <= Player_Y' /\ Player_Y' <= Player_Y + Step
<1>1. Step \in Nat /\ 1 <= Step /\ Step <= 31
  BY StepAssumption
<1>2. /\ Player_X \in 1 .. 607 /\ Player_Y \in 32 .. 447 /\ Player_Y \in 1 .. 607
      /\ Player_X_Motion \in Motion /\ Player_Y_Motion \in Motion
      /\ Player_X_Motion \in Nat /\ Player_Y_Motion \in Nat
  BY <1>1 DEF TypeOK, Motion, Negative, Ten
<1>3. /\ MovedX \in 0 .. 1023
      /\ Player_X_Motion = 0 => MovedX = Player_X
      /\ Player_X_Motion = Step => MovedX = Player_X + Step
      /\ Player_X_Motion = Negative /\ Player_X >= Step => MovedX = Player_X - Step
      /\ Player_X_Motion = Negative /\ Player_X < Step => MovedX = 1024 + Player_X - Step
  <2>1. MovedX = Plus(Player_X, Player_X_Motion)
    BY DEF MovedX
  <2>2. Plus(Player_X, Player_X_Motion) \in Nat /\ Plus(Player_X, Player_X_Motion) <= 1023
    BY <1>2, Adder
  <2>3. /\ Player_X_Motion = 0 => Plus(Player_X, Player_X_Motion) = Player_X
        /\ Player_X_Motion = Step => Plus(Player_X, Player_X_Motion) = Player_X + Step
        /\ Player_X_Motion = Negative /\ Player_X >= Step
             => Plus(Player_X, Player_X_Motion) = Player_X - Step
        /\ Player_X_Motion = Negative /\ Player_X < Step
             => Plus(Player_X, Player_X_Motion) = 1024 + Player_X - Step
    BY <1>2, Adder
  <2> QED BY <2>1, <2>2, <2>3
<1>4. /\ MovedY \in 0 .. 1023
      /\ Player_Y_Motion = 0 => MovedY = Player_Y
      /\ Player_Y_Motion = Step => MovedY = Player_Y + Step
      /\ Player_Y_Motion = Negative => MovedY = Player_Y - Step
  <2>1. Player_Y >= Step
    BY <1>1, <1>2
  <2>2. MovedY = Plus(Player_Y, Player_Y_Motion)
    BY DEF MovedY
  <2>3. Plus(Player_Y, Player_Y_Motion) \in Nat /\ Plus(Player_Y, Player_Y_Motion) <= 1023
    BY <1>2, Adder
  <2>4. /\ Player_Y_Motion = 0 => Plus(Player_Y, Player_Y_Motion) = Player_Y
        /\ Player_Y_Motion = Step => Plus(Player_Y, Player_Y_Motion) = Player_Y + Step
        /\ Player_Y_Motion = Negative => Plus(Player_Y, Player_Y_Motion) = Player_Y - Step
    BY <2>1, <1>2, Adder
  <2> QED BY <2>2, <2>3, <2>4
<1>5. Player_X_Motion = 0 \/ Player_X_Motion = Step \/ Player_X_Motion = Negative
  BY <1>2 DEF Motion
<1>6. Player_Y_Motion = 0 \/ Player_Y_Motion = Step \/ Player_Y_Motion = Negative
  BY <1>2 DEF Motion
<1>7. doorcode' = DoorAt(MovedX, MovedY)
  BY <1>3, <1>4 DEF PlayerFrame
<1>8. CASE doorcode' = TopDoor
  <2>1. Player_X' = MovedX /\ Player_Y' = 447
    BY <1>3, <1>8 DEF PlayerFrame
  <2>2. MovedY < 32
    BY <1>4, <1>7, <1>8 DEF DoorAt
  <2>3. Player_Y_Motion # 0 /\ Player_Y < 32 + Step
    BY <2>2, <1>1, <1>2, <1>4, <1>6
  <2>4. MovedX = Player_X
    BY <2>3, <1>3 DEF OneAxis
  <2> QED BY <2>1, <2>3, <2>4, <1>1, <1>2, <1>8 DEF DoorCode, Door
<1>9. CASE doorcode' = BottomDoor
  <2>1. Player_X' = MovedX /\ Player_Y' = 32
    BY <1>3, <1>9 DEF PlayerFrame
  <2>2. MovedY > 447
    BY <1>4, <1>7, <1>9 DEF DoorAt
  <2>3. Player_Y_Motion # 0 /\ Player_Y > 447 - Step
    BY <2>2, <1>1, <1>2, <1>4, <1>6
  <2>4. MovedX = Player_X
    BY <2>3, <1>3 DEF OneAxis
  <2> QED BY <2>1, <2>3, <2>4, <1>1, <1>2, <1>9 DEF DoorCode, Door
<1>10. CASE doorcode' = LeftDoor
  <2>1. Player_X' = 607 /\ Player_Y' = MovedY
    BY <1>4, <1>10 DEF PlayerFrame
  <2>2. MovedX = 0 \/ MovedX >= 700
    BY <1>3, <1>4, <1>7, <1>10 DEF DoorAt
  <2>3. Player_X_Motion # 0 /\ Player_X <= Step
    BY <2>2, <1>1, <1>2, <1>3, <1>5
  <2>4. MovedY = Player_Y
    BY <2>3, <1>4 DEF OneAxis
  <2> QED BY <2>1, <2>3, <2>4, <1>1, <1>2, <1>10 DEF DoorCode, Door
<1>11. CASE doorcode' = RightDoor
  <2>1. Player_X' = 1 /\ Player_Y' = MovedY
    BY <1>4, <1>11 DEF PlayerFrame
  <2>2. MovedX > 607 /\ MovedX < 700
    BY <1>3, <1>4, <1>7, <1>11 DEF DoorAt
  <2>3. Player_X_Motion # 0 /\ Player_X > 607 - Step
    BY <2>2, <1>1, <1>2, <1>3, <1>5
  <2>4. MovedY = Player_Y
    BY <2>3, <1>4 DEF OneAxis
  <2> QED BY <2>1, <2>3, <2>4, <1>1, <1>2, <1>11 DEF DoorCode, Door
<1>12. CASE doorcode' = NoDoor
  <2>1. MovedX \in 1 .. 607 /\ MovedY \in 32 .. 447
    <3>1. DoorAt(MovedX, MovedY) = 0
      BY <1>7, <1>12
    <3>2. ~(MovedY < 32) /\ ~(MovedY > 447) /\ ~(MovedX = 0) /\ ~(MovedX >= 700) /\ ~(MovedX > 607)
      BY <3>1 DEF DoorAt
    <3> QED BY <3>2, <1>3, <1>4
  <2>2. \/ Player_X' = Player_X /\ Player_Y' = Player_Y
        \/ Player_X' = MovedX /\ Player_Y' = MovedY /\ ~Blocked(r, MovedX, MovedY)
    BY <1>3, <1>4, <1>12 DEF PlayerFrame, Stopped
  <2>3. CASE Player_X' = Player_X /\ Player_Y' = Player_Y
    BY <2>3, <1>1, <1>2, <1>12 DEF DoorCode
  <2>4. CASE Player_X' = MovedX /\ Player_Y' = MovedY /\ ~Blocked(r, MovedX, MovedY)
    <3>1. Player_X - Step <= MovedX /\ MovedX <= Player_X + Step
      BY <2>1, <1>1, <1>2, <1>3, <1>5
    <3>2. Player_Y - Step <= MovedY /\ MovedY <= Player_Y + Step
      BY <1>1, <1>2, <1>4, <1>6
    <3> QED BY <2>4, <2>1, <3>1, <3>2, <1>12 DEF DoorCode
  <2> QED BY <2>2, <2>3, <2>4
<1> QED
  <2>1. doorcode' \in {TopDoor, BottomDoor, LeftDoor, RightDoor, NoDoor}
    BY <1>7 DEF DoorAt
  <2> QED BY <2>1, <1>8, <1>9, <1>10, <1>11, <1>12

\* The register types, for which OneAxis is needed.
LEMMA StepTypes ==
  ASSUME TypeOK, OneAxis, [Next]_vars
  PROVE  TypeOK' /\ OneAxis'
<1>1. CASE VsyncEdge
  <2>1. room' \in Room
    BY <1>1, BehindType DEF VsyncEdge, NextRoom, TypeOK, Room
  <2>2. game_over' \in BOOLEAN
    BY <1>1 DEF VsyncEdge
  <2> QED BY <1>1, <2>1, <2>2 DEF VsyncEdge, TypeOK, OneAxis, playerVars
<1>2. CASE ClkEdge
  <2>1. PICK key \in Keycode : PlayerFrame(key, room)
    BY <1>2 DEF ClkEdge
  <2>2. /\ Player_X' \in MinX .. MaxX /\ Player_Y' \in MinY .. MaxY
        /\ doorcode' \in DoorCode
    BY <2>1, FrameCases
  <2>3. /\ Player_X_Motion' \in Motion /\ Player_Y_Motion' \in Motion
        /\ OneAxis' /\ attack' \in BOOLEAN
    BY <2>1 DEF PlayerFrame, XMotionOf, YMotionOf, Motion, OneAxis, KeyA, KeyD, KeyS, KeyW
  <2> QED BY <1>2, <2>2, <2>3 DEF ClkEdge, TypeOK
<1>3. CASE ClkEdgeInReset
  BY <1>3, CenterAssumption DEF ClkEdgeInReset, PlayerReset, TypeOK, OneAxis, Motion
<1>4. CASE UNCHANGED vars
  BY <1>4 DEF vars, playerVars, TypeOK, OneAxis
<1> QED BY <1>1, <1>2, <1>3, <1>4 DEF Next

LEMMA InitTypes == ASSUME Init PROVE TypeOK /\ OneAxis
<1>1. /\ Player_X \in MinX .. MaxX /\ Player_Y \in MinY .. MaxY
      /\ Player_X_Motion \in Motion /\ Player_Y_Motion \in Motion
      /\ doorcode \in DoorCode /\ room \in Room
  BY CenterAssumption DEF Init, PlayerInit, Motion, DoorCode, Room
<1>2. attack \in BOOLEAN /\ game_over \in BOOLEAN /\ phase \in {"vsync", "clk"}
  BY DEF Init, PlayerInit
<1> QED BY <1>1, <1>2 DEF Init, PlayerInit, TypeOK, OneAxis

\* The register types hold: in particular the player's box never leaves the
\* field, so Player.sv never decides a move from a ROM bit off the screen.
THEOREM TypeCorrect == Spec => []TypeOK
<1>1. Init => TypeOK /\ OneAxis
  BY InitTypes
<1>2. TypeOK /\ OneAxis /\ [Next]_vars => (TypeOK /\ OneAxis)'
  BY StepTypes
<1> QED BY <1>1, <1>2, PTL DEF Spec

\* No door leads nowhere.
LEMMA StayInRoom == ASSUME NEW r \in Room PROVE Behind(r, NoDoor) = r
<1>1. ~ \E n \in Room : <<r, NoDoor, n>> \in Passage
  BY DEF Passage
<1> QED BY <1>1 DEF Behind

\* Where a frame puts a player who was not in a wall: behind the door it has
\* left by, or in the same room, at a place free of walls.
LEMMA FrameStaysFree ==
  ASSUME TypeOK, OneAxis, NEW key, PlayerFrame(key, room),
         ~Blocked(room, Player_X, Player_Y)
  PROVE  /\ ~Blocked(Behind(room, doorcode'), Player_X', Player_Y')
         /\ doorcode' # NoDoor => IsPassage(room, doorcode')
<1>1. room \in Room /\ Player_X \in MinX .. MaxX /\ Player_Y \in MinY .. MaxY
  BY DEF TypeOK
<1>2. ExitsLead(room, Player_X, Player_Y)
  BY <1>1, DoorsMatchUp
<1>3. CASE doorcode' = TopDoor
  <2>1. Player_X' = Player_X /\ Player_Y' = MaxY
    BY <1>3, FrameCases
  <2>2. Player_Y < MinY + Step
    BY <1>3, FrameCases
  <2>3. Leads(room, TopDoor, Player_X, MaxY)
    BY <1>2, <2>2 DEF ExitsLead
  <2> QED BY <1>3, <2>1, <2>3 DEF Leads
<1>4. CASE doorcode' = BottomDoor
  <2>1. Player_X' = Player_X /\ Player_Y' = MinY
    BY <1>4, FrameCases
  <2>2. Player_Y > MaxY - Step
    BY <1>4, FrameCases
  <2>3. Leads(room, BottomDoor, Player_X, MinY)
    BY <1>2, <2>2 DEF ExitsLead
  <2> QED BY <1>4, <2>1, <2>3 DEF Leads
<1>5. CASE doorcode' = LeftDoor
  <2>1. Player_X' = MaxX /\ Player_Y' = Player_Y
    BY <1>5, FrameCases
  <2>2. Player_X <= Step
    BY <1>5, FrameCases
  <2>3. Leads(room, LeftDoor, MaxX, Player_Y)
    BY <1>2, <2>2 DEF ExitsLead
  <2> QED BY <1>5, <2>1, <2>3 DEF Leads
<1>6. CASE doorcode' = RightDoor
  <2>1. Player_X' = MinX /\ Player_Y' = Player_Y
    BY <1>6, FrameCases
  <2>2. Player_X > MaxX - Step
    BY <1>6, FrameCases
  <2>3. Leads(room, RightDoor, MinX, Player_Y)
    BY <1>2, <2>2 DEF ExitsLead
  <2> QED BY <1>6, <2>1, <2>3 DEF Leads
<1>7. CASE doorcode' = NoDoor
  <2>1. Behind(room, doorcode') = room
    BY <1>1, <1>7, StayInRoom
  <2>2. \/ Player_X' = Player_X /\ Player_Y' = Player_Y
        \/ ~Blocked(room, Player_X', Player_Y')
    BY <1>7, FrameCases
  <2> QED BY <1>7, <2>1, <2>2
<1>8. doorcode' \in DoorCode
  BY FrameCases
<1> QED BY <1>3, <1>4, <1>5, <1>6, <1>7, <1>8 DEF DoorCode, Door

LEMMA InitInv == ASSUME Init PROVE IInv
<1>1. TypeOK /\ OneAxis
  BY InitTypes
<1>2. phase = "vsync" /\ ~game_over /\ doorcode = NoDoor /\ room = 0
      /\ Player_X = Player_X_Center /\ Player_Y = Player_Y_Center
  BY DEF Init, PlayerInit
<1>3. RoomToCome = 0
  BY <1>2, StayInRoom DEF RoomToCome, NextRoom, Room
<1>4. NeverInWall
  BY <1>2, <1>3, StartIsFree DEF NeverInWall
<1> QED BY <1>1, <1>2, <1>4 DEF IInv, HeldAtStart, DoorsLeadOut

LEMMA StepInv == ASSUME IInv, [Next]_vars PROVE IInv'
<1>1. TypeOK /\ OneAxis /\ HeldAtStart /\ NeverInWall /\ DoorsLeadOut
  BY DEF IInv
<1>2. TypeOK' /\ OneAxis'
  BY <1>1, StepTypes
<1>3. CASE VsyncEdge
  <2>1. phase = "vsync" /\ phase' = "clk" /\ UNCHANGED playerVars
        /\ room' = NextRoom(room, doorcode, game_over)
    BY <1>3 DEF VsyncEdge
  <2>2. RoomToCome' = room' /\ RoomToCome = room'
    BY <2>1 DEF RoomToCome
  <2>3. ~Blocked(room', Player_X, Player_Y)
    BY <1>1, <2>1, <2>2 DEF NeverInWall
  <2>4. NeverInWall'
    BY <2>1, <2>2, <2>3 DEF NeverInWall, playerVars
  <2>5. HeldAtStart' /\ DoorsLeadOut'
    BY <2>1 DEF HeldAtStart, DoorsLeadOut
  <2> QED BY <1>2, <2>4, <2>5 DEF IInv
<1>4. CASE ClkEdge
  <2>1. PICK key \in Keycode : PlayerFrame(key, room)
    BY <1>4 DEF ClkEdge
  <2>2. phase = "clk" /\ phase' = "vsync" /\ ~game_over /\ ~game_over' /\ room' = room
    BY <1>4 DEF ClkEdge
  <2>3. ~Blocked(room, Player_X, Player_Y)
    BY <1>1, <2>2 DEF NeverInWall, RoomToCome
  <2>4. /\ ~Blocked(Behind(room, doorcode'), Player_X', Player_Y')
        /\ doorcode' # NoDoor => IsPassage(room, doorcode')
    BY <1>1, <2>1, <2>3, FrameStaysFree
  <2>5. RoomToCome' = Behind(room, doorcode')
    BY <2>2 DEF RoomToCome, NextRoom
  <2>6. NeverInWall'
    BY <2>4, <2>5 DEF NeverInWall
  <2>7. HeldAtStart' /\ DoorsLeadOut'
    BY <2>2, <2>4 DEF HeldAtStart, DoorsLeadOut
  <2> QED BY <1>2, <2>6, <2>7 DEF IInv
<1>5. CASE ClkEdgeInReset
  <2>1. phase' = "vsync" /\ game_over /\ game_over'
        /\ Player_X' = Player_X_Center /\ Player_Y' = Player_Y_Center
    BY <1>5 DEF ClkEdgeInReset, PlayerReset
  <2>2. RoomToCome' = 0
    BY <2>1 DEF RoomToCome, NextRoom
  <2>3. NeverInWall'
    BY <2>1, <2>2, StartIsFree DEF NeverInWall
  <2>4. HeldAtStart' /\ DoorsLeadOut'
    BY <2>1 DEF HeldAtStart, DoorsLeadOut
  <2> QED BY <1>2, <2>3, <2>4 DEF IInv
<1>6. CASE UNCHANGED vars
  BY <1>1, <1>2, <1>6 DEF vars, playerVars, IInv, HeldAtStart, NeverInWall, DoorsLeadOut,
     RoomToCome
<1> QED BY <1>3, <1>4, <1>5, <1>6 DEF Next

LEMMA Invariance == Spec => []IInv
<1>1. Init => IInv
  BY InitInv
<1>2. IInv /\ [Next]_vars => IInv'
  BY StepInv
<1> QED BY <1>1, <1>2, PTL DEF Spec

\* A player is never in a wall when its next move is decided, so it can
\* always move away again.
THEOREM PlayerIsNeverStuck == Spec => []NeverInWall
<1>1. IInv => NeverInWall
  BY DEF IInv
<1> QED BY <1>1, Invariance, PTL

\* No opening in the walls lacks its row in the state machine of
\* RoomState.sv: whoever walks out at an edge is in the room behind it, never
\* in the same room with a room code and no passage.
THEOREM OpeningsAreDoors == Spec => []DoorsLeadOut
<1>1. IInv => DoorsLeadOut
  BY DEF IInv
<1> QED BY <1>1, Invariance, PTL

\* A lost game starts again in room 0 at the start position, whatever door
\* the player left by in the frame in which it was lost.
THEOREM LostGamesRestart == Spec => RestartsAtTheStart
<1>1. Init => IInv
  BY InitInv
<1>2. IInv /\ [Next]_vars => IInv'
  BY StepInv
<1>3. ASSUME IInv, [Next]_vars
      PROVE  [game_over /\ ~game_over' =>
                room' = 0 /\ Player_X' = Player_X_Center
                /\ Player_Y' = Player_Y_Center]_vars
  <2>1. CASE VsyncEdge
    BY <1>3, <2>1 DEF VsyncEdge, NextRoom, IInv, HeldAtStart, playerVars
  <2>2. CASE ClkEdge
    BY <2>2 DEF ClkEdge
  <2>3. CASE ClkEdgeInReset
    BY <2>3 DEF ClkEdgeInReset
  <2> QED BY <1>3, <2>1, <2>2, <2>3 DEF Next
<1> QED BY <1>1, <1>2, <1>3, PTL DEF Spec, RestartsAtTheStart

-----------------------------------------------------------------------------
(***************************************************************************)
(* Arrivals.  What is to be known of a player who comes into a room is     *)
(* that it stands at the edge where its door has put it; a player who has  *)
(* been put at the start keeps the door code of its last frame, but the    *)
(* first room has no residents.                                            *)
(***************************************************************************)

AtItsDoor ==
  doorcode # NoDoor =>
    game_over \/ (phase = "clk" /\ room = 0) \/ PutThere(doorcode, Player_X, Player_Y)

\* A door puts the player at the opposite edge.
LEMMA FramePuts ==
  ASSUME TypeOK, OneAxis, NEW key, PlayerFrame(key, room), doorcode' # NoDoor
  PROVE  PutThere(doorcode', Player_X', Player_Y')
  BY FrameCases DEF PutThere, DoorCode, Door

LEMMA StepAtItsDoor == ASSUME IInv, AtItsDoor, [Next]_vars PROVE AtItsDoor'
<1>1. CASE VsyncEdge
  BY <1>1 DEF VsyncEdge, NextRoom, AtItsDoor, playerVars
<1>2. CASE ClkEdge
  <2>1. PICK key \in Keycode : PlayerFrame(key, room)
    BY <1>2 DEF ClkEdge
  <2> QED BY <2>1, FramePuts DEF IInv, AtItsDoor
<1>3. CASE ClkEdgeInReset
  BY <1>3 DEF ClkEdgeInReset, AtItsDoor
<1>4. CASE UNCHANGED vars
  BY <1>4 DEF vars, playerVars, AtItsDoor
<1> QED BY <1>1, <1>2, <1>3, <1>4 DEF Next

\* One frame after the arrival the player is still by an edge, on the floor,
\* or it has left again and stands at the edge of the next room.
LEMMA FrameOfArrival ==
  ASSUME IInv, AtItsDoor, ClkEdge, doorcode # NoDoor, Inhabited(room)
  PROVE  \/ NearAnEdge(Player_X', Player_Y') /\ ~Blocked(room, Player_X', Player_Y')
         \/ /\ doorcode' \in Door /\ PutThere(doorcode', Player_X', Player_Y')
            /\ IsPassage(room, doorcode')
            /\ ~Blocked(Behind(room, doorcode'), Player_X', Player_Y')
<1>1. /\ TypeOK /\ OneAxis /\ doorcode \in DoorCode
      /\ Player_X \in 1 .. 607 /\ Player_Y \in 32 .. 447
      /\ Step \in Nat /\ 1 <= Step /\ Step <= 31
  BY StepAssumption DEF IInv, TypeOK
<1>2. PutThere(doorcode, Player_X, Player_Y) /\ ~Blocked(room, Player_X, Player_Y)
  BY DEF ClkEdge, AtItsDoor, Inhabited, IInv, NeverInWall, RoomToCome
<1>3. PICK key \in Keycode : PlayerFrame(key, room)
  BY DEF ClkEdge
<1>4. CASE doorcode' = NoDoor
  <2>1. /\ \/ Player_X' = Player_X /\ Player_Y' = Player_Y
           \/ ~Blocked(room, Player_X', Player_Y')
        /\ Player_X' \in 1 .. 607 /\ Player_Y' \in 32 .. 447
        /\ Player_X - Step <= Player_X' /\ Player_X' <= Player_X + Step
        /\ Player_Y - Step <= Player_Y' /\ Player_Y' <= Player_Y + Step
    BY <1>1, <1>3, <1>4, FrameCases
  <2>2. Player_X = 1 \/ Player_X = 607 \/ Player_Y = 32 \/ Player_Y = 447
    BY <1>1, <1>2 DEF PutThere, DoorCode, Door
  <2>3. NearAnEdge(Player_X', Player_Y')
    BY <1>1, <2>1, <2>2 DEF NearAnEdge
  <2> QED BY <1>2, <2>1, <2>3
<1>5. CASE doorcode' # NoDoor
  <2>1. PutThere(doorcode', Player_X', Player_Y')
    BY <1>1, <1>3, <1>5, FramePuts
  <2>2. doorcode' \in Door
    BY <1>1, <1>3, <1>5, FrameCases DEF DoorCode
  <2>3. /\ ~Blocked(Behind(room, doorcode'), Player_X', Player_Y')
        /\ IsPassage(room, doorcode')
    BY <1>1, <1>2, <1>3, <1>5, FrameStaysFree
  <2> QED BY <2>1, <2>2, <2>3
<1> QED BY <1>4, <1>5

\* Whoever comes through a door does not come upon a resident (Player.sv:
\* 205-227, Enemy.sv:262-539), nor in the frame in which it turns back.
THEOREM ArrivalsAreSafe == Spec => ArrivalIsSafe
<1>1. Init => IInv /\ AtItsDoor
  BY InitInv DEF Init, PlayerInit, AtItsDoor
<1>2. IInv /\ AtItsDoor /\ [Next]_vars => (IInv /\ AtItsDoor)'
  BY StepInv, StepAtItsDoor
<1>3. ASSUME IInv, AtItsDoor, [Next]_vars
      PROVE  [phase = "clk" /\ ~game_over /\ doorcode # NoDoor /\ Inhabited(room) =>
                \A e \in DOMAIN Residents[room] :
                  ~ /\ Within32(Player_X', Residents[room][e][1])
                    /\ Within32(Player_Y', Residents[room][e][2])]_vars
  <2> SUFFICES ASSUME Next, phase = "clk", ~game_over, doorcode # NoDoor, Inhabited(room),
                      NEW e \in DOMAIN Residents[room],
                      Within32(Player_X', Residents[room][e][1]),
                      Within32(Player_Y', Residents[room][e][2])
               PROVE  FALSE
    BY <1>3
  <2>1. ClkEdge
    BY DEF Next, VsyncEdge, ClkEdgeInReset
  <2>2. Player_X' \in MinX .. MaxX /\ Player_Y' \in MinY .. MaxY
    BY <1>3, StepInv DEF IInv, TypeOK
  <2>3. PICK px \in MinX .. MaxX, py \in MinY .. MaxY : px = Player_X' /\ py = Player_Y'
    BY <2>2
  <2>4. /\ NearAnEdge(px, py) => Blocked(room, px, py)
        /\ \A d \in Door : PutThere(d, px, py) /\ IsPassage(room, d)
                             => Blocked(Behind(room, d), px, py)
    BY <2>3, DoorsAreClear DEF Inhabited
  <2> QED BY <1>3, <2>1, <2>3, <2>4, FrameOfArrival
<1> QED BY <1>1, <1>2, <1>3, PTL DEF Spec, ArrivalIsSafe

-----------------------------------------------------------------------------

\* The passages of RoomState.sv are the corridors of the maze.
LEMMA PassagesAreCorridors ==
  ASSUME NEW r \in Room, NEW d
  PROVE  Behind(r, d) = r \/ M!Adjacent(r, Behind(r, d))
<1>1. CASE \E n \in Room : <<r, d, n>> \in Passage
  <2>1. <<r, d, Behind(r, d)>> \in Passage
    BY <1>1 DEF Behind
  <2>2. \A n : <<r, d, n>> \in Passage =>
                 <<r, n>> \in M!Corridor \/ <<n, r>> \in M!Corridor
    BY DEF Passage, M!Corridor
  <2> QED BY <2>1, <2>2 DEF M!Adjacent
<1>2. CASE ~ \E n \in Room : <<r, d, n>> \in Passage
  BY <1>2 DEF Behind
<1> QED BY <1>1, <1>2

\* Every passage of RoomState.sv can be walked back through the opposite door.
THEOREM PassagesAreTwoWay ==
  ASSUME NEW r \in Room, NEW d \in Door, IsPassage(r, d)
  PROVE  Behind(Behind(r, d), Opposite[d]) = r
<1>1. PICK n \in Room : <<r, d, n>> \in Passage /\ Behind(r, d) = n
  BY DEF IsPassage, Behind
<1>2. <<n, Opposite[d], r>> \in Passage
  BY <1>1 DEF Passage, Opposite, Door
<1>3. \A m : <<n, Opposite[d], m>> \in Passage => m = r
  BY <1>1 DEF Passage, Opposite, Door
<1> QED BY <1>1, <1>2, <1>3 DEF Behind

\* The dungeon implements the maze.
THEOREM DungeonIsAMaze == Spec => RefinesMaze
<1>1. Init => M!MazeInit
  BY DEF Init, M!MazeInit
<1>2. ASSUME TypeOK, [Next]_vars
      PROVE  [M!Walk \/ M!Restart]_M!mazeVars
  <2>1. CASE VsyncEdge
    <3>1. CASE game_over
      BY <2>1, <3>1 DEF VsyncEdge, NextRoom, M!Restart
    <3>2. CASE ~game_over
      <4>1. room' = Behind(room, doorcode)
        BY <2>1, <3>2 DEF VsyncEdge, NextRoom
      <4>2. room' = room \/ M!Adjacent(room, room')
        BY <1>2, <4>1, PassagesAreCorridors DEF TypeOK
      <4>3. game_over' \in BOOLEAN
        BY <2>1 DEF VsyncEdge
      <4> QED BY <3>2, <4>2, <4>3 DEF M!Walk
    <3> QED BY <3>1, <3>2
  <2>2. CASE ClkEdge
    BY <2>2 DEF ClkEdge, M!mazeVars
  <2>3. CASE ClkEdgeInReset
    BY <2>3 DEF ClkEdgeInReset, M!mazeVars
  <2>4. CASE UNCHANGED vars
    BY <2>4 DEF vars, M!mazeVars
  <2> QED BY <1>2, <2>1, <2>2, <2>3, <2>4 DEF Next
<1> QED BY <1>1, <1>2, TypeCorrect, PTL DEF Spec, RefinesMaze, M!MazeSpec

=============================================================================
