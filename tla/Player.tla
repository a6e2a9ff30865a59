------------------------------- MODULE Player -------------------------------
(***************************************************************************)
(* The player's registers (Player.sv).  They are written at the first Clk  *)
(* edge after a rising edge of VGA_VS, and held at their start values for  *)
(* as long as Reset is high.                                               *)
(***************************************************************************)
EXTENDS Naturals, RoomState

CONSTANTS
  Step,                \* Player_X_Step and Player_Y_Step (3)
  Player_X_Center,     \* the start position (336, 400)
  Player_Y_Center,
  Blocked(_, _, _)     \* Blocked(room, x, y): a box there touches a wall

VARIABLES
  Player_X, Player_Y,                 \* upper left pixel of the player's box
  Player_X_Motion, Player_Y_Motion,   \* what the next frame adds to it
  doorcode,                           \* the door left by in the last frame
  attack                              \* the space bar was held

playerVars == <<Player_X, Player_Y, Player_X_Motion, Player_Y_Motion,
                doorcode, attack>>

\* The field on which the player's box can stand.
MinX == 1
MaxX == 607
MinY == 32
MaxY == 447

ASSUME StepAssumption   == Step \in 1 .. 31
ASSUME CenterAssumption == Player_X_Center \in MinX .. MaxX
                        /\ Player_Y_Center \in MinY .. MaxY

\* USB key codes (0 stands for every key that does nothing).
NoKey == 0
KeyA  == 4
KeyD  == 7
KeyS  == 22
KeyW  == 26
Space == 44
Keycode == {NoKey, KeyA, KeyD, KeyS, KeyW, Space}

Ten == 1024                  \* positions and motions are ten bits wide
Negative == Ten - Step       \* ~Step + 1
Motion == {0, Step, Negative}

XMotionOf(key) == IF key = KeyA THEN Negative ELSE IF key = KeyD THEN Step ELSE 0
YMotionOf(key) == IF key = KeyW THEN Negative ELSE IF key = KeyS THEN Step ELSE 0

\* Variants of DoorAt with a mistake, for the mutation runs: no test for a
\* position below zero; the width of the box forgotten at the right edge.
DoorAtNoUnderflow(x, y) == IF y < MinY      THEN TopDoor
                           ELSE IF y > MaxY THEN BottomDoor
                           ELSE IF x = 0    THEN LeftDoor
                           ELSE IF x > MaxX /\ x < 700 THEN RightDoor
                           ELSE NoDoor
DoorAtEarly(x, y) == IF y < MinY               THEN TopDoor
                     ELSE IF y > MaxY          THEN BottomDoor
                     ELSE IF x = 0 \/ x >= 700 THEN LeftDoor
                     ELSE IF x > MaxX - 32     THEN RightDoor
                     ELSE NoDoor

\* The edge of the field that a box at (x, y) has crossed, in the order the
\* code looks; x >= 700 is a position that went below zero.
DoorAt(x, y) == IF y < MinY                THEN TopDoor
                ELSE IF y > MaxY           THEN BottomDoor
                ELSE IF x = 0 \/ x >= 700  THEN LeftDoor
                ELSE IF x > MaxX           THEN RightDoor
                ELSE NoDoor

Plus(p, m) == (p + m) % Ten
MovedX == Plus(Player_X, Player_X_Motion)
MovedY == Plus(Player_Y, Player_Y_Motion)

PlayerInit ==
  /\ Player_X = Player_X_Center
  /\ Player_Y = Player_Y_Center
  /\ Player_X_Motion = 0
  /\ Player_Y_Motion = 0
  /\ doorcode = NoDoor
  /\ attack = FALSE

\* A variant that stops the player where it is, for the mutation runs.
PlayerResetInPlace ==
  /\ Player_X_Motion' = 0
  /\ Player_Y_Motion' = 0
  /\ UNCHANGED <<Player_X, Player_Y, doorcode, attack>>

\* Reset is high: doorcode and attack keep their values.
PlayerReset ==
  /\ Player_X' = Player_X_Center
  /\ Player_Y' = Player_Y_Center
  /\ Player_X_Motion' = 0
  /\ Player_Y_Motion' = 0
  /\ UNCHANGED <<doorcode, attack>>

\* A wall is in the way.  The variant of the mutation runs does not look.
NeverStopped(room) == FALSE
Stopped(room) == Blocked(room, MovedX, MovedY)

\* One frame: the player moves by the motion of the last key unless a wall
\* is in the way, or leaves by a door and appears at the opposite edge; the
\* key held now decides the next motion.
PlayerFrame(key, room) ==
  /\ doorcode' = DoorAt(MovedX, MovedY)
  /\ \/ doorcode' = TopDoor    /\ Player_X' = MovedX   /\ Player_Y' = MaxY
     \/ doorcode' = BottomDoor /\ Player_X' = MovedX   /\ Player_Y' = MinY
     \/ doorcode' = LeftDoor   /\ Player_X' = MaxX     /\ Player_Y' = MovedY
     \/ doorcode' = RightDoor  /\ Player_X' = MinX     /\ Player_Y' = MovedY
     \/ /\ doorcode' = NoDoor
        /\ Stopped(room)
        /\ UNCHANGED <<Player_X, Player_Y>>
     \/ /\ doorcode' = NoDoor
        /\ ~Stopped(room)
        /\ Player_X' = MovedX
        /\ Player_Y' = MovedY
  /\ Player_X_Motion' = XMotionOf(key)
  /\ Player_Y_Motion' = YMotionOf(key)
  /\ attack' = (key = Space)

=============================================================================
