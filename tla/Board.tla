------------------------------- MODULE Board --------------------------------
(***************************************************************************)
(* The reset button against the clocks: FrameClock with the room register  *)
(* of RoomState, which VGA_VS clocks and which is the part of the game     *)
(* that the reset is to bring back to room 0.                              *)
(***************************************************************************)
EXTENDS FrameClock, RoomState

VARIABLES
  room,
  doorcode,   \* of Player.sv, which the reset leaves alone
  pressed,    \* history: Reset_h has been up since the last frame edge
  edges,      \* history: frame edges since power-up or reset, up to two
  ticks       \* history: Clk edges since the last frame edge, up to a limit

vars == <<clockVars, room, doorcode, pressed, edges, ticks>>

FrameTicks == 2 * H_TOTAL * V_TOTAL

Init ==
  /\ ClockInit
  /\ room = 0
  /\ doorcode = NoDoor
  /\ pressed = FALSE
  /\ edges = 0
  /\ ticks = 0

\* One Clk edge.  At the first one of a frame the player may leave by a door.
Tick(button, door) ==
  /\ ClkEdge(button)
  /\ doorcode' = IF frame_clk_rising_edge /\ ~Reset_h THEN door ELSE doorcode
  /\ room' = IF FrameEdge THEN NextRoom(room, doorcode, Reset_h') ELSE room
  /\ pressed' = IF FrameEdge THEN Reset_h' ELSE pressed \/ Reset_h'
  /\ edges' = IF Reset_h' THEN 0
              ELSE IF FrameEdge /\ edges < 2 THEN edges + 1 ELSE edges
  /\ ticks' = IF FrameEdge THEN 0
              ELSE IF ticks > FrameTicks THEN ticks ELSE ticks + 1

Doors == {NoDoor} \union {d \in Door : IsPassage(room, d)}

Next == \E button \in BOOLEAN, door \in Doors : Tick(button, door)

\* Clk runs as long as the board has power.
Spec == Init /\ [][Next]_vars /\ WF_vars(Next)

-----------------------------------------------------------------------------

TypeOK ==
  /\ Reset_h \in BOOLEAN /\ VGA_CLK \in BOOLEAN
  /\ h_counter \in 0 .. (H_TOTAL - 1) /\ v_counter \in 0 .. (V_TOTAL - 1)
  /\ VGA_VS \in BOOLEAN /\ frame_clk_delayed \in BOOLEAN
  /\ room \in Room /\ doorcode \in DoorCode
  /\ pressed \in BOOLEAN
  /\ edges \in 0 .. 2
  /\ ticks \in 0 .. (FrameTicks + 1)

\* GameState and RoomState are never clocked while the reset is up: they
\* never execute the reset branches of GameState.sv:42 and RoomState.sv:88
\* on behalf of the button.  GameRules and Dungeon rely on it.
ResetMissesTheFrame == [][FrameEdge => ~Reset_h']_vars

\* Undisturbed by the button, frames come every H_TOTAL * V_TOTAL pixels.
\* Only the first frame after power-up or reset is a different one: VGA_VS
\* rises at once, wherever the counters stand.
FramePeriod == [][FrameEdge /\ edges = 2 => ticks + 1 = FrameTicks]_vars

\* Once the button is left alone, frames go on for ever.
FramesGoOn == <>[]~Reset_h => []<><<FrameEdge>>_vars

\* What the reset is for (lab8.sv:13, "bit 0 is set up as Reset", and
\* RoomState.sv:88): from any other room it leads back to room 0, by the
\* first frame after it was up at the latest.
ResetRestartsTheRooms ==
  [][FrameEdge /\ pressed /\ room # 0 => room' = 0]_vars

=============================================================================
