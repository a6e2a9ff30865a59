----------------------------- MODULE FrameClock -----------------------------
(***************************************************************************)
(* The clocks of the board: the 50 MHz Clk, the pixel clock VGA_CLK that   *)
(* lab8.sv derives from it, the vertical sync VGA_VS that VGA_controller   *)
(* derives from the pixel clock, and the edge detector with which the      *)
(* player and the enemies find the start of a frame.  KEY[0] is the reset  *)
(* button.                                                                 *)
(*                                                                         *)
(* One step is one rising edge of Clk with everything it sets off.  What   *)
(* is clocked by VGA_CLK runs after the registers of Clk have changed, so  *)
(* VGA_controller sees the new Reset_h; what is clocked by VGA_VS, which   *)
(* is GameState and RoomState, sees it too.                                *)
(***************************************************************************)
EXTENDS Naturals

CONSTANTS
  H_TOTAL,            \* pixels of a line (800)
  V_TOTAL,            \* lines of a frame (525)
  VS_FIRST, VS_LAST   \* the lines in which VGA_VS is low (490 and 491)

ASSUME TotalsAssumption ==
  /\ H_TOTAL \in Nat /\ V_TOTAL \in Nat /\ VS_FIRST \in Nat /\ VS_LAST \in Nat
  /\ 0 < H_TOTAL /\ 0 < VS_FIRST /\ VS_FIRST <= VS_LAST /\ VS_LAST + 1 < V_TOTAL

VARIABLES
  Reset_h,               \* the button, sampled by Clk
  VGA_CLK,
  h_counter, v_counter,
  VGA_VS,
  frame_clk_delayed      \* VGA_VS one Clk ago, in Player and Enemy

clockVars == <<Reset_h, VGA_CLK, h_counter, v_counter, VGA_VS, frame_clk_delayed>>

ClockInit ==
  /\ Reset_h = FALSE /\ VGA_CLK = FALSE
  /\ h_counter = 0 /\ v_counter = 0
  /\ VGA_VS = FALSE /\ frame_clk_delayed = FALSE

\* Variants of the counters with a mistake, for the mutation runs.
NextVLate == IF h_counter + 1 # H_TOTAL THEN v_counter
             ELSE IF v_counter = V_TOTAL THEN 0 ELSE v_counter + 1
NextVStuck == IF h_counter + 1 # H_TOTAL THEN v_counter
              ELSE IF v_counter = V_TOTAL THEN v_counter ELSE v_counter + 1

NextH == IF h_counter + 1 = H_TOTAL THEN 0 ELSE h_counter + 1
NextV == IF h_counter + 1 # H_TOTAL THEN v_counter
         ELSE IF v_counter + 1 = V_TOTAL THEN 0 ELSE v_counter + 1

\* The registers of Clk.
ClkRegisters(button) ==
  /\ Reset_h' = button
  /\ VGA_CLK' = (~Reset_h /\ ~VGA_CLK)
  /\ frame_clk_delayed' = VGA_VS

PixelEdge == ~VGA_CLK /\ VGA_CLK'
FrameEdge == ~VGA_VS /\ VGA_VS'

\* A variant of PixelReset with VGA_VS at the wrong level, for the mutation
\* runs.
PixelResetKeepsSync ==
  /\ PixelEdge /\ Reset_h'
  /\ h_counter' = 0 /\ v_counter' = 0
  /\ VGA_VS' = TRUE

\* VGA_controller without a rising edge of VGA_CLK, ...
PixelIdle ==
  /\ ~PixelEdge
  /\ UNCHANGED <<h_counter, v_counter, VGA_VS>>

\* ... with one in reset, ...
PixelReset ==
  /\ PixelEdge /\ Reset_h'
  /\ h_counter' = 0 /\ v_counter' = 0
  /\ VGA_VS' = FALSE

\* ... and with one in operation.
PixelNext ==
  /\ PixelEdge /\ ~Reset_h'
  /\ h_counter' = NextH /\ v_counter' = NextV
  /\ VGA_VS' = (NextV \notin VS_FIRST .. VS_LAST)

ClkEdge(button) ==
  /\ ClkRegisters(button)
  /\ PixelIdle \/ PixelReset \/ PixelNext

\* frame_clk_rising_edge of Player and Enemy: the next Clk edge is the one
\* at which they move.
frame_clk_rising_edge == VGA_VS /\ ~frame_clk_delayed

=============================================================================
