---------------------------- MODULE BoardProofs -----------------------------
(***************************************************************************)
(* Proofs about the clocks, for any size of the frame.                     *)
(***************************************************************************)
EXTENDS Board, TLAPS

\* The reset button never reaches what VGA_VS clocks: VGA_VS cannot rise
\* while Reset_h is up, because only VGA_controller raises it, and only out
\* of reset.  So the button resets neither rooms, nor health, nor score.
THEOREM ResetMissesEveryFrame == Spec => ResetMissesTheFrame
<1>1. [Next]_vars => [FrameEdge => ~Reset_h']_vars
  <2>1. SUFFICES ASSUME Next, FrameEdge PROVE ~Reset_h'
    BY DEF vars
  <2>2. PICK button, door : Tick(button, door)
    BY <2>1 DEF Next
  <2>3. PixelIdle \/ PixelReset \/ PixelNext
    BY <2>2 DEF Tick, ClkEdge
  <2>4. ~PixelIdle
    BY <2>1 DEF PixelIdle, FrameEdge
  <2>5. ~PixelReset
    BY <2>1 DEF PixelReset, FrameEdge
  <2> QED BY <2>3, <2>4, <2>5 DEF PixelNext
<1> QED BY <1>1, PTL DEF Spec, ResetMissesTheFrame

-----------------------------------------------------------------------------
(* The types.                                                               *)

LEMMA CountersStay ==
  ASSUME h_counter \in 0 .. (H_TOTAL - 1), v_counter \in 0 .. (V_TOTAL - 1)
  PROVE  NextH \in 0 .. (H_TOTAL - 1) /\ NextV \in 0 .. (V_TOTAL - 1)
<1>1. H_TOTAL \in Nat /\ H_TOTAL >= 1 /\ V_TOTAL \in Nat /\ V_TOTAL >= 1
  BY TotalsAssumption
<1> QED BY <1>1 DEF NextH, NextV

LEMMA NextRoomIsARoom ==
  ASSUME NEW r \in Room, NEW d, NEW reset PROVE NextRoom(r, d, reset) \in Room
<1>1. \A n : <<r, d, n>> \in Passage => n \in Room
  BY DEF Passage, Room
<1>2. Behind(r, d) \in Room
  <2>1. CASE \E n \in Room : <<r, d, n>> \in Passage
    BY <2>1 DEF Behind
  <2> QED BY <2>1 DEF Behind
<1> QED BY <1>2 DEF NextRoom, Room

\* VGA_CLK and VGA_VS are of their types after an edge, too.
LEMMA SignalsStay ==
  ASSUME TypeOK, NEW button \in BOOLEAN, ClkEdge(button)
  PROVE  /\ Reset_h' \in BOOLEAN /\ VGA_CLK' \in BOOLEAN
         /\ VGA_VS' \in BOOLEAN /\ frame_clk_delayed' \in BOOLEAN
         /\ h_counter' \in 0 .. (H_TOTAL - 1) /\ v_counter' \in 0 .. (V_TOTAL - 1)
<1>1. Reset_h' \in BOOLEAN /\ VGA_CLK' \in BOOLEAN /\ frame_clk_delayed' \in BOOLEAN
  BY DEF ClkEdge, ClkRegisters, TypeOK
<1>2. CASE PixelIdle
  BY <1>1, <1>2 DEF PixelIdle, TypeOK
<1>3. CASE PixelReset
  <2>1. 0 \in 0 .. (H_TOTAL - 1) /\ 0 \in 0 .. (V_TOTAL - 1)
    BY TotalsAssumption
  <2> QED BY <1>1, <1>3, <2>1 DEF PixelReset
<1>4. CASE PixelNext
  <2>1. h_counter' \in 0 .. (H_TOTAL - 1) /\ v_counter' \in 0 .. (V_TOTAL - 1)
    BY <1>4, CountersStay DEF PixelNext, TypeOK
  <2> QED BY <1>1, <1>4, <2>1 DEF PixelNext
<1> QED BY <1>2, <1>3, <1>4 DEF ClkEdge

\* The counters stay within the frame and no register leaves its type,
\* whatever the button does.
THEOREM TypeCorrect == Spec => []TypeOK
<1>0. FrameTicks \in Nat
  BY TotalsAssumption DEF FrameTicks
<1>1. Init => TypeOK
  <2>1. 0 \in 0 .. (H_TOTAL - 1) /\ 0 \in 0 .. (V_TOTAL - 1)
    BY TotalsAssumption
  <2>2. 0 \in 0 .. (FrameTicks + 1) /\ 0 \in Room /\ NoDoor \in DoorCode /\ 0 \in 0 .. 2
    BY <1>0 DEF Room, DoorCode
  <2> QED BY <2>1, <2>2 DEF Init, ClockInit, TypeOK
<1>2. TypeOK /\ [Next]_vars => TypeOK'
  <2> SUFFICES ASSUME TypeOK, [Next]_vars PROVE TypeOK'
    OBVIOUS
  <2>1. CASE UNCHANGED vars
    BY <2>1 DEF vars, clockVars, TypeOK
  <2>2. ASSUME NEW button \in BOOLEAN, NEW door \in Doors, Tick(button, door)
        PROVE  TypeOK'
    <3>1. /\ Reset_h' \in BOOLEAN /\ VGA_CLK' \in BOOLEAN
          /\ VGA_VS' \in BOOLEAN /\ frame_clk_delayed' \in BOOLEAN
          /\ h_counter' \in 0 .. (H_TOTAL - 1) /\ v_counter' \in 0 .. (V_TOTAL - 1)
      BY <2>2, SignalsStay DEF Tick
    <3>2. room' \in Room /\ doorcode' \in DoorCode
      BY <2>2, NextRoomIsARoom DEF Tick, TypeOK, Doors, DoorCode
    <3>3. pressed' \in BOOLEAN
      BY <2>2, <3>1 DEF Tick, TypeOK
    <3>4. edges' \in 0 .. 2
      BY <2>2 DEF Tick, TypeOK
    <3>5. ticks' \in 0 .. (FrameTicks + 1)
      BY <2>2, <1>0 DEF Tick, TypeOK
    <3> QED BY <3>1, <3>2, <3>3, <3>4, <3>5 DEF TypeOK
  <2> QED BY <2>1, <2>2 DEF Next
<1> QED BY <1>1, <1>2, PTL DEF Spec

-----------------------------------------------------------------------------
(***************************************************************************)
(* The period of the frames.  From the second frame edge after power-up or *)
(* reset, ticks counts two edges of Clk for every pixel that VGA_controller *)
(* has passed since line VS_LAST + 1 began, which is where VGA_VS rises.   *)
(***************************************************************************)

\* The lines and the pixels since then.
Lines == IF v_counter > VS_LAST THEN v_counter - (VS_LAST + 1)
         ELSE v_counter + V_TOTAL - (VS_LAST + 1)
Pixels == Lines * H_TOTAL + h_counter

Syncing == edges >= 1 => ~Reset_h /\ (VGA_VS <=> v_counter \notin VS_FIRST .. VS_LAST)

Counting == edges = 2 => ticks = 2 * Pixels + (IF VGA_CLK THEN 0 ELSE 1)

LEMMA FrameOfPixels ==
  ASSUME TypeOK
  PROVE  /\ Lines \in 0 .. (V_TOTAL - 1) /\ Pixels \in Nat
         /\ 2 * Pixels + 2 <= FrameTicks
         /\ Lines = V_TOTAL - 1 /\ h_counter + 1 = H_TOTAL => 2 * Pixels + 2 = FrameTicks
<1>1. /\ H_TOTAL \in Nat /\ V_TOTAL \in Nat /\ VS_LAST \in Nat
      /\ VS_LAST + 1 < V_TOTAL /\ H_TOTAL >= 1
      /\ h_counter \in Nat /\ h_counter + 1 <= H_TOTAL
      /\ v_counter \in Nat /\ v_counter + 1 <= V_TOTAL
  BY TotalsAssumption DEF TypeOK
<1>2. Lines \in 0 .. (V_TOTAL - 1)
  BY <1>1 DEF Lines
<1> DEFINE L == Lines
<1>3. L \in Nat /\ V_TOTAL - 1 - L \in Nat
  BY <1>1, <1>2
<1> HIDE DEF L
<1>4. (V_TOTAL - 1 - L) * H_TOTAL \in Nat /\ L * H_TOTAL \in Nat
  BY <1>1, <1>3
<1>5. V_TOTAL * H_TOTAL = (V_TOTAL - 1 - L) * H_TOTAL + L * H_TOTAL + H_TOTAL
  BY <1>1, <1>3
<1>6. FrameTicks = 2 * (V_TOTAL * H_TOTAL)
  BY <1>1 DEF FrameTicks
<1>7. V_TOTAL * H_TOTAL \in Nat
  BY <1>1
<1>8. Pixels = L * H_TOTAL + h_counter
  BY DEF Pixels, L
<1>9. L = V_TOTAL - 1 => (V_TOTAL - 1 - L) * H_TOTAL = 0
  BY <1>1, <1>3
<1> QED BY <1>1, <1>2, <1>4, <1>5, <1>6, <1>7, <1>8, <1>9 DEF L

\* A pixel later.
LEMMA NextPixel ==
  ASSUME TypeOK, h_counter' = NextH, v_counter' = NextV
  PROVE  \/ v_counter' = VS_LAST + 1 /\ h_counter' = 0 /\ Pixels' = 0
            /\ v_counter = VS_LAST /\ h_counter + 1 = H_TOTAL
         \/ /\ Pixels' = Pixels + 1
            /\ v_counter' = VS_LAST + 1 => v_counter = VS_LAST + 1
<1>1. /\ H_TOTAL \in Nat /\ V_TOTAL \in Nat /\ VS_LAST \in Nat
      /\ VS_LAST + 1 < V_TOTAL /\ H_TOTAL >= 1
      /\ h_counter \in Nat /\ h_counter + 1 <= H_TOTAL
      /\ v_counter \in Nat /\ v_counter + 1 <= V_TOTAL
  BY TotalsAssumption DEF TypeOK
<1>2. Lines \in Nat
  BY FrameOfPixels
<1>3. CASE h_counter + 1 # H_TOTAL
  <2>1. v_counter' = v_counter /\ h_counter' = h_counter + 1 /\ Lines' = Lines
    BY <1>3 DEF NextH, NextV, Lines
  <2>2. Lines * H_TOTAL \in Nat
    BY <1>1, <1>2
  <2> QED BY <1>1, <2>1, <2>2 DEF Pixels
<1>4. CASE h_counter + 1 = H_TOTAL /\ v_counter = VS_LAST
  <2>1. v_counter' = VS_LAST + 1 /\ h_counter' = 0
    BY <1>1, <1>4 DEF NextH, NextV
  <2>2. Lines' = 0
    BY <1>1, <2>1 DEF Lines
  <2> QED BY <1>1, <1>4, <2>1, <2>2 DEF Pixels
<1>5. CASE h_counter + 1 = H_TOTAL /\ v_counter # VS_LAST
  <2>1. /\ h_counter' = 0 /\ Lines' = Lines + 1
        /\ v_counter' # VS_LAST + 1
    BY <1>1, <1>5 DEF NextH, NextV, Lines
  <2>2. (Lines + 1) * H_TOTAL = Lines * H_TOTAL + H_TOTAL
    BY <1>1, <1>2
  <2>3. Lines * H_TOTAL \in Nat
    BY <1>1, <1>2
  <2> QED BY <1>1, <1>5, <2>1, <2>2, <2>3 DEF Pixels
<1> QED BY <1>3, <1>4, <1>5

\* What one edge does, with no reset: nothing to the counters, or a pixel.
LEMMA EdgeCounts ==
  ASSUME TypeOK, Syncing, Counting, NEW button \in BOOLEAN, NEW door,
         Tick(button, door)
  PROVE  /\ Syncing' /\ Counting'
         /\ FrameEdge /\ edges = 2 => ticks + 1 = FrameTicks
<1>1. CASE Reset_h'
  <2>1. edges' = 0 /\ ~FrameEdge
    BY <1>1 DEF Tick, ClkEdge, PixelIdle, PixelReset, PixelNext, FrameEdge
  <2> QED BY <2>1 DEF Syncing, Counting
<1>2. CASE ~Reset_h' /\ PixelIdle
  <2>1. UNCHANGED <<h_counter, v_counter, VGA_VS>> /\ ~FrameEdge
    BY <1>2 DEF PixelIdle, FrameEdge
  <2>2. edges' = edges /\ Pixels' = Pixels
    BY <1>2, <2>1 DEF Tick, Pixels, Lines
  <2>3. Syncing'
    BY <1>2, <2>1, <2>2 DEF Syncing
  <2>4. ASSUME edges = 2 PROVE VGA_CLK /\ ~VGA_CLK'
    <3>1. edges >= 1
      BY <2>4
    <3>2. ~Reset_h
      BY <3>1 DEF Syncing
    <3> QED BY <1>2, <3>2
            DEF TypeOK, PixelIdle, PixelEdge, Tick, ClkEdge, ClkRegisters
  <2>5. ticks' = IF ticks > FrameTicks THEN ticks ELSE ticks + 1
    BY <2>1 DEF Tick
  <2>6. 2 * Pixels + 2 <= FrameTicks /\ Pixels \in Nat /\ FrameTicks \in Nat
    BY FrameOfPixels, TotalsAssumption DEF FrameTicks
  <2>7. Counting'
    BY <2>2, <2>4, <2>5, <2>6 DEF Counting
  <2> QED BY <2>1, <2>3, <2>7
<1>3. CASE ~Reset_h' /\ PixelNext
  <2>1. /\ h_counter' = NextH /\ v_counter' = NextV /\ ~VGA_CLK /\ VGA_CLK'
        /\ VGA_VS' = (v_counter' \notin VS_FIRST .. VS_LAST)
    BY <1>3 DEF PixelNext, PixelEdge
  <2>2. Syncing'
    BY <1>3, <2>1 DEF Syncing
  <2>3. /\ VS_FIRST \in Nat /\ VS_LAST \in Nat /\ VS_FIRST <= VS_LAST
        /\ VS_LAST + 1 < V_TOTAL /\ V_TOTAL \in Nat /\ v_counter \in Nat
        /\ edges \in 0 .. 2 /\ ticks \in Nat
    <3>1. FrameTicks \in Nat
      BY TotalsAssumption DEF FrameTicks
    <3> QED BY <3>1, TotalsAssumption DEF TypeOK
  <2>4. ASSUME edges >= 1, FrameEdge
        PROVE  /\ v_counter = VS_LAST /\ h_counter + 1 = H_TOTAL /\ Pixels' = 0
    <3>1. v_counter \in VS_FIRST .. VS_LAST /\ v_counter' \notin VS_FIRST .. VS_LAST
      BY <2>1, <2>4 DEF Syncing, FrameEdge
    <3>2. v_counter' = VS_LAST + 1 /\ v_counter = VS_LAST
      BY <2>1, <2>3, <3>1 DEF NextV
    <3> QED BY <2>1, <2>3, <3>2, NextPixel
  <2>5. ASSUME edges = 2, ~FrameEdge PROVE Pixels' = Pixels + 1
    <3>0. edges >= 1
      BY <2>5
    <3>1. VGA_VS <=> v_counter \notin VS_FIRST .. VS_LAST
      BY <3>0 DEF Syncing
    <3>2. ~(v_counter = VS_LAST /\ v_counter' = VS_LAST + 1)
      <4>1. SUFFICES ASSUME v_counter = VS_LAST, v_counter' = VS_LAST + 1
                     PROVE  FALSE
        OBVIOUS
      <4>2. v_counter \in VS_FIRST .. VS_LAST /\ v_counter' \notin VS_FIRST .. VS_LAST
        BY <2>3, <4>1
      <4> QED BY <2>1, <2>5, <3>1, <4>2 DEF FrameEdge
    <3> QED BY <2>1, <3>2, NextPixel
  <2>6. /\ Pixels \in Nat /\ FrameTicks \in Nat /\ 2 * Pixels + 2 <= FrameTicks
        /\ Lines = V_TOTAL - 1 /\ h_counter + 1 = H_TOTAL => 2 * Pixels + 2 = FrameTicks
    BY FrameOfPixels, TotalsAssumption DEF FrameTicks
  <2>7. Counting'
    <3>1. CASE FrameEdge
      <4>1. ticks' = 0 /\ (edges' = 2 => edges >= 1)
        BY <1>3, <2>3, <3>1 DEF Tick
      <4> QED BY <2>1, <2>4, <3>1, <4>1 DEF Counting
    <3>2. CASE ~FrameEdge
      <4>1. edges' = edges /\ ticks' = IF ticks > FrameTicks THEN ticks ELSE ticks + 1
        BY <1>3, <3>2 DEF Tick
      <4> QED BY <2>1, <2>3, <2>5, <2>6, <3>2, <4>1 DEF Counting
    <3> QED BY <3>1, <3>2
  <2>8. ASSUME FrameEdge, edges = 2 PROVE ticks + 1 = FrameTicks
    <3>1. v_counter = VS_LAST /\ h_counter + 1 = H_TOTAL
      BY <2>4, <2>8
    <3>2. Lines = V_TOTAL - 1
      BY <2>3, <3>1 DEF Lines
    <3> QED BY <2>1, <2>6, <2>8, <3>1, <3>2 DEF Counting
  <2> QED BY <2>2, <2>7, <2>8
<1> QED BY <1>1, <1>2, <1>3 DEF Tick, ClkEdge, PixelReset

\* Undisturbed by the button, the frames are H_TOTAL * V_TOTAL pixels apart,
\* of two edges of Clk each, for every size of the frame.
THEOREM FramesAreRegular == Spec => FramePeriod
<1>1. Init => Syncing /\ Counting
  BY DEF Init, Syncing, Counting
<1>2. TypeOK /\ Syncing /\ Counting /\ [Next]_vars => Syncing' /\ Counting'
  <2>1. ASSUME UNCHANGED vars, Syncing, Counting PROVE Syncing' /\ Counting'
    BY <2>1 DEF vars, clockVars, Syncing, Counting, Pixels, Lines
  <2> QED BY <2>1, EdgeCounts DEF Next
<1>3. TypeOK /\ Syncing /\ Counting /\ [Next]_vars =>
        [FrameEdge /\ edges = 2 => ticks + 1 = FrameTicks]_vars
  BY EdgeCounts DEF Next
<1> QED BY <1>1, <1>2, <1>3, TypeCorrect, PTL DEF Spec, FramePeriod

=============================================================================
