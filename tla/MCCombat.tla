------------------------------ MODULE MCCombat ------------------------------
(* Combat for TLC: two enemies, so that one can die while the other lives,  *)
(* with the frame counter and the score cut down; all eight rooms and the   *)
(* whole table of residents.                                                *)
EXTENDS Combat

MCEnemyId == {1, 2}

=============================================================================
