---------------------------- MODULE MCGameRules -----------------------------
(* The rules of the game for TLC, with the numbers of the program: two      *)
(* enemies are enough for one to hide another in the else-if chain.         *)
EXTENDS GameRules

MCEnemyId == {1, 2}

=============================================================================
