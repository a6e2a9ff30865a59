----------------------------- MODULE GameRules ------------------------------
(***************************************************************************)
(* GameState on its own, with every input it can have: any attack, any     *)
(* enemies near and touching.  Reset is low at every frame edge, as        *)
(* FrameClock shows: while the button is down there are no frames.         *)
(***************************************************************************)
EXTENDS GameState

VARIABLES
  hits,      \* history: attacks that hit since the game started, cyclic
  peace,     \* history: frames since the last heart was lost, up to HitDelay
  touched,   \* history: an enemy touched a player who hit nobody
  odd        \* history: parity of the frames, which tells a frame that
             \* changes nothing else from no frame at all

vars == <<gameVars, hits, peace, touched, odd>>

\* The number after n for a counter of two digits, and the score as one.
After(n) == IF n = Base * Base - 1 THEN 0 ELSE n + 1
Score == Base * score2 + score1

Init ==
  /\ GameInit
  /\ hits = 0
  /\ peace = 0
  /\ touched = FALSE
  /\ odd = FALSE

Frame(attack, near, touch) ==
  /\ GameFrame(attack, near, touch, FALSE)
  /\ hits' = IF game_over' THEN 0 ELSE IF Damage' # {} THEN After(hits) ELSE hits
  /\ peace' = IF health' < health THEN 0
              ELSE IF peace < HitDelay THEN peace + 1 ELSE peace
  /\ touched' = (touch # {} /\ ~(attack /\ near # {}))
  /\ odd' = ~odd

Next == \E attack \in BOOLEAN, near \in SUBSET EnemyId : \E touch \in SUBSET near :
          Frame(attack, near, touch)

\* What a frame may do ...
Rules == Init /\ [][Next]_vars

\* ... and the clock of the frames never stops (FrameClock).
Spec == Rules /\ WF_vars(Next)

-----------------------------------------------------------------------------

TypeOK ==
  /\ GameTypeOK
  /\ hits \in 0 .. (Base * Base - 1)
  /\ peace \in 0 .. HitDelay
  /\ touched \in BOOLEAN /\ odd \in BOOLEAN

\* The two digits show the number of hits since the game started, modulo a
\* hundred; the hit of the last frame is still on its way (GameState.sv:126).
ScoreCountsHits == hits = IF Damage = {} THEN Score ELSE After(Score)

\* No hit is on its way to the score when the game ends: the restart, which
\* clears the score, never swallows a point of the game before it.
NoHitLostInDeath == health = 0 => Damage = {}

\* Two hearts are never lost within HitDelay frames of each other, nor is
\* one within HitDelay frames of the power-up, whatever restarts between.
HeartsAreSpaced == [][health' < health => peace = HitDelay]_vars

\* The frame after the game was over starts it with all hearts and no score,
\* even if an enemy touches the player in that frame.
FreshStart ==
  [][game_over => health' = 3 /\ score1' = 0 /\ score2' = 0 /\ ~game_over']_vars

\* A player who stands in an enemy and hits nobody loses the game again and
\* again: the frame counter cannot stop below HitDelay.
TouchKills == <>[]touched => []<>game_over

=============================================================================
