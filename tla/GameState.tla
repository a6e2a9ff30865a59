----------------------------- MODULE GameState ------------------------------
(***************************************************************************)
(* Health, score and the end of the game (GameState.sv).  The registers    *)
(* are written at every rising edge of VGA_VS, from the positions that the *)
(* player and the enemies have held since the last frame.  Positions are   *)
(* abstracted to two sets: the enemies within 64 pixels of the player in   *)
(* both axes, whom an attack hits, and those within 32, who hurt.          *)
(***************************************************************************)
EXTENDS Naturals, FiniteSets

CONSTANTS
  EnemyId,      \* the numbers of the enemies (1 .. 5)
  HitDelay,     \* frames that must pass between two hearts lost (90)
  CounterTop,   \* where the frame counter stops (125) ...
  CounterMod,   \* ... before its seven bits wrap around (128)
  Base          \* of the two score digits (10)

ASSUME EnemyAssumption   == EnemyId \subseteq Nat
ASSUME CounterAssumption ==
  /\ HitDelay \in Nat /\ CounterTop \in Nat /\ CounterMod \in Nat
  /\ 2 <= HitDelay /\ HitDelay <= CounterTop /\ CounterTop < CounterMod
ASSUME BaseAssumption    == Base \in Nat /\ Base >= 2

VARIABLES
  health,           \* hearts left
  score1, score2,   \* the low and the high digit
  Damage,           \* the enemies whose Damage_E flag is up
  counter,          \* frames since the last heart was lost
  game_over

gameVars == <<health, score1, score2, Damage, counter, game_over>>

GameInit ==
  /\ health = 3
  /\ score1 = 0 /\ score2 = 0
  /\ Damage = {}
  /\ counter = 0
  /\ game_over = FALSE

\* e is the first of the enemies in the order of the else-if chain.
IsFirst(e, S) == e \in S /\ \A f \in S : e <= f

\* A counter that stops too early, for the mutation runs.
TickShort(n) == IF n < HitDelay - 1 THEN (n + 1) % CounterMod ELSE n

Tick(n) == IF n < CounterTop THEN (n + 1) % CounterMod ELSE n

\* Variants of the score for the mutation runs: a carry one late, a carry
\* without a hit.
NextScore1Late == IF Damage = {} THEN score1
                  ELSE IF score1 = Base THEN 0 ELSE score1 + 1
NextScore2Always == IF score1 # Base - 1 THEN score2
                    ELSE IF score2 = Base - 1 THEN 0 ELSE score2 + 1

\* One flag that was up in the last frame is one point.
NextScore1 == IF Damage = {} THEN score1
              ELSE IF score1 = Base - 1 THEN 0 ELSE score1 + 1
NextScore2 == IF Damage = {} \/ score1 # Base - 1 THEN score2
              ELSE IF score2 = Base - 1 THEN 0 ELSE score2 + 1

AddScore == score1' = NextScore1 /\ score2' = NextScore2

\* Variants with a mistake, for the mutation runs: a restart that lifts the
\* protection after a lost heart; a loss that does not start it; a loss that
\* does not exclude a hit in the same frame.
RestartUnprotected(reset) ==
  /\ reset \/ health = 0
  /\ health' = 3
  /\ score1' = 0 /\ score2' = 0
  /\ Damage' = {}
  /\ counter' = CounterTop
  /\ game_over' = TRUE
LoseHeartUnprotected(attack, near, touch, reset) ==
  /\ ~reset /\ health # 0
  /\ ~(attack /\ near # {})
  /\ touch # {} /\ counter >= HitDelay
  /\ health' = health - 1
  /\ counter' = Tick(counter)
  /\ Damage' = {}
  /\ AddScore
  /\ game_over' = FALSE
LoseHeartAndHit(attack, near, touch, reset) ==
  /\ ~reset /\ health # 0
  /\ touch # {} /\ counter >= HitDelay
  /\ health' = health - 1
  /\ counter' = 0
  /\ Damage' = {e \in near : attack /\ IsFirst(e, near)}
  /\ AddScore
  /\ game_over' = FALSE

\* The health is used up, or the reset is seen: the game is over for one
\* frame and the next one starts.  The counter runs on.
Restart(reset) ==
  /\ reset \/ health = 0
  /\ health' = 3
  /\ score1' = 0 /\ score2' = 0
  /\ Damage' = {}
  /\ counter' = Tick(counter)
  /\ game_over' = TRUE

\* An attack hits the first enemy in reach, and nobody hurts the player.
Strike(attack, near, reset) ==
  /\ ~reset /\ health # 0
  /\ attack /\ near # {}
  /\ \E e \in near : IsFirst(e, near) /\ Damage' = {e}
  /\ AddScore
  /\ counter' = Tick(counter)
  /\ game_over' = FALSE
  /\ UNCHANGED health

\* An enemy that touches the player takes a heart, if the last was lost long
\* enough ago.
LoseHeart(attack, near, touch, reset) ==
  /\ ~reset /\ health # 0
  /\ ~(attack /\ near # {})
  /\ touch # {} /\ counter >= HitDelay
  /\ health' = health - 1
  /\ counter' = 0
  /\ Damage' = {}
  /\ AddScore
  /\ game_over' = FALSE

Quiet(attack, near, touch, reset) ==
  /\ ~reset /\ health # 0
  /\ ~(attack /\ near # {})
  /\ touch = {} \/ counter < HitDelay
  /\ Damage' = {}
  /\ AddScore
  /\ counter' = Tick(counter)
  /\ game_over' = FALSE
  /\ UNCHANGED health

GameFrame(attack, near, touch, reset) ==
  \/ Restart(reset)
  \/ Strike(attack, near, reset)
  \/ LoseHeart(attack, near, touch, reset)
  \/ Quiet(attack, near, touch, reset)

GameTypeOK ==
  /\ health \in 0 .. 3
  /\ score1 \in 0 .. (Base - 1) /\ score2 \in 0 .. (Base - 1)
  /\ Damage \in SUBSET EnemyId
  /\ counter \in 0 .. CounterTop
  /\ game_over \in BOOLEAN

=============================================================================
