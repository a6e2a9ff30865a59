---------------------------- MODULE CombatProofs ----------------------------
(***************************************************************************)
(* Proofs about the rules of the game, and about the game that plays by    *)
(* them: for any set of enemies and any HitDelay, CounterTop, CounterMod   *)
(* and Base that CounterAssumption and BaseAssumption allow.  The table of *)
(* residents is looked into for the types only.                            *)
(***************************************************************************)
EXTENDS Combat, TLAPS

-----------------------------------------------------------------------------
(* GameRules.                                                              *)

\* The saturating counter stays below its seven bits and moves by one.
LEMMA TickFacts ==
  ASSUME NEW n \in Nat, n <= CounterTop
  PROVE  /\ Tick(n) \in Nat /\ Tick(n) <= CounterTop
         /\ n < CounterTop => Tick(n) = n + 1
         /\ ~(n < CounterTop) => Tick(n) = n
<1>1. CASE n < CounterTop
  <2>1. n + 1 < CounterMod /\ CounterMod \in Nat /\ CounterTop \in Nat
    BY <1>1, CounterAssumption
  <2>2. (n + 1) % CounterMod = n + 1
    BY <2>1
  <2> QED BY <1>1, <2>1, <2>2 DEF Tick
<1>2. CASE ~(n < CounterTop)
  BY <1>2 DEF Tick
<1> QED BY <1>1, <1>2

-----------------------------------------------------------------------------
(***************************************************************************)
(* The inductive invariant.  The frame counter of the code is the history  *)
(* variable peace until both stop; the game only ends with a heart lost in *)
(* the very frame before, so the counter protects the frame after the      *)
(* restart, which is what makes every start a fresh one.                   *)
(***************************************************************************)

\* counter and peace run together.
CounterIsPeace ==
  /\ counter < HitDelay => peace = counter
  /\ counter >= HitDelay => peace = HitDelay

\* A dead player has lost the last heart in the last frame.
JustDied == health = 0 => counter = 0

\* While game_over is up, the registers are those of a new game.
NewGame == game_over => /\ health = 3 /\ score1 = 0 /\ score2 = 0
                        /\ Damage = {} /\ counter < HitDelay

RulesInv == /\ TypeOK /\ ScoreCountsHits /\ NoHitLostInDeath
        /\ CounterIsPeace /\ JustDied /\ NewGame

\* What one frame does to the counter and to peace, in any of its cases.
LEMMA FrameTicks ==
  ASSUME TypeOK, CounterIsPeace, NEW attack, NEW near, NEW touch,
         Frame(attack, near, touch)
  PROVE  counter' \in 0 .. CounterTop /\ peace' \in 0 .. HitDelay /\ CounterIsPeace'
<1>1. /\ HitDelay \in Nat /\ CounterTop \in Nat /\ 2 <= HitDelay /\ HitDelay <= CounterTop
      /\ counter \in Nat /\ counter <= CounterTop
      /\ peace \in Nat /\ peace <= HitDelay
      /\ health \in Nat /\ health <= 3
  BY CounterAssumption DEF TypeOK, GameTypeOK
<1>2. CASE LoseHeart(attack, near, touch, FALSE)
  <2>1. counter' = 0 /\ health' = health - 1
    BY <1>2 DEF LoseHeart
  <2>2. peace' = 0
    BY <1>1, <2>1 DEF Frame
  <2> QED BY <1>1, <2>1, <2>2 DEF CounterIsPeace
<1>3. CASE counter' = Tick(counter) /\ ~(health' < health)
  <2>1. peace' = IF peace < HitDelay THEN peace + 1 ELSE peace
    BY <1>3 DEF Frame
  <2>2. /\ Tick(counter) \in Nat /\ Tick(counter) <= CounterTop
        /\ counter < CounterTop => Tick(counter) = counter + 1
        /\ ~(counter < CounterTop) => Tick(counter) = counter
    BY <1>1, TickFacts
  <2> QED BY <1>1, <1>3, <2>1, <2>2 DEF CounterIsPeace
<1>4. LoseHeart(attack, near, touch, FALSE) \/ (counter' = Tick(counter) /\ ~(health' < health))
  <2>1. CASE Restart(FALSE)
    BY <1>1, <2>1 DEF Restart
  <2>2. CASE Strike(attack, near, FALSE)
    <3>1. counter' = Tick(counter) /\ health' = health
      BY <2>2 DEF Strike
    <3>2. ~(health' < health)
      BY <1>1, <3>1
    <3> QED BY <3>1, <3>2
  <2>3. CASE Quiet(attack, near, touch, FALSE)
    <3>1. counter' = Tick(counter) /\ health' = health
      BY <2>3 DEF Quiet
    <3>2. ~(health' < health)
      BY <1>1, <3>1
    <3> QED BY <3>1, <3>2
  <2> QED BY <2>1, <2>2, <2>3 DEF Frame, GameFrame
<1> QED BY <1>2, <1>3, <1>4

\* The two digits count like one cyclic counter (GameState.sv:126-135).
LEMMA DigitsCount ==
  ASSUME TypeOK
  PROVE  /\ NextScore1 \in 0 .. (Base - 1) /\ NextScore2 \in 0 .. (Base - 1)
         /\ Base * NextScore2 + NextScore1 = IF Damage = {} THEN Score ELSE After(Score)
<1>1. /\ Base \in Nat /\ Base >= 2
      /\ score1 \in 0 .. (Base - 1) /\ score2 \in 0 .. (Base - 1)
  BY BaseAssumption DEF TypeOK, GameTypeOK
<1>2. CASE Damage = {}
  BY <1>1, <1>2 DEF NextScore1, NextScore2, Score
<1>3. CASE Damage # {} /\ score1 # Base - 1
  <2>1. NextScore1 = score1 + 1 /\ NextScore2 = score2
    BY <1>3 DEF NextScore1, NextScore2
  <2>2. Score # Base * Base - 1
    <3>1. Base * score2 <= Base * (Base - 1)
      BY <1>1
    <3> QED BY <1>1, <1>3, <3>1 DEF Score
  <2> QED BY <1>1, <1>3, <2>1, <2>2 DEF Score, After
<1>4. CASE Damage # {} /\ score1 = Base - 1 /\ score2 # Base - 1
  <2>1. NextScore1 = 0 /\ NextScore2 = score2 + 1
    BY <1>4 DEF NextScore1, NextScore2
  <2>2. Base * (score2 + 1) = Base * score2 + Base
    BY <1>1
  <2>3. Score # Base * Base - 1
    <3>1. Base * score2 <= Base * (Base - 2)
      BY <1>1, <1>4
    <3> QED BY <1>1, <1>4, <3>1 DEF Score
  <2> QED BY <1>1, <1>4, <2>1, <2>2, <2>3 DEF Score, After
<1>5. CASE Damage # {} /\ score1 = Base - 1 /\ score2 = Base - 1
  <2>1. NextScore1 = 0 /\ NextScore2 = 0
    BY <1>5 DEF NextScore1, NextScore2
  <2>2. Score = Base * Base - 1
    BY <1>1, <1>5 DEF Score
  <2> QED BY <1>1, <1>5, <2>1, <2>2 DEF After
<1> QED BY <1>2, <1>3, <1>4, <1>5

\* What one frame does to the score, the flags and the hits.
LEMMA FrameScores ==
  ASSUME TypeOK, ScoreCountsHits, NEW attack, NEW near \in SUBSET EnemyId, NEW touch,
         Frame(attack, near, touch)
  PROVE  /\ score1' \in 0 .. (Base - 1) /\ score2' \in 0 .. (Base - 1)
         /\ Damage' \in SUBSET EnemyId
         /\ hits' \in 0 .. (Base * Base - 1)
         /\ ScoreCountsHits'
<1>1. Base \in Nat /\ Base >= 2 /\ Base * Base \in Nat /\ Base * Base >= 2
  <2>1. Base \in Nat /\ Base >= 2
    BY BaseAssumption
  <2>2. Base * Base >= 2 * Base
    BY <2>1
  <2> QED BY <2>1, <2>2
<1>2. hits \in 0 .. (Base * Base - 1) /\ After(hits) \in 0 .. (Base * Base - 1)
  BY <1>1 DEF TypeOK, After
<1>3. CASE Restart(FALSE)
  <2>1. score1' = 0 /\ score2' = 0 /\ Damage' = {} /\ game_over'
    BY <1>3 DEF Restart
  <2>2. hits' = 0
    BY <2>1 DEF Frame
  <2>3. Score' = 0
    BY <1>1, <2>1 DEF Score
  <2> QED BY <1>1, <2>1, <2>2, <2>3 DEF ScoreCountsHits
<1>4. CASE AddScore /\ ~game_over' /\ Damage' \in SUBSET EnemyId
  <2>1. /\ score1' \in 0 .. (Base - 1) /\ score2' \in 0 .. (Base - 1)
        /\ Score' = hits
    BY <1>4, DigitsCount DEF AddScore, Score, ScoreCountsHits
  <2>2. hits' = IF Damage' = {} THEN Score' ELSE After(Score')
    BY <1>4, <2>1 DEF Frame
  <2> QED BY <1>2, <1>4, <2>1, <2>2 DEF ScoreCountsHits
<1>5. Restart(FALSE) \/ (AddScore /\ ~game_over' /\ Damage' \in SUBSET EnemyId)
  <2>1. CASE Strike(attack, near, FALSE)
    BY <2>1 DEF Strike
  <2>2. CASE LoseHeart(attack, near, touch, FALSE)
    BY <2>2 DEF LoseHeart
  <2>3. CASE Quiet(attack, near, touch, FALSE)
    BY <2>3 DEF Quiet
  <2> QED BY <2>1, <2>2, <2>3 DEF Frame, GameFrame
<1> QED BY <1>3, <1>4, <1>5

\* What one frame does to the health, and how the game ends.
LEMMA FrameHealth ==
  ASSUME TypeOK, CounterIsPeace, JustDied, NewGame,
         NEW attack, NEW near, NEW touch, Frame(attack, near, touch)
  PROVE  /\ health' \in 0 .. 3 /\ game_over' \in BOOLEAN
         /\ JustDied' /\ NewGame' /\ NoHitLostInDeath'
         /\ health' < health => peace = HitDelay
         /\ game_over => health' = 3 /\ score1' = 0 /\ score2' = 0 /\ ~game_over'
<1>1. /\ HitDelay \in Nat /\ CounterTop \in Nat /\ 2 <= HitDelay /\ HitDelay <= CounterTop
      /\ counter \in Nat /\ counter <= CounterTop /\ health \in 0 .. 3
  BY CounterAssumption DEF TypeOK, GameTypeOK
<1>2. CASE Restart(FALSE)
  <2>1. /\ health = 0 /\ health' = 3 /\ score1' = 0 /\ score2' = 0 /\ Damage' = {}
        /\ counter' = Tick(counter) /\ game_over' = TRUE
    BY <1>2 DEF Restart
  <2>2. counter' < HitDelay
    BY <1>1, <2>1, TickFacts DEF JustDied
  <2>3. ~game_over
    BY <2>1 DEF NewGame
  <2>4. health' \in 0 .. 3 /\ ~(health' < health) /\ health' # 0
    BY <2>1
  <2>5. game_over' \in BOOLEAN
    BY <2>1
  <2> QED BY <2>1, <2>2, <2>3, <2>4, <2>5 DEF JustDied, NewGame, NoHitLostInDeath
<1>3. CASE Strike(attack, near, FALSE) \/ Quiet(attack, near, touch, FALSE)
  <2>1. health # 0 /\ health' = health /\ game_over' = FALSE /\ AddScore
    BY <1>3 DEF Strike, Quiet
  <2>2. game_over => score1' = 0 /\ score2' = 0
    BY <2>1 DEF NewGame, AddScore, NextScore1, NextScore2
  <2>3. health' \in 0 .. 3 /\ ~(health' < health) /\ health' # 0
    BY <1>1, <2>1
  <2>4. game_over' \in BOOLEAN /\ ~game_over'
    BY <2>1
  <2>5. game_over => health' = 3
    BY <2>1 DEF NewGame
  <2> QED BY <2>2, <2>3, <2>4, <2>5 DEF JustDied, NewGame, NoHitLostInDeath
<1>4. CASE LoseHeart(attack, near, touch, FALSE)
  <2>1. /\ health # 0 /\ health' = health - 1 /\ counter' = 0 /\ Damage' = {}
        /\ counter >= HitDelay /\ game_over' = FALSE
    BY <1>4 DEF LoseHeart
  <2>2. ~game_over
    BY <1>1, <2>1 DEF NewGame
  <2>3. peace = HitDelay
    BY <2>1 DEF CounterIsPeace
  <2>4. health' \in 0 .. 3
    BY <1>1, <2>1
  <2>5. game_over' \in BOOLEAN /\ ~game_over' /\ counter' = 0 /\ Damage' = {}
    BY <2>1
  <2> QED BY <2>2, <2>3, <2>4, <2>5 DEF JustDied, NewGame, NoHitLostInDeath
<1> QED BY <1>2, <1>3, <1>4 DEF Frame, GameFrame

LEMMA InitRulesInv == ASSUME Init PROVE RulesInv
<1>1. HitDelay \in Nat /\ CounterTop \in Nat /\ 2 <= HitDelay /\ Base \in Nat /\ Base >= 2
  BY CounterAssumption, BaseAssumption
<1>2. /\ health = 3 /\ score1 = 0 /\ score2 = 0 /\ Damage = {} /\ counter = 0
      /\ game_over = FALSE /\ hits = 0 /\ peace = 0 /\ touched = FALSE /\ odd = FALSE
  BY DEF Init, GameInit
<1>3. Score = 0
  BY <1>1, <1>2 DEF Score
<1>4. 0 \in 0 .. (Base * Base - 1)
  <2>1. Base * Base >= 2 * Base
    BY <1>1
  <2> QED BY <1>1, <2>1
<1>5. TypeOK
  <2>1. touched \in BOOLEAN /\ odd \in BOOLEAN /\ game_over \in BOOLEAN
    BY <1>2
  <2> QED BY <1>1, <1>2, <1>4, <2>1, CounterAssumption DEF TypeOK, GameTypeOK
<1> QED BY <1>1, <1>2, <1>3, <1>5
        DEF RulesInv, ScoreCountsHits, NoHitLostInDeath, CounterIsPeace, JustDied, NewGame

LEMMA StepRulesInv == ASSUME RulesInv, [Next]_vars PROVE RulesInv'
<1>1. CASE Next
  <2>1. PICK attack \in BOOLEAN, near \in SUBSET EnemyId :
          \E touch \in SUBSET near : Frame(attack, near, touch)
    BY <1>1 DEF Next
  <2>2. PICK touch \in SUBSET near : Frame(attack, near, touch)
    BY <2>1
  <2>3. counter' \in 0 .. CounterTop /\ peace' \in 0 .. HitDelay /\ CounterIsPeace'
    BY <2>2, FrameTicks DEF RulesInv
  <2>4. /\ score1' \in 0 .. (Base - 1) /\ score2' \in 0 .. (Base - 1)
        /\ Damage' \in SUBSET EnemyId /\ hits' \in 0 .. (Base * Base - 1)
        /\ ScoreCountsHits'
    BY <2>1, <2>2, FrameScores DEF RulesInv
  <2>5. /\ health' \in 0 .. 3 /\ game_over' \in BOOLEAN
        /\ JustDied' /\ NewGame' /\ NoHitLostInDeath'
    BY <2>2, FrameHealth DEF RulesInv
  <2>6. touched' \in BOOLEAN /\ odd' \in BOOLEAN
    BY <2>2 DEF Frame
  <2> QED BY <2>3, <2>4, <2>5, <2>6 DEF RulesInv, TypeOK, GameTypeOK
<1>2. CASE UNCHANGED vars
  BY <1>2 DEF vars, gameVars, RulesInv, TypeOK, GameTypeOK, ScoreCountsHits, Score,
     NoHitLostInDeath, CounterIsPeace, JustDied, NewGame
<1> QED BY <1>1, <1>2

LEMMA RulesInvariance == Rules => []RulesInv
<1>1. Init => RulesInv
  BY InitRulesInv
<1>2. RulesInv /\ [Next]_vars => RulesInv'
  BY StepRulesInv
<1> QED BY <1>1, <1>2, PTL DEF Rules

\* The register types hold: the digits stay digits, and the seven-bit frame
\* counter never wraps around.
THEOREM TypeCorrect == Spec => []TypeOK
<1>1. RulesInv => TypeOK
  BY DEF RulesInv
<1> QED BY <1>1, RulesInvariance, PTL DEF Spec

\* The score is the number of hits since the game started.
THEOREM ScoreIsRight == Spec => []ScoreCountsHits
<1>1. RulesInv => ScoreCountsHits
  BY DEF RulesInv
<1> QED BY <1>1, RulesInvariance, PTL DEF Spec

\* A game that ends has no hit left on its way to the score.
THEOREM DeathLosesNoHit == Spec => []NoHitLostInDeath
<1>1. RulesInv => NoHitLostInDeath
  BY DEF RulesInv
<1> QED BY <1>1, RulesInvariance, PTL DEF Spec

\* Hearts are lost one at a time, HitDelay frames apart.
LEMMA RulesSpaceHearts == Rules => HeartsAreSpaced
<1>1. RulesInv /\ [Next]_vars => [health' < health => peace = HitDelay]_vars
  <2>1. SUFFICES ASSUME RulesInv, Next PROVE health' < health => peace = HitDelay
    OBVIOUS
  <2>2. PICK attack, near, touch : Frame(attack, near, touch)
    BY <2>1 DEF Next
  <2> QED BY <2>1, <2>2, FrameHealth DEF RulesInv
<1> QED BY <1>1, RulesInvariance, PTL DEF Rules, HeartsAreSpaced

\* The same of the game whose frames go on.
THEOREM HeartsSpaced == Spec => HeartsAreSpaced
<1> QED BY RulesSpaceHearts, PTL DEF Spec

\* Every game starts with three hearts and no score, whatever happens in the
\* frame in which it starts.
LEMMA RulesStartFresh == Rules => FreshStart
<1>1. RulesInv /\ [Next]_vars =>
        [game_over => health' = 3 /\ score1' = 0 /\ score2' = 0 /\ ~game_over']_vars
  <2>1. SUFFICES ASSUME RulesInv, Next
        PROVE  game_over => health' = 3 /\ score1' = 0 /\ score2' = 0 /\ ~game_over'
    OBVIOUS
  <2>2. PICK attack, near, touch : Frame(attack, near, touch)
    BY <2>1 DEF Next
  <2> QED BY <2>1, <2>2, FrameHealth DEF RulesInv
<1> QED BY <1>1, RulesInvariance, PTL DEF Rules, FreshStart

\* The same of the game whose frames go on.
THEOREM GamesStartFresh == Spec => FreshStart
<1> QED BY RulesStartFresh, PTL DEF Spec

-----------------------------------------------------------------------------
(* Combat.                                                                 *)

\* One step of the combat is one frame of the rules or leaves them alone.
LEMMA CombatStepByTheRules == [CombatNext]_combatVars => [Next]_vars
<1> SUFFICES ASSUME [CombatNext]_combatVars PROVE [Next]_vars
  OBVIOUS
<1>1. CASE VsyncEdge
  <2>1. PICK attack \in BOOLEAN, near \in SUBSET (EnemyId \ hidden) :
          \E touch \in SUBSET near : Frame(attack, near, touch)
    BY <1>1 DEF VsyncEdge
  <2>2. near \in SUBSET EnemyId
    OBVIOUS
  <2> QED BY <2>1, <2>2 DEF Next
<1>2. CASE ClkEdgeOnArrival \/ ClkEdgeInRoom \/ ClkEdgeInReset
  BY <1>2 DEF ClkEdgeOnArrival, ClkEdgeInRoom, ClkEdgeInReset
<1>3. CASE UNCHANGED combatVars
  BY <1>3 DEF combatVars
<1> QED BY <1>1, <1>2, <1>3 DEF CombatNext

\* The game as lab8.sv puts it together plays by the rules: what is true of
\* GameState with any enemies near and touching is true of it with those on
\* the screen, the rooms and the doors.
THEOREM CombatPlaysByTheRules == CombatSpec => Rules
<1>1. CombatInit => Init
  BY DEF CombatInit
<1> QED BY <1>1, CombatStepByTheRules, PTL DEF CombatSpec, Rules

\* In the whole game, too, the score is the number of hits, no hit is lost in
\* the death of the player, hearts are lost HitDelay frames apart, and every
\* game starts with all hearts and no score.
THEOREM CombatKeepsTheScore ==
  CombatSpec => /\ []ScoreCountsHits /\ []NoHitLostInDeath
                /\ HeartsAreSpaced /\ FreshStart
<1>1. RulesInv => ScoreCountsHits /\ NoHitLostInDeath
  BY DEF RulesInv
<1> QED BY <1>1, CombatPlaysByTheRules, RulesInvariance, RulesSpaceHearts, RulesStartFresh, PTL

\* What GameState makes of the enemies that are near: it hits one of them at
\* most and nobody else, and it takes a heart only when one of them touches.
LEMMA GameFrameFacts ==
  ASSUME health \in 0 .. 3,
         NEW attack, NEW near, NEW touch \in SUBSET near,
         GameFrame(attack, near, touch, FALSE)
  PROVE  /\ health' \in 0 .. 3
         /\ Damage' \subseteq near
         /\ health' < health => near # {}
<1>1. CASE Restart(FALSE)
  BY <1>1 DEF Restart
<1>2. CASE Strike(attack, near, FALSE)
  BY <1>2 DEF Strike
<1>3. CASE LoseHeart(attack, near, touch, FALSE)
  <2>1. health \in 1 .. 3 /\ health' = health - 1 /\ Damage' = {} /\ touch # {}
    BY <1>3 DEF LoseHeart
  <2> QED BY <2>1
<1>4. CASE Quiet(attack, near, touch, FALSE)
  BY <1>4 DEF Quiet
<1> QED BY <1>1, <1>2, <1>3, <1>4 DEF GameFrame

\* Nobody leaves by no door.
LEMMA NoDoorStays == ASSUME NEW r PROVE Behind(r, NoDoor) = r
  BY DEF Behind, Passage, NoDoor, TopDoor, LeftDoor, RightDoor, BottomDoor

-----------------------------------------------------------------------------
(***************************************************************************)
(* The inductive invariant has one part for each of the two clock edges    *)
(* that may come next.  Between them the flags in Damage belong to the     *)
(* enemies of the last frame, and an enemy is in one of four stations of   *)
(* its life: alive, hit and not yet dead, dead and not yet hidden, hidden. *)
(* TwoPointsAtMost follows from the number of hits each station allows.    *)
(***************************************************************************)

Types ==
  /\ health \in 0 .. 3
  /\ Damage \subseteq EnemyId /\ active \subseteq EnemyId /\ hidden \subseteq EnemyId
  /\ phase \in {"vsync", "clk"}
  /\ hitsOn \in [EnemyId -> 0 .. 3]

AtHome(e) == E!Inhabited(room) /\ Enemy_Type[e] = E!SpawnType(room, e)

\* Before the rising edge of VGA_VS.
BeforeVsync ==
  /\ game_over => active = {}
  /\ \A e \in active : AtHome(e) /\ hitsOn[e] = 0
  /\ \A e \in EnemyId \ hidden : hitsOn[e] <= 1
  /\ EnemyId \ hidden \subseteq active \union Damage
  /\ doorcode # NoDoor /\ ~game_over => IsPassage(room, doorcode)

\* Before the Clk edge after it.
BeforeClk ==
  /\ ~game_over /\ doorcode = NoDoor => \A e \in active : AtHome(e)
  /\ \A e \in active : hitsOn[e] <= 1
  /\ \A e \in active \ Damage : hitsOn[e] = 0
  /\ ~game_over /\ doorcode # NoDoor => room # cameFrom \/ ~E!Inhabited(room)

CombatInv ==
  /\ Types
  /\ active \cap hidden = {}
  /\ TwoPointsAtMost
  /\ phase = "vsync" => BeforeVsync
  /\ phase = "clk" => BeforeClk

LEMMA InitCombatInv == CombatInit => CombatInv
<1> SUFFICES ASSUME CombatInit PROVE CombatInv
  OBVIOUS
<1> USE DEF CombatInit, Init, GameInit, E!EnemyInit, Unhurt
<1>1. Types
  BY DEF Types
<1>2. BeforeVsync
  BY DEF BeforeVsync
<1> QED BY <1>1, <1>2 DEF CombatInv, TwoPointsAtMost

\* The rising edge of VGA_VS hits only who is on the screen.
LEMMA VsyncStep == CombatInv /\ VsyncEdge => CombatInv'
<1> SUFFICES ASSUME CombatInv, VsyncEdge PROVE CombatInv'
  OBVIOUS
<1>1. PICK near \in SUBSET (EnemyId \ hidden) :
        health' \in 0 .. 3 /\ Damage' \subseteq near
  BY GameFrameFacts DEF VsyncEdge, Frame, CombatInv, Types
<1>2. BeforeVsync /\ Types /\ TwoPointsAtMost /\ active \cap hidden = {}
  BY DEF CombatInv, VsyncEdge
<1>3. /\ UNCHANGED <<active, Enemy_Type, hidden, doorcode>>
      /\ phase' = "clk" /\ cameFrom' = room
      /\ room' = NextRoom(room, doorcode, game_over)
  BY DEF VsyncEdge
<1>4. ASSUME NEW e \in EnemyId
      PROVE  /\ e \in Damage' => hitsOn'[e] <= hitsOn[e] + 1
             /\ e \notin Damage' => hitsOn'[e] = hitsOn[e]
             /\ hitsOn'[e] \in 0 .. 3 /\ hitsOn[e] \in 0 .. 3
  BY <1>2 DEF VsyncEdge, Types
<1>5. Types'
  <2>1. hitsOn' \in [EnemyId -> 0 .. 3]
    BY <1>4 DEF VsyncEdge
  <2> QED BY <1>1, <1>2, <1>3, <2>1 DEF Types
<1>6. TwoPointsAtMost'
  <2> SUFFICES ASSUME NEW e \in EnemyId PROVE hitsOn'[e] <= 2
    BY DEF TwoPointsAtMost
  <2>1. CASE e \in Damage'
    <3>1. hitsOn[e] <= 1
      BY <1>1, <1>2, <2>1 DEF BeforeVsync
    <3> QED BY <1>4, <2>1, <3>1
  <2>2. CASE e \notin Damage'
    BY <1>2, <1>4, <2>2 DEF TwoPointsAtMost
  <2> QED BY <2>1, <2>2
<1>7. BeforeClk'
  <2>1. (\A e \in active : hitsOn[e] <= 1)'
    BY <1>2, <1>3, <1>4 DEF BeforeVsync, Types
  <2>2. (\A e \in active \ Damage : hitsOn[e] = 0)'
    BY <1>2, <1>3, <1>4 DEF BeforeVsync, Types
  <2>3. (~game_over /\ doorcode = NoDoor => \A e \in active : AtHome(e))'
    <3>1. CASE game_over
      BY <1>2, <1>3, <3>1 DEF BeforeVsync
    <3>2. CASE ~game_over /\ doorcode = NoDoor
      <4>1. room' = room
        BY <1>3, <3>2, NoDoorStays DEF NextRoom
      <4> QED BY <1>2, <1>3, <4>1 DEF BeforeVsync, AtHome, E!Inhabited, E!SpawnType
    <3>3. CASE doorcode # NoDoor
      BY <1>3, <3>3
    <3> QED BY <3>1, <3>2, <3>3
  <2>4. (~game_over /\ doorcode # NoDoor => room # cameFrom \/ ~E!Inhabited(room))'
    <3>1. CASE game_over
      <4>1. room' = 0
        BY <1>3, <3>1 DEF NextRoom
      <4> QED BY <4>1 DEF E!Inhabited
    <3>2. CASE ~game_over
      BY <1>2, <1>3, <3>2 DEF BeforeVsync, NextRoom, IsPassage
    <3> QED BY <3>1, <3>2
  <2> QED BY <2>1, <2>2, <2>3, <2>4 DEF BeforeClk
<1> QED BY <1>2, <1>3, <1>5, <1>6, <1>7 DEF CombatInv

LEMMA ArrivalStep == CombatInv /\ ClkEdgeOnArrival => CombatInv'
<1> SUFFICES ASSUME CombatInv, ClkEdgeOnArrival PROVE CombatInv'
  OBVIOUS
<1>1. /\ phase' = "vsync" /\ ~game_over
      /\ UNCHANGED <<vars, room, cameFrom>>
      /\ active' = IF E!Inhabited(room) THEN EnemyId ELSE {}
      /\ hidden' = EnemyId \ active'
      /\ Enemy_Type' = [e \in EnemyId |-> E!SpawnType(room, e)]
      /\ hitsOn' = [e \in EnemyId |-> 0]
      /\ doorcode' \in Doors
  BY DEF ClkEdgeOnArrival, E!EnemyLoad, Unhurt
<1>2. Types' /\ (active \cap hidden = {})' /\ TwoPointsAtMost'
  BY <1>1 DEF CombatInv, Types, vars, gameVars, TwoPointsAtMost
<1>3. BeforeVsync'
  <2>1. (\A e \in active : AtHome(e) /\ hitsOn[e] = 0)'
    BY <1>1 DEF AtHome, E!Inhabited, E!SpawnType
  <2>2. (\A e \in EnemyId \ hidden : hitsOn[e] <= 1)'
    BY <1>1
  <2>3. (EnemyId \ hidden \subseteq active \union Damage)'
    BY <1>1
  <2>4. (doorcode # NoDoor /\ ~game_over => IsPassage(room, doorcode))'
    BY <1>1 DEF Doors
  <2> QED BY <1>1, <2>1, <2>2, <2>3, <2>4 DEF BeforeVsync, vars, gameVars
<1> QED BY <1>1, <1>2, <1>3 DEF CombatInv

LEMMA InRoomStep == CombatInv /\ ClkEdgeInRoom => CombatInv'
<1> SUFFICES ASSUME CombatInv, ClkEdgeInRoom PROVE CombatInv'
  OBVIOUS
<1>1. /\ phase' = "vsync" /\ ~game_over /\ doorcode = NoDoor
      /\ UNCHANGED <<vars, room, cameFrom, hitsOn, Enemy_Type>>
      /\ active' = active \ Damage
      /\ hidden' = EnemyId \ active
      /\ doorcode' \in Doors
  BY DEF ClkEdgeInRoom, E!EnemyMove, InitializeRoom
<1>2. Types /\ BeforeClk /\ TwoPointsAtMost
  BY DEF CombatInv, ClkEdgeInRoom
<1>3. Types' /\ (active \cap hidden = {})' /\ TwoPointsAtMost'
  BY <1>1, <1>2 DEF Types, vars, gameVars, TwoPointsAtMost
<1>4. BeforeVsync'
  <2>1. (\A e \in active : AtHome(e) /\ hitsOn[e] = 0)'
    BY <1>1, <1>2 DEF BeforeClk, AtHome, E!Inhabited, E!SpawnType
  <2>2. (\A e \in EnemyId \ hidden : hitsOn[e] <= 1)'
    BY <1>1, <1>2 DEF BeforeClk
  <2>3. (EnemyId \ hidden \subseteq active \union Damage)'
    BY <1>1 DEF vars, gameVars
  <2>4. (doorcode # NoDoor /\ ~game_over => IsPassage(room, doorcode))'
    BY <1>1 DEF Doors
  <2> QED BY <1>1, <2>1, <2>2, <2>3, <2>4 DEF BeforeVsync, vars, gameVars
<1> QED BY <1>1, <1>3, <1>4 DEF CombatInv

LEMMA ResetStep == CombatInv /\ ClkEdgeInReset => CombatInv'
<1> SUFFICES ASSUME CombatInv, ClkEdgeInReset PROVE CombatInv'
  OBVIOUS
<1>1. /\ phase' = "vsync" /\ game_over
      /\ UNCHANGED <<vars, room, cameFrom>>
      /\ active' = {} /\ hidden' = EnemyId
      /\ hitsOn' = [e \in EnemyId |-> 0]
  BY DEF ClkEdgeInReset, E!EnemyReset, Unhurt
<1>2. Types' /\ (active \cap hidden = {})' /\ TwoPointsAtMost'
  BY <1>1 DEF CombatInv, Types, vars, gameVars, TwoPointsAtMost
<1>3. BeforeVsync'
  BY <1>1 DEF BeforeVsync, vars, gameVars
<1> QED BY <1>1, <1>2, <1>3 DEF CombatInv

LEMMA StepCombatInv == CombatInv /\ [CombatNext]_combatVars => CombatInv'
<1>1. ASSUME CombatInv, UNCHANGED combatVars PROVE CombatInv'
  BY <1>1 DEF CombatInv, combatVars, vars, gameVars, Types, TwoPointsAtMost, BeforeVsync, BeforeClk,
              AtHome, E!Inhabited, E!SpawnType, IsPassage
<1> QED BY <1>1, VsyncStep, ArrivalStep, InRoomStep, ResetStep DEF CombatNext

THEOREM CombatInvariance == CombatSpec => []CombatInv
<1> QED BY InitCombatInv, StepCombatInv, PTL DEF CombatSpec

-----------------------------------------------------------------------------

\* Nobody who is alive when a frame begins lives in another room
\* (Enemy.sv:262-539 against RoomState.sv:28-98).
THEOREM ResidentsOnly == CombatSpec => []OnlyResidents
<1>1. CombatInv => OnlyResidents
  BY DEF CombatInv, BeforeVsync, OnlyResidents, AtHome
<1> QED BY <1>1, CombatInvariance, PTL

\* An enemy is hit twice at most (Enemy.sv:87-88 and 250-254 against
\* GameState.sv:50-73).
THEOREM PointsAreBounded == CombatSpec => []TwoPointsAtMost
<1>1. CombatInv => TwoPointsAtMost
  BY DEF CombatInv
<1> QED BY <1>1, CombatInvariance, PTL

\* Enemies appear on arrival in a room only, and all of them do.
THEOREM NoResurrection == CombatSpec => AppearOnArrival
<1>1. CombatInv /\ [CombatNext]_combatVars =>
        [~(active' \subseteq active) => room # cameFrom /\ active' = EnemyId]_combatVars
  <2> SUFFICES ASSUME CombatInv, [CombatNext]_combatVars, ~(active' \subseteq active)
               PROVE  room # cameFrom /\ active' = EnemyId
    OBVIOUS
  <2>1. CASE VsyncEdge
    BY <2>1 DEF VsyncEdge
  <2>2. CASE ClkEdgeOnArrival
    <3>1. /\ BeforeClk /\ ~game_over /\ doorcode # NoDoor
          /\ active' = IF E!Inhabited(room) THEN EnemyId ELSE {}
      BY <2>2 DEF CombatInv, ClkEdgeOnArrival, E!EnemyLoad, InitializeRoom
    <3> QED BY <3>1 DEF BeforeClk
  <2>3. CASE ClkEdgeInRoom
    BY <2>3 DEF ClkEdgeInRoom, E!EnemyMove
  <2>4. CASE ClkEdgeInReset
    BY <2>4 DEF ClkEdgeInReset, E!EnemyReset
  <2>5. CASE UNCHANGED combatVars
    BY <2>5 DEF combatVars
  <2> QED BY <2>1, <2>2, <2>3, <2>4, <2>5 DEF CombatNext
<1> QED BY <1>1, CombatInvariance, PTL DEF CombatSpec, AppearOnArrival

\* A heart is lost only to somebody alive or just killed (GameState.sv:77-114
\* does not look at active).
THEOREM EmptyRoomsAreSafe == CombatSpec => ClearedRoomIsSafe
<1>1. CombatInv /\ [CombatNext]_combatVars => [health' < health => active \union Damage # {}]_combatVars
  <2> SUFFICES ASSUME CombatInv, [CombatNext]_combatVars, health' < health
               PROVE  active \union Damage # {}
    OBVIOUS
  <2>1. VsyncEdge
    <3>1. health \in 0 .. 3
      BY DEF CombatInv, Types
    <3>2. health' # health
      BY <3>1
    <3> QED BY <3>2 DEF CombatNext, combatVars, vars, gameVars, ClkEdgeOnArrival, ClkEdgeInRoom, ClkEdgeInReset
  <2>2. \E near \in SUBSET (EnemyId \ hidden) : near # {}
    BY <2>1, GameFrameFacts DEF VsyncEdge, Frame, CombatInv, Types
  <2> QED BY <2>1, <2>2 DEF CombatInv, VsyncEdge, BeforeVsync
<1> QED BY <1>1, CombatInvariance, PTL DEF CombatSpec, ClearedRoomIsSafe

-----------------------------------------------------------------------------
\* The other registers, of which the invariant above needs no type.
Registers ==
  /\ Enemy_Type \in [EnemyId -> 0 .. 3]
  /\ room \in Room /\ doorcode \in DoorCode /\ cameFrom \in Room

LEMMA NextRoomIsARoom ==
  ASSUME NEW r \in Room, NEW d, NEW reset PROVE NextRoom(r, d, reset) \in Room
<1>1. Behind(r, d) \in Room
  <2>1. \A n : <<r, d, n>> \in Passage => n \in Room
    BY DEF Passage, Room
  <2>2. CASE \E n \in Room : <<r, d, n>> \in Passage
    BY <2>2 DEF Behind
  <2> QED BY <2>2 DEF Behind
<1> QED BY <1>1 DEF NextRoom, Room

\* The table has no kinds but three.
LEMMA KindsOfTheTable ==
  ASSUME NEW r \in Room, NEW e \in 1 .. 5 PROVE E!SpawnType(r, e) \in 0 .. 3
<1>1. CASE ~E!Inhabited(r)
  BY <1>1 DEF E!SpawnType
<1>2. CASE E!Inhabited(r)
  <2>1. r \in {1, 2, 3, 4, 5, 6} /\ e \in {1, 2, 3, 4, 5}
    BY <1>2 DEF E!Inhabited
  <2>2. E!Residents[r][e][3] \in 1 .. 3
    <3> USE <2>1 DEF E!Residents
    <3>1. CASE r = 1
      BY <3>1 DEF E!Room1Residents
    <3>2. CASE r = 2
      BY <3>2 DEF E!Room2Residents
    <3>3. CASE r = 3
      BY <3>3 DEF E!Room3Residents
    <3>4. CASE r = 4
      BY <3>4 DEF E!Room4Residents
    <3>5. CASE r = 5
      BY <3>5 DEF E!Room5Residents
    <3>6. CASE r = 6
      BY <3>6 DEF E!Room6Residents
    <3> QED BY <3>1, <3>2, <3>3, <3>4, <3>5, <3>6
  <2> QED BY <1>2, <2>2 DEF E!SpawnType
<1> QED BY <1>1, <1>2

LEMMA RegistersStep ==
  ASSUME EnemyId \subseteq 1 .. 5, Registers, [CombatNext]_combatVars PROVE Registers'
<1>1. CASE VsyncEdge
  <2>1. room' \in Room /\ cameFrom' \in Room
    BY <1>1, NextRoomIsARoom DEF VsyncEdge, Registers
  <2> QED BY <1>1, <2>1 DEF VsyncEdge, Registers
<1>2. CASE ClkEdgeOnArrival
  <2>1. \A e \in EnemyId : E!SpawnType(room, e) \in 0 .. 3
    BY KindsOfTheTable DEF Registers
  <2>2. Enemy_Type' \in [EnemyId -> 0 .. 3]
    BY <1>2, <2>1 DEF ClkEdgeOnArrival, E!EnemyLoad
  <2>3. doorcode' \in DoorCode
    BY <1>2 DEF ClkEdgeOnArrival, Doors, DoorCode
  <2> QED BY <1>2, <2>2, <2>3 DEF ClkEdgeOnArrival, Registers, vars, gameVars
<1>3. CASE ClkEdgeInRoom
  <2>1. doorcode' \in DoorCode
    BY <1>3 DEF ClkEdgeInRoom, Doors, DoorCode
  <2> QED BY <1>3, <2>1 DEF ClkEdgeInRoom, E!EnemyMove, Registers, vars, gameVars
<1>4. CASE ClkEdgeInReset
  BY <1>4 DEF ClkEdgeInReset, E!EnemyReset, Registers, vars, gameVars
<1>5. CASE UNCHANGED combatVars
  BY <1>5 DEF combatVars, vars, gameVars, Registers
<1> QED BY <1>1, <1>2, <1>3, <1>4, <1>5 DEF CombatNext

\* Every register keeps its width, for enemies that are in the table: the
\* score digits, the saturating counter, the kinds and the rooms.
THEOREM CombatTypeCorrect ==
  ASSUME EnemyId \subseteq 1 .. 5 PROVE CombatSpec => []CombatTypeOK
<1>1. CombatInit => Registers
  <2>1. 0 \in Room /\ NoDoor \in DoorCode /\ 0 \in 0 .. 3
    BY DEF Room, DoorCode
  <2> QED BY <2>1 DEF CombatInit, E!EnemyInit, Registers
<1>2. Registers /\ [CombatNext]_combatVars => Registers'
  BY RegistersStep
<1>3. RulesInv /\ CombatInv /\ Registers => CombatTypeOK
  BY DEF RulesInv, CombatInv, Types, Registers, CombatTypeOK, E!EnemyTypeOK
<1> QED BY <1>1, <1>2, <1>3, CombatPlaysByTheRules, RulesInvariance, CombatInvariance, PTL
        DEF CombatSpec

=============================================================================
