CONSTANTS
  EnemyId <- MCEnemyId
  HitDelay = 90
  CounterTop = 125
  CounterMod = 128
  Base = 10
SPECIFICATION Spec
INVARIANTS TypeOK ScoreCountsHits NoHitLostInDeath
PROPERTIES HeartsAreSpaced FreshStart TouchKills
