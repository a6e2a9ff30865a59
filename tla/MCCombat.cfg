CONSTANTS
  EnemyId <- MCEnemyId
  HitDelay = 2
  CounterTop = 3
  CounterMod = 4
  Base = 2
SPECIFICATION CombatSpec
INVARIANTS OnlyResidents TwoPointsAtMost
PROPERTIES AppearOnArrival ClearedRoomIsSafe
