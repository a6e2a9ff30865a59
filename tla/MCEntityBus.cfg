CONSTANTS
  N = 2
  KeeseDelay = 2
  Dir <- MCDir
  Population <- MCPopulation
SPECIFICATION Spec
INVARIANTS TypeOK RightPositions OrdersReachTheirEnemy
PROPERTIES SlidersSettle KeeseTurn
