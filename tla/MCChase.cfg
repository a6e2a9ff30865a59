CONSTANTS
  Scenes <- MCScenes
  PollFrames = 4
  MaxTurns = 1
  MaxStrays = 1
SPECIFICATION Spec
INVARIANTS TypeOK OneStepIntoWalls ColumnKept
PROPERTIES ReDeadArrives SliderSettles
