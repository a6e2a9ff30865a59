CONSTANTS
  Step = 16
  Player_X_Center = 336
  Player_Y_Center = 400
  Blocked <- MCBlocked
SPECIFICATION Spec
INVARIANTS TypeOK NeverInWall DoorsLeadOut
PROPERTIES ArrivalIsSafe RestartsAtTheStart RefinesMaze
