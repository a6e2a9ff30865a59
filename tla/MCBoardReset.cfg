CONSTANTS
  H_TOTAL = 2
  V_TOTAL = 6
  VS_FIRST = 3
  VS_LAST = 4
SPECIFICATION Spec
PROPERTIES ResetRestartsTheRooms
