SPECIFICATION Spec
CONSTANTS
  Data = {0, 1, 2}
  Gap = 2
INVARIANTS EachAccessOnce NoContention
