SPECIFICATION Spec
CONSTANTS
  Keys = {0, 4}
  InsertTries = 5
  RemoveTries = 7
  Prompt = FALSE
INVARIANTS SetUpInOrder NoPhantomKeys
