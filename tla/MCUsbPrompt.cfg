SPECIFICATION FairSpec
CONSTANTS
  Keys = {0}
  InsertTries = 2
  RemoveTries = 2
  Prompt = TRUE
PROPERTIES KeysKeepComing HotPlug
