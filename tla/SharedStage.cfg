SPECIFICATION StageSpec
CONSTANTS
  root = root
  laya = laya
  layb = layb
  c1 = c1
  c2 = c2
  Client <- MCClient
  Layer <- MCLayer
  StageRuns <- MCScenes
INVARIANTS
  KeysAgree
  EditsAccounted

  
CHECK_DEADLOCK FALSE
