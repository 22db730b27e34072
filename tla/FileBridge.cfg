SPECIFICATION Spec
CONSTANTS
  Remote = {r1, r2}
  Saves = {s1, s2}
  Scenarios <- MCFaults
  InitialSeq = 1
INVARIANTS
  SavesSurvive
PROPERTIES
  NewerWorkKept
  MirrorSettles
CHECK_DEADLOCK FALSE
