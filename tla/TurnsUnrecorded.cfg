CONSTANTS
  Turns = {t1, t2}
  Creations = {r1}
  Users = {u1}
  NoUser = NoUser
  MaxTime = 2
  MaxFaults = 0
SPECIFICATION Spec
SYMMETRY Symmetric
INVARIANT EveryMessageRecorded
CHECK_DEADLOCK FALSE
