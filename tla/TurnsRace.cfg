CONSTANTS
  Turns = {t1, t2}
  Creations = {r1, r2}
  Users = {u1, u2}
  NoUser = NoUser
  MaxTime = 1
  MaxFaults = 1
SPECIFICATION FairSpec
INVARIANTS
  TypeOK
  SequenceContiguous
  TimesFollow
  AcceptedWhole
  OvertakenByMessage
  LastMessageAnswered
PROPERTIES
  ImplementsLog
  SomeTurnAnswered
CHECK_DEADLOCK FALSE
