CONSTANTS
  Authorizations = {a1, a2}
  Syncs = {s1, s2}
  Revocations = {r1}
  Users = {u1, u2}
  NoUser = NoUser
  NoId = NoId
  NoSync = NoSync
  Instants = {t1}
  MaxFaults = 1
SPECIFICATION Spec
SYMMETRY Symmetric
INVARIANTS
  TypeOK
  AnsweredWhole
  SnapshotsOfOwner
  ClashExplained
  TokenFollowsAccount
CHECK_DEADLOCK FALSE
