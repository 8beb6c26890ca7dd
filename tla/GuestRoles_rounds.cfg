SPECIFICATION FairSpec
CONSTANTS
  g1 = g1
  g2 = g2
  u1 = u1
  u2 = u2
  guest = guest
  trial = trial
  Guild = {g1, g2}
  User = {u1}
  Role = {guest}
  RowId = {r1, r2}
  Duration <- Durations
  Deletable <- Unsteady
  Barrable <- Unsteady
  MaxEvents = 1
  MaxTrouble = 1
  None = None
CHECK_DEADLOCK FALSE
INVARIANTS
  TypeOK
  OverdueBounded
PROPERTIES
  RowsExpire
