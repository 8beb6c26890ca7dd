SPECIFICATION FairSpec
CONSTANTS
  g1 = g1
  g2 = g2
  u1 = u1
  u2 = u2
  guest = guest
  trial = trial
  Guild = {g1}
  User = {u1}
  Role = {guest, trial}
  RowId = {r1, r2}
  Duration = {1, 2}
  Deletable = {}
  Barrable = {}
  MaxEvents = 2
  MaxTrouble = 0
  None = None
PROPERTIES
  GuestRoleEnds
