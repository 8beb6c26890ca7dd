SPECIFICATION FairSpec
CONSTANTS
  g1 = g1
  g2 = g2
  c1 = c1
  c2 = c2
  c3 = c3
  Guild = {g1}
  Id = {c1, c2}
  Mute = {}
  Horizon = 2
  MaxTrouble = 0
  None = None
CHECK_DEADLOCK FALSE
PROPERTIES
  OverdueEnds
