SPECIFICATION FairSpec
CONSTANTS
  g1 = g1
  g2 = g2
  c1 = c1
  c2 = c2
  c3 = c3
  Guild = {g1, g2}
  Id = {c1, c2}
  Mute = {g2}
  Horizon = 3
  MaxTrouble = 2
  None = None
CHECK_DEADLOCK FALSE
INVARIANTS
  TypeOK
  OneActiveCTA
  ToldOnce
  ToldWhenOver
PROPERTIES
  OverdueFinished
