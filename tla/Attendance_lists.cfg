SPECIFICATION Spec
CONSTANTS
  g1 = g1
  c1 = c1
  n1 = n1
  p1 = p1
  r1 = r1
  r2 = r2
  j1 = j1
  j2 = j2
  Guild = {g1}
  Id = {c1}
  Mute = {}
  Horizon = 1
  MaxTrouble = 1
  None = None
  Name = {n1}
  File <- Files
  Image <- Images
  Party = {p1}
  RowId = {r1, r2}
  Job = {j1, j2}
  Main = Main
  MaxWork = 2
SYMMETRY Interchangeable
INVARIANTS
  TypeOK
  ListedAsFiled
  MarksStay
  CancelledIsGone
CHECK_DEADLOCK FALSE
