SPECIFICATION Spec
CONSTANTS
  a1 = a1
  a2 = a2
  b1 = b1
  b2 = b2
  A = A
  B = B
  Conn = {a1, a2, b1, b2}
  Process = {A, B}
  ProcOf <- TwoAndTwo
  MaxFaults = 2
INVARIANTS
  TypeOK
  TableExclusion
  LockedInSystem
  ReservedIsSeen
PROPERTIES
  TableSpec
