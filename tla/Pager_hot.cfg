SPECIFICATION Spec
CONSTANTS
  a1 = a1
  b1 = b1
  A1 = A1
  B1 = B1
  Conn = {a1, b1}
  Process = {A1}
  ProcOf <- Together
  N = 2
  MaxTx = 1
  MaxTrouble = 1
  Garbage = Garbage
  Absent = Absent
  None = None
INVARIANT NoHotJournal
