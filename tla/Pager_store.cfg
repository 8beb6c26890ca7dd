SPECIFICATION Spec
CONSTANTS
  a1 = a1
  b1 = b1
  A1 = A1
  B1 = B1
  Conn = {a1, b1}
  Process = {A1, B1}
  ProcOf <- Apart
  N = 2
  MaxTx = 2
  MaxTrouble = 2
  Garbage = Garbage
  Absent = Absent
  None = None
SYMMETRY Swap
INVARIANTS
  TypeOK
  WriteAhead
  CacheFresh
  NoHotJournal
PROPERTIES
  StoreSpec
