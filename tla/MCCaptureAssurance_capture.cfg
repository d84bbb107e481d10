\* Records of two threads, three effect objects with two effect ids.
SPECIFICATION Spec
CONSTANTS
  t1 = t1
  t2 = t2
  i1 = i1
  i2 = i2
  i3 = i3
  i4 = i4
  o1 = o1
  o2 = o2
  o3 = o3
  x = x
  y = y
  k1 = k1
  k2 = k2
  Threads = {t1, t2}
  Malformed = Malformed
  NaN = NaN
  Objects = {o1, o2, o3}
  IdOf <- SharedId
  Contents = {k1, k2}
  NoReceipt = NoReceipt
  Records <- AnyRecord
  NoInventory = NoInventory
  MaxRecords = 4
  MaxCalls = 4
  MaxSteps = 4
SYMMETRY Symmetric
INVARIANTS
  ReceiptsBindEffects
  UnreceiptedIsBypassed
  ThreadsIndependent
  KeptIsCausal
  ReportNamesBypasses
CHECK_DEADLOCK FALSE
