SPECIFICATION Spec
CONSTANTS
  f1 = f1  f2 = f2  k1 = k1  k2 = k2  k3 = k3
  Files = {f1, f2}
  Threads = {t1, t2}
  Batches <- OnePageEach
  Slots <- TwoDSOs
  KernelPages = {k1, k2}
  MaxBackups = 2
  InsertMayFail = FALSE
  LeakBound = 2
  ReplaceOnlyRestored = FALSE
INVARIANTS PageAccounting RefsCover
CONSTRAINT BeforeStray
SYMMETRY SenderSymmetry
CHECK_DEADLOCK FALSE
