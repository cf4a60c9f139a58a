SPECIFICATION Spec
CONSTANTS
  f1 = f1  f2 = f2  k1 = k1  k2 = k2  k3 = k3
  Files = {f1}
  Slots <- TwoPages
  KernelPages = {k1, k2, k3}
  Threads = {t1}
  Batches <- OneFile
  MaxBackups = 3
  InsertMayFail = TRUE
  LeakBound = 0
  ReplaceOnlyRestored = FALSE
INVARIANTS GraftRecorded RefsExact OwnerCoherent
CHECK_DEADLOCK FALSE
