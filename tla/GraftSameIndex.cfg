SPECIFICATION Spec
CONSTANTS
  f1 = f1  f2 = f2  k1 = k1  k2 = k2  k3 = k3
  Files = {f1, f2}
  Threads = {t1}
  Batches <- SameIndex
  Slots <- TwoFiles
  KernelPages = {k1, k2}
  MaxBackups = 3
  InsertMayFail = FALSE
  LeakBound = 0
  ReplaceOnlyRestored = TRUE
CHECK_DEADLOCK FALSE
INVARIANT UnloadRestores
