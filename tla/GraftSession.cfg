SPECIFICATION FairSpec
CONSTANTS
  f1 = f1  f2 = f2  k1 = k1  k2 = k2  k3 = k3
  Files = {f1, f2}
  Slots <- ThreePages
  KernelPages = {k1, k2, k3}
  Threads = {t1}
  Batches <- DisjointIndices
  MaxBackups = 4
  InsertMayFail = FALSE
  LeakBound = 0
  ReplaceOnlyRestored = TRUE
INVARIANTS BackupIsGraft RestoreErasesCode NoOops OwnerReset UnloadRestoresRecorded
PROPERTIES HandlersReturn KeepsService
