SPECIFICATION MCSpec
CONSTANTS
  a = a  b = b  c = c  s1 = s1  s2 = s2  s3 = s3  NoState = NoState  NoPid = NoPid
  Shells = {s1, s2, s3}
  Libs = {a, b, c}
  Tasks <- EveryTask
  Interruptible = {"clean", "run"}
  MayFail = {"insmod", "protect", "state"}
  Serial = {TRUE, FALSE}
INVARIANTS AppOnGraft GraftReachable
PROPERTIES ExecRestores ModuleAsFound SerialReplaceKept ExecReturns
CHECK_DEADLOCK FALSE
