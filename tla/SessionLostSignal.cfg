SPECIFICATION FairSpec
CONSTANTS
  a = a  b = b  c = c  s1 = s1  s2 = s2  s3 = s3  NoState = NoState  NoPid = NoPid
  Shells = {s1}
  Libs = {a, b}
  Tasks <- SudoExec
  Interruptible = {}
  MayFail = {}
  Serial = {TRUE}
PROPERTY RestoresOnSignal
CHECK_DEADLOCK FALSE
