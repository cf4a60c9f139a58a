\* Any code of a module and of vmlinux, and a second module with the same names.
SPECIFICATION Spec
CONSTANTS
  Choices = "all"
  Names <- AllNames
  Instrumentation = {"asan"}
  IndirectThunks = {"thunk"}
  ReturnThunks = {"rethunk"}
  Programs <- AllPrograms
INVARIANTS
  QueueFresh
  ClosureExact
  VerdictExact
  CallsFollowed
PROPERTIES
  Answers
