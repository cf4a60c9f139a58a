\* A conditional jump of vmlinux to the cold part of its function.
SPECIFICATION Spec
CONSTANTS
  Choices = "jumps"
  Names <- AllNames
  Instrumentation = {"asan"}
  IndirectThunks = {"thunk"}
  ReturnThunks = {"rethunk"}
  Programs <- AllPrograms
INVARIANT PassIsComplete
