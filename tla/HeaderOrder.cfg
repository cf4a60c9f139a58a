\* A struct of a module that embeds a struct of the kernel.
SPECIFICATION Spec
CONSTANTS
  Family = "embedded"
  Sources <- AllSources
  Base = "vmlinux"
  Names <- AllNames
  Ids <- AllIds
  RecursionLimit = 10
  Jobs <- AllJobs
INVARIANTS
  DefinedBeforeUse
