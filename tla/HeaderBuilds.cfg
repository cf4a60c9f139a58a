\* Requests that several sources define, with what kallsyms says, types across split BTF, and what fails.
SPECIFICATION Spec
CONSTANTS
  Family = "all"
  Sources <- AllSources
  Base = "vmlinux"
  Names <- AllNames
  Ids <- AllIds
  RecursionLimit = 10
  Jobs <- AllJobs
INVARIANTS
  TypeOK
  SourceChosen
  TypesExact
  HeaderClosed
  RightLayout
