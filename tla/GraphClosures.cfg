SPECIFICATION Spec
CONSTANTS
  Modules = {1, 2}
  Names <- AllNames
  HardBlacklist = {"sched"}
  SoftIgnore = {"mcount"}
  Dotted = {".slow", ".data@0", ".data@1", ".text@1"}
  StopNames = {"g"}
  SymbolTables <- Tables
  ExportTables <- Exports
  SectionEnd <- Ends
  SectionSymbols <- Parts
  Relocations <- Relocs
  Instructions <- Insns
  ImportSlots <- Slots
  NoBase <- Lost
  MaxReads = 3
INVARIANTS OwnerPreferred   ClosureLeast
PROPERTY SymbolsSettled
CHECK_DEADLOCK FALSE
