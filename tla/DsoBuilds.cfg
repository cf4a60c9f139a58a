\* Kernel functions and a module in every placement, with thunks, imports and slots.
SPECIFICATION BuildSpec
CONSTANTS
  Family = "all"
  Names <- AllNames
  LIB_SHIM = "libshim.so"
  Hash <- HashOfName
  NameBytes <- BytesOfName
  WordBits = 2
  Builders = {}
  Jobs <- AllJobs
  Register <- RegisterOfName
  ReturnThunks = {"ret"}
  ShortThunks = {"rax"}
  ThunkArray = "array"
  ThunkRax = "rax"
  RodataNames = {"ro"}
  SlotName <- SlotLabel
INVARIANTS
  MapFaithful
  MapExact
  HashLookup
  Loadable
  ClosurePaged
  SlotsInPlace
  ApartInMemory
