------------------------------ MODULE DsoKernel ------------------------------
(***************************************************************************)
(* What the inputs of DsoBuild have in common when they come from one       *)
(* kernel: the graph, the lists of names, and the module as the kernel's    *)
(* loader has placed it. The theorems about DsoBuild assume it, and         *)
(* MCDsoBuild has TLC evaluate it for its jobs.                             *)
(***************************************************************************)
EXTENDS DsoBuild

-----------------------------------------------------------------------------
(* The graph and the names *)

\* A name has one node.
NodesNamed ==
  \A j \in Jobs : \A a, b \in DOMAIN j.krg.nodes : a # b => j.krg.nodes[a].name # j.krg.nodes[b].name

\* No module of the kernel is called shim, libshim.so has no name for what the .ko
\* itself defines, and no symbol lies in the kernel below its distance from the start
\* of the module's core.
NoShimModule == \A j \in Jobs : Shim \notin ToSet(j.krg.modules)
OwnNames ==
  \A j \in Jobs : j.ko.given =>
    \A i \in DOMAIN j.ko.symbols :
      LET t == j.ko.symbols[i] IN
      t.shndx # Undef =>
        (IF t.name # NoName THEN t.name ELSE SlotName(j.ko.sections[t.shndx].name, t.value)) \notin j.shims
AboveCore ==
  \A j \in Jobs : j.ko.given =>
    \A i \in DOMAIN j.ko.symbols : \A m \in DOMAIN j.krg.nodes :
      LET t == j.ko.symbols[i]  l == compute_core_layout(j.ko) IN
      (t.name = j.krg.nodes[m].name /\ t.shndx \in DOMAIN l.offsets) =>
        l.offsets[t.shndx] + t.value <= j.krg.nodes[m].address
OneKernel == NodesNamed /\ NoShimModule /\ OwnNames /\ AboveCore

-----------------------------------------------------------------------------
(* The module loader, an external *)

\* The members of S below i.
Earlier(S, i) == {j \in S : j < i}

\* Where the loader has put the end of the sections secs of a module that starts at b:
\* behind the last of them, or at from if there is none.
EndIn(k, b, secs, from) ==
  IF secs = {} THEN from ELSE k.kernel[Max(secs)] - b + k.sections[Max(secs)].size

\* Each section is at the next place behind the one before that fits its alignment.
PlacedNext(k, b, secs, from) ==
  \A i \in secs : k.kernel[i] - b = align(EndIn(k, b, Earlier(secs, i), from), Larger(1, k.sections[i].align))

\* The loader puts the sections that it keeps behind one another: code, then read-only
\* data, then data, each kind from a page on, in the order of the file. The first one is
\* where the core starts.
LoadedCode(k) == {i \in DOMAIN k.kernel : k.sections[i].exec}
LoadedRo(k)   == {i \in DOMAIN k.kernel : ~k.sections[i].exec /\ ~k.sections[i].write}
LoadedData(k) == {i \in DOMAIN k.kernel : ~k.sections[i].exec /\ k.sections[i].write}
LoaderPlaces(k) ==
  /\ DOMAIN k.kernel \subseteq DOMAIN k.sections /\ \A i \in DOMAIN k.kernel : k.kernel[i] \in Nat
  /\ \E i \in DOMAIN k.kernel :
       LET b  == k.kernel[i]
           ro == PageUp(EndIn(k, b, LoadedCode(k), 0))
           rw == PageUp(EndIn(k, b, LoadedRo(k), ro))
       IN  /\ b # 0 /\ b % PageSize = 0
           /\ PlacedNext(k, b, LoadedCode(k), 0) /\ PlacedNext(k, b, LoadedRo(k), ro)
           /\ PlacedNext(k, b, LoadedData(k), rw)

\* It keeps what KoFile takes for the core, and nothing that is code and writable. KoFile
\* leaves .exit sections out; a kernel that can unload modules keeps them, so a module
\* that has any is assumed away here, and DsoExit.cfg shows what becomes of it.
CoreKept(k) ==
  /\ DOMAIN k.kernel = Core(k)
  /\ \A i \in Core(k) : ~(k.sections[i].exec /\ k.sections[i].write)

\* The name of a symbol of a .ko.
NameIn(k, t) ==
  IF t.name # NoName THEN t.name
  ELSE SlotName(IF t.shndx = Undef THEN ".internal" ELSE k.sections[t.shndx].name, t.value)

\* The graph is one of the kernel in which this .ko is loaded: the loader has placed its
\* sections, symbols that share a name are one, a node of that name has the address that
\* the loader gave the symbol, and no node is at zero.
ModuleLoaded == \A j \in Jobs : j.ko.given => LoaderPlaces(j.ko) /\ CoreKept(j.ko)
OneTarget ==
  \A j \in Jobs : j.ko.given =>
    \A s, t \in ToSet(j.ko.symbols) :
      NameIn(j.ko, s) = NameIn(j.ko, t) => s.shndx = t.shndx /\ s.value = t.value
NodesLoaded ==
  \A j \in Jobs : j.ko.given =>
    \A t \in ToSet(j.ko.symbols) : \A n \in ToSet(j.krg.nodes) :
      t.shndx \in DOMAIN j.ko.kernel /\ n.name = NameIn(j.ko, t) => n.address = j.ko.kernel[t.shndx] + t.value
AddressesKnown == \A j \in Jobs : \A i \in DOMAIN j.krg.nodes : j.krg.nodes[i].address # 0
InThatKernel == ModuleLoaded /\ OneTarget /\ NodesLoaded /\ AddressesKnown
=============================================================================
