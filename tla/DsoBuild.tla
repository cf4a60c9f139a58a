------------------------------- MODULE DsoBuild -------------------------------
(***************************************************************************)
(* build_shared_object of make_dll/build_PIC_so.py up to the builder, and   *)
(* the builder (DsoLayout) behind it: from symbols.txt, shim.txt, the       *)
(* dependency graph out.krg and the module's .ko to the resolved symbols,   *)
(* the slots of .data that ld.so fills, and the synthetic thunk pages.      *)
(***************************************************************************)
EXTENDS DsoLayout, SequencesExt

CONSTANTS
  Jobs,               \* inputs of one run
  Register,           \* of the names __x86_indirect_thunk_*: the register
  ReturnThunks,       \* names that start with __x86_return_thunk
  ShortThunks,        \* registers whose jump has two bytes, not three
  ThunkArray, ThunkRax,  \* __x86_indirect_thunk_array and __x86_indirect_thunk_rax
  RodataNames,        \* names that start with .rodata
  SlotName(_, _)      \* the name made of a section's name and a value

NoReg  == "none"
NoName == ""       \* a blank line; the name of a section symbol
Shim   == "shim"   \* the module of a symbol that libshim.so provides
Thunk  == "builtin_thunk"
Undef  == 0        \* SHN_UNDEF
NoKo   == [given |-> FALSE]

\* A job is [lines, shims, krg, ko]. krg is [whole, nodes, modules, edges]: edges of a
\* node are numbers of nodes. ko is [given, whole, sections, symbols, relas, kernel]:
\* relas are the relocations in the order of the file, info the section that one is for;
\* kernel says where the module loader has put each section that it kept. The name of
\* the section with the relocations of another one is .rela before that one's name:
\* dotted says that the latter starts with a dot.
Node    == [name : Names, address : Nat, size : Nat, func : BOOLEAN, module : Nat]
Sec     == [name : STRING, group : STRING, dotted : BOOLEAN, alloc : BOOLEAN, write : BOOLEAN, exec : BOOLEAN, align : Nat, size : Nat]
KoSym   == [name : Names \cup {NoName}, shndx : Nat, value : Nat]
Rela    == [info : Nat, offset : Nat, sym : Nat, addend : Int, abs64 : BOOLEAN]

\* A symbol without a name has a section, or none, and gets a name from it.
KoTyped(k) ==
  /\ k.whole \in BOOLEAN /\ k.sections \in Seq(Sec) /\ k.symbols \in Seq(KoSym) /\ k.relas \in Seq(Rela)
  /\ \A r \in DOMAIN k.relas : k.relas[r].sym \in DOMAIN k.symbols
  /\ \A i \in DOMAIN k.symbols :
       LET t == k.symbols[i] IN
       /\ t.shndx # Undef => t.shndx \in DOMAIN k.sections
       /\ t.name = NoName =>
            SlotName(IF t.shndx = Undef THEN ".internal" ELSE k.sections[t.shndx].name, t.value) \in Names

ASSUME BuildJobs ==
  /\ NoName \notin Names
  /\ \A j \in Jobs :
       /\ j.lines \in Seq(Names \cup {NoName}) /\ j.shims \subseteq Names
       /\ j.krg.whole \in BOOLEAN /\ j.krg.nodes \in Seq(Node) /\ j.krg.modules \in Seq(STRING)
       /\ j.krg.edges \in [DOMAIN j.krg.nodes -> SUBSET DOMAIN j.krg.nodes]
       /\ j.ko.given \in BOOLEAN /\ (j.ko.given => KoTyped(j.ko))

VARIABLES
  phase,         \* the step build_shared_object is at
  job,           \* the input
  requested,     \* the names of symbols.txt
  shim_symbols,  \* names that libshim.so provides
  thunks,        \* thunk names of shim.txt
  owner_module,  \* the module of the exports
  todo,          \* requests, then relocations, that are not handled yet
  missing,       \* requests that the graph does not know
  resolved,      \* the resolved symbols
  needs_shim,    \* libshim.so is in needed_libs
  base,          \* where the module's core starts in the kernel
  slots,         \* data_relocations
  pages,         \* synthetic_text_pages
  dump           \* resolved_symbol_addresses.txt

fvars == << phase, job, requested, shim_symbols, thunks, owner_module, todo, missing, resolved, needs_shim,
            base, slots, pages, dump >>
lists == << requested, shim_symbols, thunks >>

BuildInit ==
  /\ LayoutInit
  /\ phase = "load" /\ job \in Jobs
  /\ requested = << >> /\ shim_symbols = {} /\ thunks = {} /\ owner_module = "kernel" /\ todo = << >>
  /\ missing = {} /\ resolved = << >> /\ needs_shim = FALSE /\ base = 0 /\ slots = << >> /\ pages = {} /\ dump = << >>

-----------------------------------------------------------------------------
(* KrgGraph *)

krg   == job.krg
nodes == krg.nodes

\* A node of a module that the file does not name counts as kernel.
ModuleName(i) == IF nodes[i].module \in DOMAIN krg.modules THEN krg.modules[nodes[i].module] ELSE "kernel"

\* name_to_id keeps the last node of a name; 0 stands for none.
lookup(n) == Max({0} \cup {i \in DOMAIN nodes : nodes[i].name = n})

\* Mutant: only what the root itself refers to.
DirectCalls(root, stop) == {root} \cup krg.edges[root]

\* What the root reaches without going through a name of stop: the least set that
\* has the root and what its members refer to.
closure(root, stop) ==
  {i \in DOMAIN nodes :
     \A S \in SUBSET DOMAIN nodes :
       root \in S /\ (\A j \in S : nodes[j].name \notin stop => krg.edges[j] \subseteq S) => i \in S}

\* A finite set of numbers in ascending order.
InOrder(S) == [k \in 1 .. Cardinality(S) |-> CHOOSE i \in S : Cardinality({j \in S : j <= i}) = k]

\* A file that ends within one of its tables, or names nothing, is refused.
LoadGraph ==
  /\ phase = "load"
  /\ phase' = IF krg.whole THEN "lists" ELSE "raised"
  /\ UNCHANGED << job, lists, owner_module, todo, missing, resolved, needs_shim, base, slots, pages, dump >>

-----------------------------------------------------------------------------
(* The lists of names *)

\* Each name once, where it comes first; blank lines and comments count for nothing.
parse_symbol_requests(lines) ==
  LET kept == InOrder({k \in DOMAIN lines : lines[k] # NoName /\ \A j \in 1 .. k - 1 : lines[j] # lines[k]})
  IN  [r \in DOMAIN kept |-> lines[kept[r]]]

indirect_thunk_register(n) == IF n \in DOMAIN Register THEN Register[n] ELSE NoReg

\* An API that is asked for is never taken from the shim; the two names of the
\* RAX thunk stand for each other.
UnrequestedShims(names) ==
  LET asked == ToSet(names)  left == job.shims \ asked
  IN  IF asked \cap {ThunkArray, ThunkRax} # {} THEN left \ {ThunkArray, ThunkRax} ELSE left

ReadLists ==
  /\ phase = "lists"
  /\ LET names == parse_symbol_requests(job.lines)  all == UnrequestedShims(names)
         builtin == {n \in all : indirect_thunk_register(n) # NoReg}
     IN /\ requested' = names /\ shim_symbols' = all \ builtin /\ thunks' = builtin
  /\ phase' = "owner"
  /\ UNCHANGED << job, owner_module, todo, missing, resolved, needs_shim, base, slots, pages, dump >>

-----------------------------------------------------------------------------
(* resolve_requested_symbols *)

module_for_entry(i) == IF nodes[i].name \in shim_symbols THEN Shim ELSE ModuleName(i)

\* All exports that the graph knows come from the module of the first.
CheckOwner ==
  /\ phase = "owner"
  /\ LET first == IF requested = << >> THEN 0 ELSE lookup(requested[1])
         Owner(i) == module_for_entry(i)
         known == {lookup(n) : n \in ToSet(requested)} \ {0}
     IN IF first = 0 \/ \E i \in known : Owner(i) # Owner(first)
          THEN phase' = "raised" /\ UNCHANGED << owner_module, todo >>
          ELSE phase' = "resolve" /\ owner_module' = Owner(first) /\ todo' = requested
  /\ UNCHANGED << job, lists, missing, resolved, needs_shim, base, slots, pages, dump >>

ResolvedNames == {resolved[i].name : i \in DOMAIN resolved}
OrderOf(n, k) == IF Contains(requested, n) THEN (CHOOSE r \in DOMAIN requested : requested[r] = n) - 1 ELSE k

ResolvedSymbol(n, m, func, address, size, k, exported) ==
  [name |-> n, module |-> m, defined |-> m # Shim, exported |-> exported, func |-> func, address |-> address,
   size |-> size, reuse |-> NoReg, export_order |-> IF exported THEN OrderOf(n, k) ELSE k, original_order |-> k]

FromNode(i, k) ==
  LET n == nodes[i] IN
  ResolvedSymbol(n.name, module_for_entry(i), n.func, n.address, n.size, k, Contains(requested, n.name))

\* Nodes of the closure whose name is new, in the order of the graph.
NewNodes(root) ==
  LET all == closure(root, shim_symbols) IN
  InOrder({i \in all : /\ nodes[i].name \notin ResolvedNames
                       /\ \A j \in all : j < i => nodes[j].name # nodes[i].name})

WithClosure(root) ==
  LET new == NewNodes(root) IN
  resolved \o [k \in DOMAIN new |-> FromNode(new[k], Len(resolved) + k - 1)]

ClosureNeedsShim(root) == \E i \in closure(root, shim_symbols) : module_for_entry(i) = Shim

ResolveName ==
  /\ phase = "resolve" /\ todo # << >>
  /\ todo' = Tail(todo)
  /\ LET root == lookup(Head(todo)) IN
       IF root = 0
         THEN missing' = missing \cup {Head(todo)} /\ UNCHANGED << resolved, needs_shim >>
         ELSE resolved' = WithClosure(root) /\ needs_shim' = (needs_shim \/ ClosureNeedsShim(root)) /\ UNCHANGED missing
  /\ UNCHANGED << phase, job, lists, owner_module, base, slots, pages, dump >>

EndResolve ==
  /\ phase = "resolve" /\ todo = << >>
  /\ phase' = IF missing = ToSet(requested) THEN "raised" ELSE IF job.ko.given THEN "ko" ELSE "thunks"
  /\ UNCHANGED << job, lists, owner_module, todo, missing, resolved, needs_shim, base, slots, pages, dump >>

-----------------------------------------------------------------------------
(* KoFile *)

ko == job.ko

\* _NON_CORE_SECTION_PREFIXES, .init and .exit: groups of names.
NonCore == {"modinfo", "return_sites", "retpoline_sites"}
is_core_section(s) == s.name # NoName /\ s.group \notin {"init", "exit"} \cup NonCore

Core(k)     == {i \in DOMAIN k.sections : k.sections[i].alloc /\ is_core_section(k.sections[i])}
TextSecs(k) == {i \in Core(k) : k.sections[i].exec}
RoSecs(k)   == {i \in Core(k) : ~k.sections[i].exec /\ ~k.sections[i].write}
DataSecs(k) == {i \in Core(k) : k.sections[i].write}

\* Sections one after the other from an address on: where each starts and the
\* page at which the part ends.
Part(k, secs, from) ==
  LET order == InOrder(secs)
      Start(n, a) == align(a, Larger(1, k.sections[order[n]].align))
      after[n \in 0 .. Len(order)] ==
        IF n = 0 THEN from ELSE Start(n, after[n - 1]) + k.sections[order[n]].size
  IN  [offsets |-> [i \in secs |-> LET n == CHOOSE n \in DOMAIN order : order[n] = i IN Start(n, after[n - 1])],
       end |-> PageUp(after[Len(order)])]

compute_core_layout(k) ==
  LET text == Part(k, TextSecs(k), 0)  ro == Part(k, RoSecs(k), text.end)  data == Part(k, DataSecs(k), ro.end)
      Of(i) == IF i \in DataSecs(k) THEN data ELSE IF i \in RoSecs(k) THEN ro ELSE text
  IN  [offsets |-> [i \in Core(k) |-> Of(i).offsets[i]],
       ro_start |-> text.end, ro_end |-> ro.end, data_start |-> ro.end, data_end |-> data.end]

layout == compute_core_layout(ko)

\* The relocations of writable sections, in the order of the file. Those of sections
\* like __jump_table, whose name has no dot in front, are not looked at.
Read(e) == e.info \in DataSecs(ko) /\ ko.sections[e.info].dotted
DataRelocs ==
  LET kept == InOrder({r \in DOMAIN ko.relas : Read(ko.relas[r])})
  IN  [n \in DOMAIN kept |->
         LET r == ko.relas[kept[n]] IN [r EXCEPT !.offset = layout.offsets[r.info] - layout.data_start + @]]

KoSymbol(n) == Min({i \in DOMAIN ko.symbols : ko.symbols[i].name = n})

\* Requests that the .ko defines in a core section and the graph knows.
Anchors ==
  {r \in DOMAIN requested : /\ \E i \in DOMAIN ko.symbols : ko.symbols[i].name = requested[r]
                            /\ ko.symbols[KoSymbol(requested[r])].shndx \in DOMAIN layout.offsets
                            /\ lookup(requested[r]) # 0}

\* infer_module_core_base_kernel: by the first request that both files know.
LoadKo ==
  /\ phase = "ko"
  /\ IF ~ko.whole \/ Anchors = {}
       THEN phase' = "raised" /\ UNCHANGED << base, todo >>
       ELSE LET n == requested[Min(Anchors)]  sym == ko.symbols[KoSymbol(n)] IN
            /\ base' = nodes[lookup(n)].address - (layout.offsets[sym.shndx] + sym.value)
            /\ todo' = DataRelocs
            /\ phase' = "extend"
  /\ UNCHANGED << job, lists, owner_module, missing, resolved, needs_shim, slots, pages, dump >>

-----------------------------------------------------------------------------
(* The targets of relocations in .data, the slots that ld.so fills *)

Target(e)  == ko.symbols[e.sym]
IsUndef(e) == Target(e).shndx = Undef

\* A target without a name is named after its section and value.
TargetName(e) ==
  IF Target(e).name # NoName THEN Target(e).name
  ELSE SlotName(IF IsUndef(e) THEN ".internal" ELSE ko.sections[Target(e).shndx].name, Target(e).value)

Imported(n) == ResolvedSymbol(n, Shim, TRUE, 0, 0, Len(resolved), FALSE)

\* A symbol of the module itself; one of a section outside the core counts from 0.
Internal(e) ==
  LET s == Target(e)
      off == IF s.shndx \in DOMAIN layout.offsets THEN layout.offsets[s.shndx] ELSE 0
  IN  ResolvedSymbol(TargetName(e), owner_module, ko.sections[s.shndx].exec, base + off + s.value, 0,
                     Len(resolved), FALSE)

\* Names of shim.txt become imports, undefined ones bring their closure from the
\* graph, defined ones come alone. Other types than R_X86_64_64 wait for RebuildSlots.
ExtendClosure ==
  /\ phase = "extend" /\ todo # << >>
  /\ LET e == Head(todo)  n == TargetName(e) IN
       \/ /\ ~e.abs64 \/ (n \in ResolvedNames /\ ~(IsUndef(e) /\ n \in shim_symbols))
          /\ UNCHANGED << phase, resolved, needs_shim >>
       \/ /\ e.abs64 /\ IsUndef(e) /\ n \in shim_symbols
          /\ resolved' = IF n \in ResolvedNames THEN resolved ELSE Append(resolved, Imported(n))
          /\ needs_shim' = TRUE /\ UNCHANGED phase
       \/ /\ e.abs64 /\ IsUndef(e) /\ n \notin shim_symbols \cup ResolvedNames
          /\ IF lookup(n) = 0 THEN phase' = "raised" /\ UNCHANGED << resolved, needs_shim >>
             ELSE /\ resolved' = WithClosure(lookup(n)) /\ needs_shim' = (needs_shim \/ ClosureNeedsShim(lookup(n)))
                  /\ UNCHANGED phase
       \/ /\ e.abs64 /\ ~IsUndef(e) /\ n \notin ResolvedNames
          /\ resolved' = Append(resolved, Internal(e)) /\ UNCHANGED << phase, needs_shim >>
  /\ todo' = Tail(todo)
  /\ UNCHANGED << job, lists, owner_module, missing, base, slots, pages, dump >>

\* What of the module is reused from the kernel and what is private.
reuse_kind(s) ==
  LET In(from, to) == base + from <= s.address /\ s.address < base + to
  IN  IF ~s.defined \/ s.module # owner_module THEN NoReg
      ELSE IF s.func THEN "text"
      ELSE IF In(layout.ro_start, layout.ro_end) THEN "rodata"
      ELSE IF In(layout.data_start, layout.data_end) THEN "data"
      ELSE NoReg

Classify ==
  /\ phase = "extend" /\ todo = << >>
  /\ resolved' = [i \in DOMAIN resolved |-> [resolved[i] EXCEPT !.reuse = reuse_kind(resolved[i])]]
  /\ phase' = "slots"
  /\ UNCHANGED << job, lists, owner_module, todo, missing, needs_shim, base, slots, pages, dump >>

NamedHere(n) == CHOOSE i \in DOMAIN resolved : resolved[i].name = n

\* Every relocation of .data becomes one of the DSO, or the run ends.
RebuildSlots ==
  /\ phase = "slots"
  /\ IF \E r \in DOMAIN DataRelocs : ~DataRelocs[r].abs64
       THEN phase' = "raised" /\ UNCHANGED slots
       ELSE /\ slots' = [r \in DOMAIN DataRelocs |->
                           [offset |-> DataRelocs[r].offset, symbol |-> NamedHere(TargetName(DataRelocs[r])),
                            addend |-> DataRelocs[r].addend]]
            /\ phase' = "thunks"
  /\ UNCHANGED << job, lists, owner_module, todo, missing, resolved, needs_shim, base, pages, dump >>

\* compute_text_min_page: by functions that have an address, else by anything that has.
BuildTextMin ==
  LET HasAddress(i) == resolved[i].defined /\ resolved[i].address # 0
      funcs == {i \in DOMAIN resolved : HasAddress(i) /\ resolved[i].func}
      some  == IF funcs # {} THEN funcs ELSE {i \in DOMAIN resolved : HasAddress(i)}
  IN  IF some = {} THEN TextBase ELSE align_down(Min({resolved[i].address : i \in some}))

rw_base_vaddr == TextBase + (base + layout.data_start - BuildTextMin)

-----------------------------------------------------------------------------
(* build_builtin_thunk_pages *)

IsReturn(s)   == s.name \in ReturnThunks
RegisterOf(s) == indirect_thunk_register(s.name)
Configured    == {indirect_thunk_register(n) : n \in thunks}
Selected      == {i \in DOMAIN resolved : resolved[i].defined /\ RegisterOf(resolved[i]) \in Configured}
ThunkPages    == {align_down(resolved[i].address) : i \in Selected}
OnThunkPage   == {i \in DOMAIN resolved : /\ resolved[i].defined /\ resolved[i].address # 0
                                          /\ align_down(resolved[i].address) \in ThunkPages}
CodeBytes(s)  == IF IsReturn(s) THEN 1 ELSE IF RegisterOf(s) \in ShortThunks THEN 2 ELSE 3

\* Another symbol on the page, a thunk that shim.txt does not name, or one that
\* does not fit before the end of the page.
ThunkError ==
  \E i \in OnThunkPage :
    LET s == resolved[i] IN
    \/ RegisterOf(s) = NoReg /\ ~IsReturn(s)
    \/ RegisterOf(s) # NoReg /\ RegisterOf(s) \notin Configured
    \/ (s.address % PageSize) + CodeBytes(s) > PageSize

BuildThunkPages ==
  /\ phase = "thunks"
  /\ IF ThunkError THEN phase' = "raised" /\ UNCHANGED << resolved, pages >>
     ELSE /\ pages' = ThunkPages
          /\ resolved' = [i \in DOMAIN resolved |-> IF i \in OnThunkPage THEN [resolved[i] EXCEPT !.module = Thunk]
                                                    ELSE resolved[i]]
          /\ phase' = "dump"
  /\ UNCHANGED << job, lists, owner_module, todo, missing, needs_shim, base, slots, dump >>

role_for_symbol(s) ==
  IF s.module = Thunk THEN "synthetic" ELSE IF ~s.defined THEN "import" ELSE IF s.exported THEN "export" ELSE "internal"

\* resolved_symbol_addresses.txt, for people: nothing reads it back.
DumpSymbols ==
  /\ phase = "dump"
  /\ dump' = [i \in DOMAIN resolved |-> [name |-> resolved[i].name, module |-> resolved[i].module,
                                         role |-> role_for_symbol(resolved[i])]]
  /\ phase' = "build"
  /\ UNCHANGED << job, lists, owner_module, todo, missing, resolved, needs_shim, base, slots, pages >>

-----------------------------------------------------------------------------
(* The builder *)

Handed ==
  [symbols |-> [i \in DOMAIN resolved |->
                  LET s == resolved[i] IN
                  [name |-> s.name, defined |-> s.defined, exported |-> s.exported, func |-> s.func,
                   rodata |-> s.reuse = "rodata" \/ s.name \in RodataNames, address |-> s.address, size |-> s.size,
                   export_order |-> s.export_order, original_order |-> s.original_order]],
   shim |-> needs_shim,
   data |-> IF job.ko.given THEN layout.data_end - layout.data_start ELSE 0,
   relocations |-> slots, based |-> job.ko.given, rw_base |-> IF job.ko.given THEN rw_base_vaddr ELSE 0,
   synthetic |-> pages]

StartBuilder == /\ phase = "build" /\ phase' = "built" /\ Construct(Handed)
                /\ UNCHANGED << job, lists, owner_module, todo, missing, resolved, needs_shim, base, slots, pages, dump >>

ResolveStep == LoadGraph \/ ReadLists \/ CheckOwner \/ ResolveName \/ EndResolve \/ LoadKo \/ ExtendClosure \/ Classify
         \/ RebuildSlots \/ BuildThunkPages \/ DumpSymbols

Over == phase = "raised" \/ pc \in {"done", "raised"}

BuildNext ==
  \/ ResolveStep /\ UNCHANGED lvars
  \/ StartBuilder
  \/ LayoutStep /\ UNCHANGED fvars
  \/ Over /\ UNCHANGED << fvars, lvars >>

BuildSpec == BuildInit /\ [][BuildNext]_<< fvars, lvars >>

-----------------------------------------------------------------------------
(* Properties *)

\* Names that are in the build only because a slot of .data points to them.
SlotNames == IF job.ko.given /\ phase \notin {"load", "lists", "owner", "resolve", "ko"}
             THEN {TargetName(DataRelocs[r]) : r \in {r \in DOMAIN DataRelocs : ~IsUndef(DataRelocs[r])}} ELSE {}

Mapped == {e.page : e \in page_map} \cup args.synthetic

\* A node is in the library: as an import if the shim provides its name, else defined,
\* and then a function or a datum that counts as read-only has all its pages, which come
\* from the kernel or are synthetic thunks.
Linked(m) ==
  \E j \in DOMAIN symbols :
    /\ symbols[j].name = nodes[m].name
    /\ symbols[j].defined <=> symbols[j].name \notin shim_symbols
    /\ j \in Code \cup Rodata => PagesOf(symbols[j]) \subseteq Mapped

\* What a call of the node can come to, names of the shim ending the way.
ReachedFrom(root) ==
  {m \in DOMAIN nodes :
     \A S \in SUBSET DOMAIN nodes :
       root \in S /\ (\A i \in S : nodes[i].name \notin shim_symbols => krg.edges[i] \subseteq S) => m \in S}

\* In a finished library every request is exported, and linked is all that it calls or
\* reads by the graph, directly or not; so is what any symbol refers to, unless it is
\* there only because a slot of .data names it, which brings that symbol alone. A datum
\* that is neither read-only data of the module nor called .rodata, like all data of
\* the kernel, is a symbol without a page: what reads it reads outside of the library.
ClosurePaged ==
  pc = "done" =>
    /\ \A n \in ToSet(requested) \ missing :
         /\ \E i \in DOMAIN symbols : symbols[i].name = n /\ symbols[i].defined /\ symbols[i].exported
         /\ \A m \in ReachedFrom(lookup(n)) : Linked(m)
    /\ \A i \in {i \in Defined : symbols[i].name \notin SlotNames} :
         \A m \in krg.edges[lookup(symbols[i].name)] : Linked(m)

\* Where the module loader has put what a relocation names.
KernelTarget(e) ==
  IF IsUndef(e) THEN nodes[lookup(TargetName(e))].address ELSE ko.kernel[Target(e).shndx] + Target(e).value

\* ld.so fills the slot of a relocation: the address it writes to is where the kernel's
\* slot lies relative to the code, the entry of .dynsym is the one of the slot's target
\* even after the sort for .gnu.hash, and that symbol is an import or stands where the
\* kernel has the target, unless the target is gone from the kernel with its section.
Gone(e) == ~IsUndef(e) /\ Target(e).shndx \notin DOMAIN ko.kernel
Filled(e) ==
  \E r \in DOMAIN rela :
    LET sym == symbols[dynamic_symbols[rela[r].index]] IN
    /\ rela[r].offset = virtual_address(ko.kernel[e.info] + e.offset)
    /\ rela[r].addend = e.addend
    /\ sym.name = TargetName(e)
    /\ IF sym.defined THEN Gone(e) \/ sym.address = KernelTarget(e) ELSE sym.name \in shim_symbols

\* Code of the module reads a slot at a fixed distance, and ld.so fills each one there.
\* This is so of the writable sections whose name starts with a dot; the slots of
\* __jump_table, __bug_table and __dyndbg keep what the file has in them, and if the
\* kernel keeps a section that KoFile leaves out (.exit.text, where modules can be
\* unloaded), everything behind it is looked for at the wrong place.
SlotsInPlace == (Laid /\ job.ko.given) => \A e \in ToSet(ko.relas) : Read(e) => Filled(e)

\* What does not hold: so is every slot of the module's data.
EverySlotFilled == (Laid /\ job.ko.given) => \A e \in ToSet(ko.relas) : e.info \in DataSecs(ko) => Filled(e)

\* A slot leads into a segment of the library.
SlotsLead ==
  Laid => \A r \in DOMAIN rela :
            LET sym == symbols[dynamic_symbols[rela[r].index]]
                a == virtual_address(sym.address) + rela[r].addend
            IN  sym.defined => \E l \in loads : l.addr <= a /\ a < l.addr + l.memsz

\* No function of the kernel has code on a page of synthetic thunks.
NoCodeOnSyntheticPage ==
  pc = "done" => \A i \in Code : PagesOf(symbols[i]) \cap args.synthetic # {} => resolved[i].module = Thunk
=============================================================================
