---------------------------- MODULE SafeSubgraph ----------------------------
(***************************************************************************)
(* The kernel relation graph of kernel_cgd/src/krg.cpp.  `krg build` merges *)
(* the symbols of vmlinux and of the modules by name, draws an edge for     *)
(* every relocation and for every call or jump it disassembles, prunes the  *)
(* result to the functions it holds to be safe in user mode and saves it;   *)
(* `krg query` loads the file and prints what a root reaches.               *)
(*                                                                         *)
(* The inputs are read one symbol, relocation and instruction at a time.    *)
(* Addresses are small numbers and instructions are one address long: what  *)
(* counts is which range an address falls into.  What decoding yields is    *)
(* the input of the model; what the program makes of it is the model.       *)
(***************************************************************************)
EXTENDS Integers, Sequences, FiniteSets

CONSTANTS
  Modules,         \* files after the first one, which is vmlinux
  Names,           \* symbol names
  HardBlacklist,   \* names with a prefix of hard_bl_prefix
  SoftIgnore,      \* names with a prefix of soft_ig
  Dotted,          \* names that start with a dot
  StopNames,       \* stop_set of a query: default_stop_names and --shim
  SymbolTables,    \* the symbol tables a build may be given, as sequences
  ExportTables,    \* the exported names in kallsyms, << name, file >>
  SectionEnd,      \* where the section of a file ends
  SectionSymbols,  \* what relocations use for a section, "<section>@<file>"
  Relocations,     \* relocations of code that the files may have
  Instructions,    \* calls and jumps that the files may have
  ImportSlots,     \* words of module data relocated to an import: [file, addr, import]
  NoBase,          \* sections of loaded modules that /sys does not show
  MaxReads         \* bound: relocations and instructions that one build reads

Kernel   == 0
Files    == {Kernel} \cup Modules
Sections == {"text", "rodata", "data"}
Undef    == "undef"   \* SHN_UNDEF
NoRoot   == "noroot"  \* no query was asked

\* type is what the symbol says of itself; neither function nor object is "other".
Symbol == [name : Names, file : Files, type : {"func", "object", "other"},
           sec : Sections \cup {Undef}, addr : Nat, size : Nat]

\* off leads from the symbol to what the bytes refer to: the addend, and in a
\* relative field the distance to the end of the instruction; imm is the part of
\* it that an immediate operand behind the field takes.  "jcc" is a conditional jump.
Relocation  == [at : Nat, sym : Symbol, off : Int, imm : Nat, pc32 : BOOLEAN]
Instruction == [at : Nat, op : {"call", "jmp", "jcc"}, via : {"imm", "mem"}, target : Nat]

ASSUME SymbolConstants ==
  /\ Modules \subseteq Nat \ {Kernel}
  /\ HardBlacklist \subseteq Names /\ SoftIgnore \subseteq Names /\ Dotted \subseteq Names
  /\ HardBlacklist \cap SoftIgnore = {} /\ NoRoot \notin Names
  /\ SymbolTables \subseteq Seq(Symbol) /\ SectionSymbols \subseteq Symbol
  /\ \A s, t \in SectionSymbols : s.name = t.name => s = t
  /\ \A tab \in SymbolTables : \A i \in DOMAIN tab : \A s \in SectionSymbols : tab[i].name # s.name
  /\ Relocations \subseteq Relocation

ASSUME InputConstants ==
  /\ SectionEnd \in [Files \X Sections -> Nat]
  /\ \A tab \in ExportTables : tab \subseteq Names \X Nat
  /\ Instructions \subseteq Instruction
  /\ ImportSlots \subseteq [file : Modules, addr : Nat, import : Names]
  /\ NoBase \subseteq Modules \X Sections
  /\ MaxReads \in Nat

VARIABLES
  symtab,    \* the symbols of all files, vmlinux first
  exports,   \* the exported names of the running kernel
  pc,        \* what the tool does next
  todo,      \* the next symbol to merge
  syms,      \* syms and name2id: the symbol that won its name
  writable,  \* data_is_writable, the names it is set for
  fun,       \* fun_ranges_ and alias_by_start_: the functions with a range
  object,    \* data_ranges_
  last,      \* of the symbols that start at one address, the one sorted last
  relocs,    \* the relocations read
  insns,     \* the instructions read
  adj,       \* code -> code
  dataRefs,  \* code -> data
  tainted,   \* calls_blacklisted, the names it is set for
  graph,     \* the file out.krg, and of a query: its root,
  root,      \* the nodes marked and the stack
  seen,
  stack

inputVars == << symtab, exports >>
symVars   == << todo, syms, writable >>
rangeVars == << fun, object, last >>
edgeVars  == << relocs, insns, adj, dataRefs, tainted >>
queryVars == << graph, root, seen, stack >>
vars == << inputVars, pc, symVars, rangeVars, edgeVars, queryVars >>

-----------------------------------------------------------------------------
Defined(s) == s.sec # Undef
IsCode(s)  == s.type = "func" \/ (s.type = "other" /\ s.sec = "text")
Exporters(n) == {e[2] : e \in {x \in exports : x[1] = n}}

\* kallsyms names this file, and no other, as the exporter of the symbol.
OwnerMatch(s) == Exporters(s.name) = {s.file}

\* Mutant: of two equal candidates the later one wins.
LaterWins(cur, cand) == Defined(cand) \/ ~Defined(cur)

\* Mutant: the definition of vmlinux is kept.
KernelKept(cur, cand) == ~Defined(cur) /\ Defined(cand)

should_replace_symbol(cur, cand) ==
  \/ ~Defined(cur) /\ Defined(cand)
  \/ /\ Defined(cur) = Defined(cand)
     /\ \/ ~OwnerMatch(cur) /\ OwnerMatch(cand)
        \/ /\ OwnerMatch(cur) = OwnerMatch(cand)
           /\ \/ ~IsCode(cur) /\ IsCode(cand)
              \/ /\ IsCode(cur) = IsCode(cand)
                 /\ Defined(cur) /\ cur.file = Kernel /\ cand.file # Kernel

add_symbol(s) ==
  IF s.name \notin DOMAIN syms THEN [n \in DOMAIN syms \cup {s.name} |-> IF n = s.name THEN s ELSE syms[n]]
  ELSE IF should_replace_symbol(syms[s.name], s) THEN [syms EXCEPT ![s.name] = s]
  ELSE syms

-----------------------------------------------------------------------------
\* The symbol of a table with the last start at or below the address.
Nearest(table, va) ==
  {n \in DOMAIN table \cap last :
     /\ table[n].addr <= va
     /\ \A o \in DOMAIN table \cap last : table[o].addr <= va => table[o].addr <= table[n].addr}

End(s) == SectionEnd[s.file, s.sec]

\* A function reaches to the next one or to the end of its section.
target_func_by_addr(va) ==
  {n \in Nearest(fun, va) : va < End(fun[n]) \/ va = fun[n].addr}

\* A data symbol has its size; without one it reaches to the next symbol.
target_data_by_addr(va) ==
  {n \in Nearest(object, va) :
     \/ va < IF object[n].size # 0 THEN object[n].addr + object[n].size ELSE End(object[n])
     \/ va = object[n].addr}

\* Mutant: only the function that the address search returned.
NoAliases(u) == {u}

\* The functions that start where u starts get its edges and its mark.
alias_group(u) == {n \in DOMAIN fun : fun[n].addr = fun[u].addr}

\* Mutant: the mark goes to the function that the address search returned.
MarkOwner(u) == {u}

mark_calls_blacklisted(u) == alias_group(u)

\* add_edge and add_data_ref.
add_edges(u, targets) == {e \in alias_group(u) \X (targets \ {u}) : e[1] # e[2]}

-----------------------------------------------------------------------------
TypeOK ==
  /\ pc \in {"symbols", "relocs", "insns", "saved", "failed"}
  /\ todo \in 1 .. Len(symtab) + 1
  /\ DOMAIN syms \subseteq Names /\ \A n \in DOMAIN syms : syms[n] \in Symbol /\ syms[n].name = n
  /\ writable \subseteq DOMAIN syms /\ tainted \subseteq DOMAIN fun
  /\ DOMAIN fun \subseteq DOMAIN syms /\ DOMAIN object \subseteq DOMAIN syms
  /\ last \subseteq DOMAIN fun \cup DOMAIN object
  /\ relocs \subseteq Relocations /\ insns \subseteq Instructions
  /\ adj \cup dataRefs \subseteq (DOMAIN fun) \X (DOMAIN syms)
  /\ graph.node \subseteq DOMAIN syms /\ graph.edge \subseteq graph.node \X graph.node
  /\ root \in Names \cup {NoRoot}
  /\ stack \subseteq seen /\ seen \subseteq graph.node

Init ==
  /\ symtab \in SymbolTables /\ exports \in ExportTables
  /\ pc = "symbols" /\ todo = 1
  /\ syms = << >> /\ writable = {}
  /\ fun = << >> /\ object = << >> /\ last = {}
  /\ relocs = {} /\ insns = {}
  /\ adj = {} /\ dataRefs = {} /\ tainted = {}
  /\ graph = [node |-> {}, edge |-> {}]
  /\ root = NoRoot /\ seen = {} /\ stack = {}

\* collect_symbols, the loop over the symbol tables.
collect_symbol ==
  /\ pc = "symbols" /\ todo <= Len(symtab)
  /\ syms' = add_symbol(symtab[todo])
  /\ todo' = todo + 1
  /\ UNCHANGED << inputVars, pc, writable, rangeVars, edgeVars, queryVars >>

\* std::sort leaves open which of the symbols with one start comes last.
LastOfEach(table, names) ==
  \A n \in DOMAIN table : \E m \in names \cap DOMAIN table :
    /\ table[m].addr = table[n].addr
    /\ \A o \in names \cap DOMAIN table : table[o].addr = table[n].addr => o = m

\* collect_symbols, the rest: writable data, ranges of functions and of data.
build_ranges ==
  /\ pc = "symbols" /\ todo > Len(symtab)
  /\ writable' = {n \in DOMAIN syms : syms[n].sec = "data" /\ ~IsCode(syms[n])}
  /\ fun' = [n \in {x \in DOMAIN syms : Defined(syms[x]) /\ IsCode(syms[x]) /\ x \notin Dotted} |-> syms[n]]
  /\ object' = [n \in {x \in DOMAIN syms : syms[x].sec \in {"rodata", "data"} /\ ~IsCode(syms[x])
                                             /\ x \notin Dotted} |-> syms[n]]
  /\ last' \in {l \in SUBSET (DOMAIN fun' \cup DOMAIN object') :
                  LastOfEach(fun', l) /\ LastOfEach(object', l)}
  /\ pc' = "relocs"
  /\ UNCHANGED << inputVars, todo, syms, edgeVars, queryVars >>

-----------------------------------------------------------------------------
MayRead == Cardinality(relocs) + Cardinality(insns) < MaxReads

\* pc32_adj: only in a module does the tool look for the end of the instruction;
\* in vmlinux the field is taken to be the last of it.
Reach(r) == IF r.sym.file = Kernel THEN r.off - r.imm ELSE r.off

\* The import in the word of module data that a relocation addresses (pseudo GOT).
Imports(r, s) ==
  {i.import : i \in {x \in ImportSlots :
     r.pc32 /\ s.sec = "data" /\ x.file = s.file /\ x.addr = s.addr + Reach(r)}} \cap DOMAIN syms

\* The symbol that relocation r against s = syms'[r.sym.name] is taken to mean.
Target(r, s) ==
  LET there == IF ~r.pc32 THEN {}
               ELSE IF IsCode(s) THEN target_func_by_addr(s.addr + Reach(r))
               ELSE IF Defined(s) THEN target_data_by_addr(s.addr + Reach(r)) ELSE {}
  IN IF there = {} THEN {s.name} ELSE there

\* One relocation of code: the owner by range, the target by name, or by
\* address if the relocation is relative.
add_edge_from_reloc(r) ==
  /\ pc = "relocs" /\ r \in Relocations \ relocs /\ MayRead
  /\ r.sym \in SectionSymbols \cup {symtab[i] : i \in DOMAIN symtab}
  /\ relocs' = relocs \cup {r}
  /\ \/ /\ target_func_by_addr(r.at) = {}
        /\ UNCHANGED << syms, writable, adj, dataRefs, tainted >>
     \/ \E u \in target_func_by_addr(r.at) :
          /\ syms' = add_symbol(r.sym)
          /\ writable' = writable \cup
               IF r.sym.name \notin DOMAIN syms /\ r.sym.sec = "data" /\ ~IsCode(r.sym) THEN {r.sym.name} ELSE {}
          /\ LET s    == syms'[r.sym.name]
                 deps == Imports(r, s) \cup Target(r, s)
                 code == {v \in deps : IsCode(syms'[v])}
             IN /\ adj' = adj \cup add_edges(u, code \ (SoftIgnore \cup HardBlacklist))
                /\ dataRefs' = dataRefs \cup add_edges(u, deps \ code)
                /\ tainted' = tainted \cup IF code \cap HardBlacklist # {} THEN mark_calls_blacklisted(u) ELSE {}
  /\ UNCHANGED << inputVars, pc, todo, rangeVars, insns, queryVars >>

relocs_done ==
  /\ pc = "relocs"
  /\ pc' = "insns"
  /\ UNCHANGED << inputVars, symVars, rangeVars, edgeVars, queryVars >>

\* The field of the instruction is in exec_reloc_field_addrs_: the relocation counts.
Relocated(i) == \E r \in relocs : r.at = i.at /\ r.sym.file # Kernel

\* One call or jump, its target an immediate or read from memory.  A conditional
\* jump is neither: nothing is drawn for it.
add_edge_from_insn(i) ==
  /\ pc = "insns" /\ i \in Instructions \ insns /\ MayRead
  /\ insns' = insns \cup {i}
  /\ \/ /\ \/ i.op = "jcc" \/ Relocated(i)
           \/ target_func_by_addr(i.at) = {} \/ target_func_by_addr(i.target) = {}
        /\ UNCHANGED << adj, tainted >>
     \/ /\ i.op # "jcc" /\ ~Relocated(i)
        /\ \E u \in target_func_by_addr(i.at), v \in target_func_by_addr(i.target) :
             IF v \in HardBlacklist /\ i.op = "call"
             THEN /\ tainted' = tainted \cup mark_calls_blacklisted(u)
                  /\ UNCHANGED adj
             ELSE /\ adj' = adj \cup
                       IF v \in SoftIgnore \/ (v \in HardBlacklist /\ i.via = "imm") THEN {} ELSE add_edges(u, {v})
                  /\ UNCHANGED tainted
  /\ UNCHANGED << inputVars, pc, symVars, rangeVars, relocs, dataRefs, queryVars >>

-----------------------------------------------------------------------------
\* Mutant: vmlinux may write its own data, too.
OwnFileOk(u) ==
  \A v \in writable : << u, v >> \in dataRefs /\ ~IsCode(syms[v]) => syms[u].file = syms[v].file

\* A module may write its own data: its words are mapped with it.
data_refs_ok(u) ==
  \A v \in writable : << u, v >> \in dataRefs /\ ~IsCode(syms[v])
                        => syms[u].file # Kernel /\ syms[u].file = syms[v].file

\* prune_to_safe_subgraph: what a callee does is not looked at.
Safe == {u \in DOMAIN syms : IsCode(syms[u]) /\ Defined(syms[u]) /\ u \notin tainted /\ data_refs_ok(u)}

\* Mutant: only safe functions are kept.
NoLeaves == {}

\* Functions that are kept as leaves because safe code calls them.
Leaves == {v \in DOMAIN syms : IsCode(syms[v]) /\ Defined(syms[v]) /\ \E u \in Safe : << u, v >> \in adj}

\* need: safe code, what it calls, the data it refers to.
Needed ==
  Safe \cup Leaves \cup
  {v \in DOMAIN syms \ Dotted : /\ ~IsCode(syms[v]) /\ Defined(syms[v])
                                /\ \E u \in Safe : << u, v >> \in dataRefs}

NoRuntimeBase(n) == syms[n].file # Kernel /\ << syms[n].file, syms[n].sec >> \in NoBase

\* save: the nodes that are needed and the edges between them, unless a node
\* lies in a section of a loaded module that has no run-time address.
save ==
  /\ pc = "insns"
  /\ IF \E n \in Needed : NoRuntimeBase(n)
     THEN pc' = "failed" /\ UNCHANGED graph
     ELSE /\ pc' = "saved"
          /\ graph' = [node |-> Needed,
                       edge |-> {e \in adj \cup dataRefs : e[1] \in Safe /\ e[2] \in Needed}]
  /\ UNCHANGED << inputVars, symVars, rangeVars, edgeVars, root, seen, stack >>

-----------------------------------------------------------------------------
Successors(u) == {v \in graph.node : << u, v >> \in graph.edge}

\* krg query: a name that the graph does not have is reported and prints nothing.
query(n) ==
  /\ pc = "saved" /\ stack = {}
  /\ root' = n
  /\ seen' = {n} \cap graph.node
  /\ stack' = seen'
  /\ UNCHANGED << inputVars, pc, symVars, rangeVars, edgeVars, graph >>

\* Mutant: the stop names are expanded.
VisitAll(u) ==
  /\ u \in stack
  /\ LET found == Successors(u) \ seen
     IN /\ seen' = seen \cup found
        /\ stack' = (stack \ {u}) \cup found
  /\ UNCHANGED << inputVars, pc, symVars, rangeVars, edgeVars, graph, root >>

\* closure_and_print, one turn of its loop: a stop name is marked, not expanded.
visit(u) ==
  /\ u \in stack
  /\ LET found == IF u \in StopNames THEN {} ELSE Successors(u) \ seen
     IN /\ seen' = seen \cup found
        /\ stack' = (stack \ {u}) \cup found
  /\ UNCHANGED << inputVars, pc, symVars, rangeVars, edgeVars, graph, root >>

Next ==
  \/ collect_symbol
  \/ build_ranges
  \/ \E r \in Relocations : add_edge_from_reloc(r)
  \/ relocs_done
  \/ \E i \in Instructions : add_edge_from_insn(i)
  \/ save
  \/ \E n \in Names : query(n)
  \/ \E u \in stack : visit(u)

Spec == Init /\ [][Next]_vars

-----------------------------------------------------------------------------
(* What the inputs say, read from the files' own symbol tables and not from *)
(* what the tool made of them.                                             *)
Entries  == {symtab[i] : i \in DOMAIN symtab}
Defs(n)  == {s \in Entries : s.name = n /\ Defined(s)}

\* The functions that start nearest at or below an address: the code there is theirs.
CodeAt(va) ==
  LET below == {s \in Entries : /\ Defined(s) /\ IsCode(s) /\ s.name \notin Dotted /\ s.addr <= va
                                /\ va < End(s)}
  IN {s \in below : \A o \in below : o.addr <= s.addr}

DataAt(va) ==
  {s \in Entries : s.sec \in {"rodata", "data"} /\ s.name \notin Dotted /\ s.addr <= va /\ va < s.addr + s.size}

InBody(n, va) == syms[n] \in CodeAt(va)

\* The definition a relocation means, unless several files define its name.
Meant(r) == IF Defs(r.sym.name) = {} THEN {r.sym} ELSE Defs(r.sym.name)
Clear(r) == Cardinality(Meant(r)) = 1 /\ \A d \in Meant(r) : Defined(d)

NamesOf(ss)  == {s.name : s \in ss}
Hard(ss)     == ss # {} /\ NamesOf(ss) \subseteq HardBlacklist

\* What the bytes of a relocation refer to: the symbol it names, or what lies at
\* the address that it makes of a section or of a symbol.
ByAddress(r) == r.pc32 \/ r.off # 0 \/ r.sym \in SectionSymbols
CodeOf(r) == UNION { IF ~IsCode(d) THEN {} ELSE IF ByAddress(r) THEN CodeAt(d.addr + r.off) ELSE {d} : d \in Meant(r)}
DataOf(r) == UNION { IF IsCode(d) THEN {} ELSE IF ByAddress(r) THEN DataAt(d.addr + r.off) ELSE {d} : d \in Meant(r)}
ImportsOf(r) ==
  UNION {Defs(i.import) : i \in {x \in ImportSlots :
           r.pc32 /\ \E d \in Meant(r) : d.sec = "data" /\ x.file = d.file /\ x.addr = d.addr + r.off}}

\* The references of which krg works out the address: those of type PC32 whose end
\* it knows, and those that need no address.  It takes any other, a pointer into a
\* section or a field before an immediate of vmlinux, for one to the symbol itself
\* or to an address that is off by the immediate.
Followed(r) == IF r.pc32 THEN r.imm = 0 \/ r.sym.file # Kernel ELSE ~ByAddress(r)

Answered == pc = "saved" /\ stack = {}
Printed(s) == \E n \in seen : syms[n].addr = s.addr

-----------------------------------------------------------------------------
\* Of several definitions of one name (readme.md section P7) the graph has the
\* one of the file that exports it, else one of a module, whatever the order in
\* which the symbol tables and, later, the relocations present them.
OwnerPreferred ==
  pc # "symbols" =>
    \A s \in Entries : LET won == syms[s.name] IN
      /\ Defined(s) => Defined(won)
      /\ Defined(s) /\ OwnerMatch(s) => OwnerMatch(won)
      /\ /\ Defined(s) /\ s.file # Kernel /\ IsCode(s) = IsCode(won)
         /\ Exporters(s.name) = {}
         => won.file # Kernel

\* Ranges, alias groups and the writable flags are computed once.  Relocations
\* add their symbols again: that must replace no symbol the tables were made of.
SymbolsSettled ==
  [][pc # "symbols" => \A n \in DOMAIN syms : syms'[n] = syms[n]]_vars

\* A function whose dependencies the graph lists calls no function that is on
\* the hard blacklist under all its names and refers to no writable data but
\* that of its own module, under whichever alias the reference was found, as far
\* as krg follows the reference.
SafeExpanded ==
  \A f \in {e[1] : e \in graph.edge} :
    /\ \A r \in relocs : InBody(f, r.at) /\ Clear(r) /\ Followed(r) =>
         /\ ~Hard(CodeOf(r))
         /\ \A d \in DataOf(r) : d.sec = "data" => d.file # Kernel /\ d.file = syms[f].file
    /\ \A i \in insns : InBody(f, i.at) /\ i.op = "call" /\ ~Relocated(i) => ~Hard(CodeAt(i.target))

\* The answer for a safe root has every function and data symbol, under one of
\* its names, that a call, an unconditional jump or a relocation which krg follows
\* in the root's body refers to, a relative one also through the import slot of
\* module data that it leads to.  No list filters the function, and no other file
\* defines its name: the graph has one node for each name.  Not among these are
\* conditional jumps, which lead to the cold part of a function, and relocations
\* that are not Followed: krg misses both.
Unfiltered(s) == NamesOf(CodeAt(s.addr)) \cap (HardBlacklist \cup SoftIgnore) = {}
Owed(ss)      == {s \in ss : Cardinality(Defs(s.name)) = 1 /\ (IsCode(s) => Unfiltered(s))}
ClosureComplete ==
  Answered /\ root \in Safe \ StopNames /\ root \in seen =>
    /\ \A r \in relocs : InBody(root, r.at) /\ Clear(r) /\ Followed(r) =>
         \A s \in Owed(CodeOf(r) \cup DataOf(r) \cup ImportsOf(r)) : Printed(s)
    /\ \A i \in insns : InBody(root, i.at) /\ i.op # "jcc" /\ ~Relocated(i) =>
         \A s \in Owed(CodeAt(i.target)) : Printed(s)

\* The answer is the smallest set with the root that is closed under the edges
\* of what is no stop name: nothing below a shim name is printed unless another
\* path reaches it.
ClosedUnder(c) == \A u \in c \ StopNames : Successors(u) \subseteq c
ClosureLeast ==
  Answered /\ root \in seen =>
    ClosedUnder(seen) /\ \A c \in SUBSET seen : root \in c /\ ClosedUnder(c) => c = seen

\* readme.md:121 and 174: all functions of the closure of a safe function are safe.
ClosureSafe ==
  Answered /\ root \in Safe => \A n \in seen : IsCode(syms[n]) => n \in Safe
=============================================================================
