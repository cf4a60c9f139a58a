------------------------ MODULE SafeSubgraph_proofs ------------------------
(***************************************************************************)
(* Proofs about SafeSubgraph, for any files, any number of symbols,        *)
(* relocations and instructions, and any query.                            *)
(***************************************************************************)
EXTENDS SafeSubgraph, FiniteSetTheorems, TLAPS

\* The atoms of should_replace_symbol are truth values.
LEMMA Atoms ==
  ASSUME NEW s
  PROVE  Defined(s) \in BOOLEAN /\ OwnerMatch(s) \in BOOLEAN /\ IsCode(s) \in BOOLEAN
  BY DEF Defined, OwnerMatch, IsCode

\* No symbol replaces itself.
LEMMA Irreflexive ==
  ASSUME NEW s
  PROVE  ~should_replace_symbol(s, s)
  BY DEF should_replace_symbol

\* What did not replace a symbol does not replace the one that did.
LEMMA Transitive ==
  ASSUME NEW a, NEW b, NEW c, ~should_replace_symbol(a, b), should_replace_symbol(a, c)
  PROVE  ~should_replace_symbol(c, b)
  BY Atoms, Zenon DEF should_replace_symbol

-----------------------------------------------------------------------------
\* The symbols merged so far: no symbol that was read would still replace the
\* one that has its name, and a section's symbol is the section's.
Merged(s) == s.name \in DOMAIN syms /\ ~should_replace_symbol(syms[s.name], s)

Settled ==
  /\ symtab \in SymbolTables /\ todo \in 1 .. Len(symtab) + 1
  /\ \A n \in DOMAIN syms : syms[n].name = n
  /\ \A i \in DOMAIN symtab : i < todo => Merged(symtab[i])
  /\ \A s \in SectionSymbols : s.name \in DOMAIN syms => syms[s.name] = s
  /\ pc # "symbols" => todo = Len(symtab) + 1

\* What add_symbol does to the symbol of a name, by the three cases of the code.
LEMMA AddSymbol ==
  ASSUME NEW s, syms' = add_symbol(s), \A n \in DOMAIN syms : syms[n].name = n
  PROVE  /\ DOMAIN syms' = DOMAIN syms \cup {s.name}
         /\ \A n \in DOMAIN syms : n # s.name => syms'[n] = syms[n]
         /\ s.name \notin DOMAIN syms => syms'[s.name] = s
         /\ s.name \in DOMAIN syms =>
              syms'[s.name] = IF should_replace_symbol(syms[s.name], s) THEN s ELSE syms[s.name]
         /\ \A n \in DOMAIN syms' : syms'[n].name = n
<1>1. CASE s.name \notin DOMAIN syms
  BY <1>1 DEF add_symbol
<1>2. CASE s.name \in DOMAIN syms /\ should_replace_symbol(syms[s.name], s)
  BY <1>2 DEF add_symbol
<1>3. CASE s.name \in DOMAIN syms /\ ~should_replace_symbol(syms[s.name], s)
  BY <1>3 DEF add_symbol
<1> QED
  BY <1>1, <1>2, <1>3

\* Adding a symbol keeps what is settled about all others and settles it.
LEMMA AddMerges ==
  ASSUME NEW s, syms' = add_symbol(s), \A n \in DOMAIN syms : syms[n].name = n, exports' = exports
  PROVE  Merged(s)' /\ \A t : Merged(t) => Merged(t)'
<1> USE DEF Merged
<1>0. ASSUME NEW a, NEW b, ~should_replace_symbol(a, b) PROVE (~should_replace_symbol(a, b))'
  BY <1>0 DEF should_replace_symbol, Defined, OwnerMatch, Exporters, IsCode
<1>1. Merged(s)'
  <2>1. CASE syms'[s.name] = s
    <3>1. s.name \in DOMAIN syms'
      BY AddSymbol
    <3>2. (~should_replace_symbol(s, s))'
      BY Irreflexive, <1>0
    <3> QED
      BY <2>1, <3>1, <3>2
  <2>2. CASE s.name \in DOMAIN syms /\ ~should_replace_symbol(syms[s.name], s)
    <3> PICK a : a = syms[s.name]
      OBVIOUS
    <3>1. s.name \in DOMAIN syms' /\ syms'[s.name] = a
      BY <2>2, AddSymbol
    <3>2. (~should_replace_symbol(a, s))'
      BY <2>2, <1>0
    <3> QED
      BY <3>1, <3>2
  <2> QED
    BY <2>1, <2>2, AddSymbol
<1>2. ASSUME NEW t, Merged(t) PROVE Merged(t)'
  <2>1. PICK a : a = syms[t.name]
    OBVIOUS
  <2>2. PICK b : b = syms'[t.name]
    OBVIOUS
  <2>3. t.name \in DOMAIN syms'
    BY <1>2, AddSymbol
  <2>4. ~should_replace_symbol(b, t)
    <3>1. CASE b = a
      BY <3>1, <2>1, <1>2
    <3>2. CASE b # a
      <4>1. b = s /\ t.name = s.name /\ should_replace_symbol(a, s)
        BY <3>2, <2>1, <2>2, <1>2, AddSymbol
      <4> QED
        BY <4>1, <2>1, <1>2, Transitive
    <3> QED
      BY <3>1, <3>2
  <2>5. (~should_replace_symbol(b, t))'
    BY <2>4, <1>0
  <2> QED
    BY <2>2, <2>3, <2>5
<1> QED
  BY <1>1, <1>2

LEMMA InitSettled == Init => Settled
<1> SUFFICES ASSUME Init PROVE Settled
  OBVIOUS
<1>1. symtab \in Seq(Symbol)
  BY SymbolConstants DEF Init
<1>2. Len(symtab) \in Nat /\ DOMAIN symtab = 1 .. Len(symtab)
  BY <1>1
<1>3. DOMAIN syms = {}
  BY DEF Init
<1> QED
  BY <1>2, <1>3 DEF Init, Settled

\* The symbol of a relocation: the tables are as they were.
LEMMA RelocSettled ==
  ASSUME Settled, NEW s, s \in SectionSymbols \cup {symtab[i] : i \in DOMAIN symtab},
         pc # "symbols", syms' = add_symbol(s), UNCHANGED << inputVars, pc, todo >>
  PROVE  Settled' /\ \A n \in DOMAIN syms : syms'[n] = syms[n]
<1>0. symtab \in Seq(Symbol)
  BY SymbolConstants DEF Settled
<1>1. \A n \in DOMAIN syms : syms[n].name = n
  BY DEF Settled
<1>2. \A n \in DOMAIN syms : syms'[n] = syms[n]
  <2>1. CASE s \in SectionSymbols
    <3>1. s.name \in DOMAIN syms => syms[s.name] = s
      BY <2>1 DEF Settled
    <3> QED
      BY <3>1, <1>1, AddSymbol
  <2>2. CASE s \notin SectionSymbols
    <3>1. PICK i \in DOMAIN symtab : s = symtab[i]
      BY <2>2
    <3>2. i < todo
      BY <1>0 DEF Settled
    <3>3. Merged(s)
      BY <3>1, <3>2 DEF Settled
    <3> QED
      BY <3>3, <1>1, AddSymbol DEF Merged
  <2> QED
    BY <2>1, <2>2
<1>3. \A t \in SectionSymbols : t.name \in DOMAIN syms' => syms'[t.name] = t
  <2> TAKE t \in SectionSymbols
  <2>1. CASE t.name \in DOMAIN syms
    BY <2>1, <1>2 DEF Settled
  <2>2. CASE t.name \notin DOMAIN syms /\ t.name = s.name
    <3>1. s \in SectionSymbols
      <4>1. SUFFICES ASSUME NEW i \in DOMAIN symtab, s = symtab[i] PROVE FALSE
        OBVIOUS
      <4>2. symtab[i].name # t.name
        BY SymbolConstants DEF Settled
      <4> QED
        BY <4>1, <4>2, <2>2
    <3>2. s = t
      BY <3>1, <2>2, SymbolConstants
    <3> QED
      BY <3>2, <2>2, <1>1, AddSymbol
  <2>3. CASE t.name \notin DOMAIN syms /\ t.name # s.name
    <3>1. DOMAIN syms' = DOMAIN syms \cup {s.name}
      BY <1>1, AddSymbol
    <3> QED
      BY <2>3, <3>1
  <2> QED
    BY <2>1, <2>2, <2>3
<1>4. \A n \in DOMAIN syms' : syms'[n].name = n
  BY <1>1, AddSymbol
<1>5. \A i \in DOMAIN symtab : i < todo => Merged(symtab[i])'
  <2> TAKE i \in DOMAIN symtab
  <2> HAVE i < todo
  <2>1. PICK t : t = symtab[i]
    OBVIOUS
  <2>2. Merged(t)
    BY <2>1 DEF Settled
  <2>3. Merged(t)'
    BY <2>2, <1>1, AddMerges DEF inputVars
  <2> QED
    BY <2>1, <2>3 DEF inputVars
<1>6. symtab' = symtab /\ todo' = todo /\ pc' = pc
  BY DEF inputVars
<1>7. Settled'
  BY <1>3, <1>4, <1>5, <1>6 DEF Settled
<1> QED
  BY <1>2, <1>7

\* A step of the loop over the symbol tables.
LEMMA CollectSettled == Settled /\ collect_symbol => Settled'
<1> SUFFICES ASSUME Settled, collect_symbol PROVE Settled'
  OBVIOUS
<1>0. symtab \in Seq(Symbol) /\ todo \in DOMAIN symtab /\ Len(symtab) \in Nat
  BY SymbolConstants DEF Settled, collect_symbol
<1>1. PICK s : s = symtab[todo]
  OBVIOUS
<1>2. syms' = add_symbol(s) /\ todo' = todo + 1 /\ symtab' = symtab /\ exports' = exports /\ pc' = pc
  BY <1>1 DEF collect_symbol, inputVars
<1>3. \A n \in DOMAIN syms : syms[n].name = n
  BY DEF Settled
<1>4. \A i \in DOMAIN symtab : i < todo + 1 => Merged(symtab[i])'
  <2> TAKE i \in DOMAIN symtab
  <2> HAVE i < todo + 1
  <2>1. PICK t : t = symtab[i]
    OBVIOUS
  <2>2. Merged(t)'
    <3>1. CASE i = todo
      BY <3>1, <2>1, <1>1, <1>2, <1>3, AddMerges
    <3>2. CASE i # todo
      <4>1. i < todo
        BY <3>2, <1>0
      <4>2. Merged(t)
        BY <4>1, <2>1 DEF Settled
      <4> QED
        BY <4>2, <1>2, <1>3, AddMerges
    <3> QED
      BY <3>1, <3>2
  <2> QED
    BY <2>1, <2>2, <1>2
<1>5. \A t \in SectionSymbols : t.name \in DOMAIN syms' => syms'[t.name] = t
  <2> TAKE t \in SectionSymbols
  <2>1. t.name # s.name
    BY <1>0, <1>1, SymbolConstants DEF Settled
  <2>2. DOMAIN syms' = DOMAIN syms \cup {s.name} /\ \A n \in DOMAIN syms : n # s.name => syms'[n] = syms[n]
    BY <1>2, <1>3, AddSymbol
  <2>3. t.name \in DOMAIN syms => syms[t.name] = t
    BY DEF Settled
  <2> QED
    BY <2>1, <2>2, <2>3
<1>6. \A n \in DOMAIN syms' : syms'[n].name = n
  BY <1>2, <1>3, AddSymbol
<1>7. todo + 1 \in 1 .. Len(symtab) + 1 /\ pc = "symbols"
  BY <1>0 DEF collect_symbol
<1> QED
  BY <1>2, <1>4, <1>5, <1>6, <1>7 DEF Settled

\* A step of Next that is neither a symbol of a table nor of a relocation.
Reading == \/ build_ranges \/ relocs_done \/ save
           \/ \E i \in Instructions : add_edge_from_insn(i)
           \/ \E n \in Names : query(n)
           \/ \E u \in stack : visit(u)

LEMMA ReadingKeeps ==
  ASSUME Reading
  PROVE  /\ UNCHANGED << inputVars, todo, syms >>
         /\ pc # "symbols" => pc' # "symbols"
         /\ pc = "symbols" /\ pc' # "symbols" => todo > Len(symtab)
<1> USE DEF inputVars, symVars
<1>1. CASE build_ranges
  BY <1>1 DEF build_ranges
<1>2. CASE relocs_done
  BY <1>2 DEF relocs_done
<1>3. CASE save
  BY <1>3 DEF save
<1>4. CASE \E i \in Instructions : add_edge_from_insn(i)
  BY <1>4 DEF add_edge_from_insn
<1>5. CASE \E n \in Names : query(n)
  BY <1>5 DEF query
<1>6. CASE \E u \in stack : visit(u)
  BY <1>6 DEF visit
<1> QED
  BY <1>1, <1>2, <1>3, <1>4, <1>5, <1>6 DEF Reading

\* What is settled stays when symbols and inputs do.
LEMMA SameSettled ==
  ASSUME Settled, UNCHANGED << inputVars, todo, syms >>, pc' # "symbols" => todo = Len(symtab) + 1
  PROVE  Settled'
<1>1. \A i \in DOMAIN symtab : i < todo => Merged(symtab[i])'
  <2> TAKE i \in DOMAIN symtab
  <2> HAVE i < todo
  <2>1. PICK t : t = symtab[i]
    OBVIOUS
  <2>2. Merged(t)
    BY <2>1 DEF Settled
  <2>3. Merged(t)'
    BY <2>2 DEF Merged, should_replace_symbol, Defined, OwnerMatch, Exporters, IsCode, inputVars
  <2> QED
    BY <2>1, <2>3 DEF inputVars
<1> QED
  BY <1>1 DEF Settled, inputVars

LEMMA StepSettled ==
  ASSUME Settled, [Next]_vars
  PROVE  Settled' /\ (pc # "symbols" => \A n \in DOMAIN syms : syms'[n] = syms[n])
<1>0. symtab \in Seq(Symbol) /\ Len(symtab) \in Nat
  BY SymbolConstants DEF Settled
<1>1. CASE collect_symbol
  BY <1>1, CollectSettled DEF collect_symbol
<1>2. CASE Reading
  <2>1. UNCHANGED << inputVars, todo, syms >>
    BY <1>2, ReadingKeeps
  <2>2. pc' # "symbols" => todo = Len(symtab) + 1
    BY <1>2, <1>0, ReadingKeeps DEF Settled
  <2> QED
    BY <2>1, <2>2, SameSettled
<1>3. ASSUME NEW r \in Relocations, add_edge_from_reloc(r) PROVE Settled' /\ \A n \in DOMAIN syms : syms'[n] = syms[n]
  <2>1. UNCHANGED << inputVars, pc, todo >> /\ pc = "relocs"
    BY <1>3 DEF add_edge_from_reloc
  <2>2. CASE UNCHANGED syms
    <3>1. pc' # "symbols" => todo = Len(symtab) + 1
      BY <2>1 DEF Settled
    <3>2. Settled'
      BY <2>1, <2>2, <3>1, SameSettled
    <3> QED
      BY <2>2, <3>2
  <2>3. CASE syms' = add_symbol(r.sym)
    <3>1. PICK s : s = r.sym
      OBVIOUS
    <3>2. s \in SectionSymbols \cup {symtab[i] : i \in DOMAIN symtab}
      BY <3>1, <1>3 DEF add_edge_from_reloc
    <3>3. syms' = add_symbol(s)
      BY <3>1, <2>3
    <3> QED
      BY <2>1, <3>2, <3>3, RelocSettled
  <2> QED
    BY <1>3, <2>2, <2>3 DEF add_edge_from_reloc
<1>4. CASE UNCHANGED vars
  <2>1. UNCHANGED << inputVars, pc, todo, syms >>
    BY <1>4 DEF vars, symVars
  <2> QED
    BY <2>1, SameSettled DEF Settled
<1> QED
  BY <1>1, <1>2, <1>3, <1>4 DEF Next, Reading

LEMMA AlwaysSettled == Spec => []Settled
<1>1. Settled /\ [Next]_vars => Settled'
  BY StepSettled
<1> QED
  BY InitSettled, <1>1, PTL DEF Spec

\* The relocations replace no symbol, for any files, in whatever order their
\* symbols and relocations are read.
THEOREM NothingReplaced == Spec => SymbolsSettled
<1>1. Settled /\ [Next]_vars => [pc # "symbols" => \A n \in DOMAIN syms : syms'[n] = syms[n]]_vars
  BY StepSettled
<1> QED
  BY AlwaysSettled, <1>1, PTL DEF Spec, SymbolsSettled

\* The graph has the definition that the export table or the preference for
\* modules calls for, for any number of files.
THEOREM OwnerChosen == Spec => []OwnerPreferred
<1>1. Settled => OwnerPreferred
  <2> SUFFICES ASSUME Settled, pc # "symbols", NEW s \in Entries
              PROVE  LET won == syms[s.name] IN
                       /\ Defined(s) => Defined(won)
                       /\ Defined(s) /\ OwnerMatch(s) => OwnerMatch(won)
                       /\ /\ Defined(s) /\ s.file # Kernel /\ IsCode(s) = IsCode(won)
                          /\ Exporters(s.name) = {}
                          => won.file # Kernel
    BY DEF OwnerPreferred
  <2>1. PICK i \in DOMAIN symtab : s = symtab[i]
    BY DEF Entries
  <2>2. Merged(s)
    BY <2>1, SymbolConstants DEF Settled
  <2>3. syms[s.name].name = s.name
    BY <2>2 DEF Settled, Merged
  <2> DEFINE won == syms[s.name]
  <2>4. ~should_replace_symbol(won, s)
    BY <2>2 DEF Merged
  <2>5. Exporters(s.name) = {} => ~OwnerMatch(s) /\ ~OwnerMatch(won)
    BY <2>3 DEF OwnerMatch
  <2> HIDE DEF won
  <2>6. /\ Defined(s) => Defined(won)
        /\ Defined(s) /\ OwnerMatch(s) => OwnerMatch(won)
        /\ Defined(s) /\ s.file # Kernel /\ IsCode(s) = IsCode(won) /\ Exporters(s.name) = {} => won.file # Kernel
    BY <2>4, <2>5, Atoms, Zenon DEF should_replace_symbol
  <2> QED
    BY <2>6 DEF won
<1> QED
  BY AlwaysSettled, <1>1, PTL

-----------------------------------------------------------------------------
\* The loop of closure_and_print: what is marked is reached from the root, and
\* what is marked and off the stack has its successors marked.
Closing ==
  /\ stack \subseteq seen
  /\ pc # "saved" => seen = {}
  /\ root \notin graph.node => seen = {}
  /\ \A u \in (seen \ stack) \ StopNames : Successors(u) \subseteq seen
  /\ \A c : root \in c /\ ClosedUnder(c) => seen \subseteq c

LEMMA StepClosing ==
  ASSUME Closing, [Next]_vars
  PROVE  Closing'
<1>1. CASE UNCHANGED << graph, root, seen, stack >> /\ (pc = "saved" => pc' = "saved")
  BY <1>1 DEF Closing, Successors, ClosedUnder
<1>2. CASE save
  <2>1. seen = {} /\ stack = {} /\ seen' = {} /\ stack' = {}
    BY <1>2 DEF save, Closing
  <2> QED
    BY <2>1 DEF Closing
<1>3. ASSUME NEW n \in Names, query(n) PROVE Closing'
  <2>1. seen' = {n} \cap graph.node /\ stack' = seen' /\ root' = n /\ graph' = graph /\ pc' = "saved"
    BY <1>3 DEF query
  <2> QED
    BY <2>1 DEF Closing
<1>4. ASSUME NEW u \in stack, visit(u) PROVE Closing'
  <2> DEFINE found == IF u \in StopNames THEN {} ELSE Successors(u) \ seen
  <2>1. seen' = seen \cup found /\ stack' = (stack \ {u}) \cup found /\ u \in seen
    BY <1>4 DEF visit, Closing
  <2>2. UNCHANGED << graph, root, pc >>
    BY <1>4 DEF visit
  <2>3. pc = "saved" /\ root \in graph.node
    BY <2>1 DEF Closing
  <2>4. \A v : Successors(v)' = Successors(v)
    BY <2>2 DEF Successors
  <2>5. ASSUME NEW v \in (seen' \ stack') \ StopNames PROVE Successors(v) \subseteq seen'
    <3>1. CASE v = u
      BY <3>1, <2>5, <2>1
    <3>2. CASE v # u
      <4>1. v \in (seen \ stack) \ StopNames
        BY <3>2, <2>5, <2>1
      <4> QED
        BY <4>1, <2>1 DEF Closing
    <3> QED
      BY <3>1, <3>2
  <2>6. ASSUME NEW c, root \in c, ClosedUnder(c) PROVE seen' \subseteq c
    <3>1. seen \subseteq c
      BY <2>6 DEF Closing
    <3>2. found \subseteq c
      BY <3>1, <2>1, <2>6 DEF ClosedUnder
    <3> QED
      BY <3>1, <3>2, <2>1
  <2>7. \A c : ClosedUnder(c)' <=> ClosedUnder(c)
    BY <2>4 DEF ClosedUnder
  <2>8. \A c : root' \in c /\ ClosedUnder(c)' => seen' \subseteq c
    BY <2>6, <2>7, <2>2
  <2>9. \A v \in (seen' \ stack') \ StopNames : Successors(v)' \subseteq seen'
    BY <2>5, <2>4
  <2> HIDE DEF found
  <2>10. stack' \subseteq seen'
    BY <2>1 DEF Closing
  <2> QED
    BY <2>2, <2>3, <2>8, <2>9, <2>10 DEF Closing
<1>5. ASSUME \/ collect_symbol \/ build_ranges \/ relocs_done
             \/ \E r \in Relocations : add_edge_from_reloc(r)
             \/ \E i \in Instructions : add_edge_from_insn(i)
      PROVE  UNCHANGED << graph, root, seen, stack >> /\ (pc = "saved" => pc' = "saved")
  <2>1. CASE collect_symbol
    BY <2>1 DEF collect_symbol, queryVars
  <2>2. CASE build_ranges
    BY <2>2 DEF build_ranges, queryVars
  <2>3. CASE relocs_done
    BY <2>3 DEF relocs_done, queryVars
  <2>4. ASSUME NEW r \in Relocations, add_edge_from_reloc(r)
        PROVE  UNCHANGED << graph, root, seen, stack >> /\ (pc = "saved" => pc' = "saved")
    BY <2>4 DEF add_edge_from_reloc, queryVars
  <2>5. ASSUME NEW i \in Instructions, add_edge_from_insn(i)
        PROVE  UNCHANGED << graph, root, seen, stack >> /\ (pc = "saved" => pc' = "saved")
    BY <2>5 DEF add_edge_from_insn, queryVars
  <2> QED
    BY <1>5, <2>1, <2>2, <2>3, <2>4, <2>5
<1>6. CASE UNCHANGED vars
  BY <1>1, <1>6 DEF vars, queryVars
<1> QED
  BY <1>1, <1>2, <1>3, <1>4, <1>5, <1>6 DEF Next

LEMMA AlwaysClosing == Spec => []Closing
<1>1. Init => Closing
  BY DEF Init, Closing
<1>2. Closing /\ [Next]_vars => Closing'
  BY StepClosing
<1> QED
  BY <1>1, <1>2, PTL DEF Spec

\* A query prints the smallest set with the root that is closed under the
\* edges of what is no stop name, for any graph and any stop names.
THEOREM ClosureCorrect == Spec => []ClosureLeast
<1>1. Closing => ClosureLeast
  BY DEF Closing, ClosureLeast, Answered, ClosedUnder
<1> QED
  BY AlwaysClosing, <1>1, PTL

-----------------------------------------------------------------------------
\* TypeOK in parts: the symbols, the ranges, the edges, the graph and the query.
SymType ==
  /\ DOMAIN syms \subseteq Names /\ \A n \in DOMAIN syms : syms[n] \in Symbol /\ syms[n].name = n
  /\ writable \subseteq DOMAIN syms

RangeType ==
  /\ DOMAIN fun \subseteq DOMAIN syms /\ DOMAIN object \subseteq DOMAIN syms
  /\ last \subseteq DOMAIN fun \cup DOMAIN object

EdgeType ==
  /\ relocs \subseteq Relocations /\ insns \subseteq Instructions
  /\ adj \cup dataRefs \subseteq (DOMAIN fun) \X (DOMAIN syms)
  /\ tainted \subseteq DOMAIN fun

GraphType ==
  /\ pc \in {"symbols", "relocs", "insns", "saved", "failed"}
  /\ graph.node \subseteq DOMAIN syms /\ graph.edge \subseteq graph.node \X graph.node
  /\ root \in Names \cup {NoRoot}
  /\ seen \subseteq graph.node

\* Before the ranges are built there are neither ranges nor edges.
Order == pc = "symbols" => fun = << >> /\ object = << >> /\ adj = {} /\ dataRefs = {} /\ tainted = {}

IType == SymType /\ RangeType /\ EdgeType /\ GraphType /\ Order

LEMMA Parts == Settled /\ Closing /\ IType => TypeOK
  BY DEF TypeOK, Settled, Closing, IType, SymType, RangeType, EdgeType, GraphType

\* What the address searches return.
LEMMA Searches ==
  ASSUME RangeType, NEW va
  PROVE  target_func_by_addr(va) \subseteq DOMAIN fun /\ target_data_by_addr(va) \subseteq DOMAIN object
  BY DEF RangeType, target_func_by_addr, target_data_by_addr, Nearest

LEMMA NewEdges ==
  ASSUME NEW u, NEW t
  PROVE  /\ add_edges(u, t) \subseteq (DOMAIN fun) \X t
         /\ alias_group(u) \subseteq DOMAIN fun /\ mark_calls_blacklisted(u) \subseteq DOMAIN fun
  BY DEF add_edges, alias_group, mark_calls_blacklisted

LEMMA InitIType == Init => IType
  BY DEF Init, IType, SymType, RangeType, EdgeType, GraphType, Order

LEMMA SymbolType ==
  ASSUME SymType, NEW s \in Symbol, syms' = add_symbol(s)
  PROVE  /\ DOMAIN syms \subseteq DOMAIN syms' /\ DOMAIN syms' \subseteq Names /\ s.name \in DOMAIN syms'
         /\ \A n \in DOMAIN syms' : syms'[n] \in Symbol /\ syms'[n].name = n
<1>1. \A n \in DOMAIN syms : syms[n].name = n
  BY DEF SymType
<1>2. s.name \in Names
  BY DEF Symbol
<1>3. DOMAIN syms' = DOMAIN syms \cup {s.name} /\ \A n \in DOMAIN syms' : syms'[n].name = n
  BY <1>1, AddSymbol
<1>4. ASSUME NEW n \in DOMAIN syms' PROVE syms'[n] = s \/ (n \in DOMAIN syms /\ syms'[n] = syms[n])
  <2>1. CASE n # s.name
    BY <2>1, <1>1, <1>3, AddSymbol
  <2>2. CASE n = s.name /\ n \notin DOMAIN syms
    BY <2>2, <1>1, AddSymbol
  <2>3. CASE n = s.name /\ n \in DOMAIN syms
    <3>1. syms'[s.name] = IF should_replace_symbol(syms[s.name], s) THEN s ELSE syms[s.name]
      BY <2>3, <1>1, AddSymbol
    <3> QED
      BY <2>3, <3>1
  <2> QED
    BY <2>1, <2>2, <2>3
<1> QED
  BY <1>2, <1>3, <1>4 DEF SymType

\* A relocation: its symbol is added, its edges end in symbols that are there.
LEMMA RelocType ==
  ASSUME IType, Settled, NEW r \in Relocations, add_edge_from_reloc(r)
  PROVE  IType'
<1>0. r.sym \in Symbol
  BY SymbolConstants DEF Relocation
<1>1. UNCHANGED << pc, fun, object, last, insns, graph, root, seen, stack >> /\ relocs' = relocs \cup {r} /\ pc = "relocs"
  BY DEF add_edge_from_reloc, rangeVars, queryVars
<1>2. CASE UNCHANGED << syms, writable, adj, dataRefs, tainted >>
  BY <1>1, <1>2 DEF IType, SymType, RangeType, EdgeType, GraphType, Order
<1>3. CASE \E u \in target_func_by_addr(r.at) :
             /\ syms' = add_symbol(r.sym)
             /\ writable' = writable \cup
                  IF r.sym.name \notin DOMAIN syms /\ r.sym.sec = "data" /\ ~IsCode(r.sym) THEN {r.sym.name} ELSE {}
             /\ LET s    == syms'[r.sym.name]
                    deps == Imports(r, s) \cup Target(r, s)
                    code == {v \in deps : IsCode(syms'[v])}
                IN /\ adj' = adj \cup add_edges(u, code \ (SoftIgnore \cup HardBlacklist))
                   /\ dataRefs' = dataRefs \cup add_edges(u, deps \ code)
                   /\ tainted' = tainted \cup IF code \cap HardBlacklist # {} THEN mark_calls_blacklisted(u) ELSE {}
  <2>1. PICK x : x = r.sym
    OBVIOUS
  <2>2. /\ DOMAIN syms \subseteq DOMAIN syms' /\ DOMAIN syms' \subseteq Names /\ x.name \in DOMAIN syms'
        /\ \A n \in DOMAIN syms' : syms'[n] \in Symbol /\ syms'[n].name = n
    BY <1>0, <1>3, <2>1, SymbolType DEF IType
  <2>3. PICK u : LET s    == syms'[x.name]
                     deps == Imports(r, s) \cup Target(r, s)
                     code == {v \in deps : IsCode(syms'[v])}
                 IN /\ adj' = adj \cup add_edges(u, code \ (SoftIgnore \cup HardBlacklist))
                    /\ dataRefs' = dataRefs \cup add_edges(u, deps \ code)
                    /\ tainted' = tainted \cup IF code \cap HardBlacklist # {} THEN mark_calls_blacklisted(u) ELSE {}
    BY <1>3, <2>1
  <2>4. PICK s : s = syms'[x.name]
    OBVIOUS
  <2> DEFINE deps == Imports(r, s) \cup Target(r, s)
             code == {v \in deps : IsCode(syms'[v])}
             fresh == code \ (SoftIgnore \cup HardBlacklist)
             data == deps \ code
  <2>5. deps \subseteq DOMAIN syms'
    <3>1. Imports(r, s) \subseteq DOMAIN syms
      BY DEF Imports
    <3>2. Target(r, s) \subseteq {x.name} \cup DOMAIN fun \cup DOMAIN object
      <4>1. s.name = x.name
        BY <2>2, <2>4
      <4>2. \A va : target_func_by_addr(va) \subseteq DOMAIN fun /\ target_data_by_addr(va) \subseteq DOMAIN object
        BY Searches DEF IType
      <4> QED
        BY <4>1, <4>2 DEF Target
    <3>3. DOMAIN fun \cup DOMAIN object \subseteq DOMAIN syms
      BY DEF IType, RangeType
    <3> QED
      BY <3>1, <3>2, <3>3, <2>2
  <2>6. /\ adj' = adj \cup add_edges(u, fresh)
        /\ dataRefs' = dataRefs \cup add_edges(u, data)
        /\ tainted' \subseteq tainted \cup mark_calls_blacklisted(u)
    BY <2>3, <2>4
  <2>7. fresh \subseteq DOMAIN syms' /\ data \subseteq DOMAIN syms'
    BY <2>5
  <2> HIDE DEF fresh, data
  <2>8. add_edges(u, fresh) \subseteq (DOMAIN fun) \X fresh /\ add_edges(u, data) \subseteq (DOMAIN fun) \X data
        /\ mark_calls_blacklisted(u) \subseteq DOMAIN fun
    BY NewEdges
  <2>9. EdgeType'
    <3>1. adj \cup dataRefs \subseteq (DOMAIN fun) \X (DOMAIN syms) /\ tainted \subseteq DOMAIN fun
      BY DEF IType, EdgeType
    <3>2. adj' \cup dataRefs' \subseteq (DOMAIN fun) \X (DOMAIN syms')
      BY <3>1, <2>2, <2>6, <2>7, <2>8
    <3>3. tainted' \subseteq DOMAIN fun
      BY <3>1, <2>6, <2>8
    <3> QED
      BY <3>2, <3>3, <1>1 DEF IType, EdgeType
  <2>10. writable' \subseteq DOMAIN syms'
    BY <1>3, <2>1, <2>2 DEF IType, SymType
  <2> QED
    BY <1>1, <2>2, <2>9, <2>10 DEF IType, SymType, RangeType, GraphType, Order
<1> QED
  BY <1>2, <1>3 DEF add_edge_from_reloc

LEMMA SaveType == IType /\ Closing /\ save => IType'
<1> SUFFICES ASSUME IType, Closing, save PROVE IType'
  OBVIOUS
<1>1. UNCHANGED << syms, writable, fun, object, last, relocs, insns, adj, dataRefs, tainted, root, seen >>
      /\ pc = "insns" /\ pc' \in {"failed", "saved"} /\ seen = {}
  BY DEF save, symVars, rangeVars, edgeVars, Closing
<1>2. Needed \subseteq DOMAIN syms /\ Safe \subseteq Needed
  BY DEF Needed, Safe, Leaves
<1>3. \A e \in adj \cup dataRefs : e = << e[1], e[2] >>
  BY DEF IType, EdgeType
<1>4. CASE UNCHANGED graph
  BY <1>1, <1>4 DEF IType, SymType, RangeType, EdgeType, GraphType, Order
<1>5. CASE graph' = [node |-> Needed, edge |-> {e \in adj \cup dataRefs : e[1] \in Safe /\ e[2] \in Needed}]
  <2>1. graph'.node \subseteq DOMAIN syms /\ graph'.edge \subseteq graph'.node \X graph'.node
    BY <1>2, <1>3, <1>5
  <2> QED
    BY <1>1, <2>1 DEF IType, SymType, RangeType, EdgeType, GraphType, Order
<1> QED
  BY <1>4, <1>5 DEF save

LEMMA InsnType ==
  ASSUME IType, NEW i \in Instructions, add_edge_from_insn(i)
  PROVE  IType'
<1>1. UNCHANGED << pc, syms, writable, fun, object, last, relocs, dataRefs, graph, root, seen, stack >>
      /\ insns' = insns \cup {i} /\ pc = "insns"
  BY DEF add_edge_from_insn, symVars, rangeVars, queryVars
<1>2. adj' \subseteq (DOMAIN fun) \X (DOMAIN syms) /\ tainted' \subseteq DOMAIN fun
  <2>0. adj \subseteq (DOMAIN fun) \X (DOMAIN syms) /\ tainted \subseteq DOMAIN fun
    BY DEF IType, EdgeType
  <2>1. CASE UNCHANGED << adj, tainted >>
    BY <2>0, <2>1
  <2>2. ASSUME NEW u, NEW v \in target_func_by_addr(i.target),
               \/ tainted' = tainted \cup mark_calls_blacklisted(u) /\ adj' = adj
               \/ tainted' = tainted /\ (adj' = adj \/ adj' = adj \cup add_edges(u, {v}))
        PROVE  adj' \subseteq (DOMAIN fun) \X (DOMAIN syms) /\ tainted' \subseteq DOMAIN fun
    <3>1. v \in DOMAIN syms
      <4>1. target_func_by_addr(i.target) \subseteq DOMAIN fun
        BY Searches DEF IType
      <4> QED
        BY <4>1 DEF IType, RangeType
    <3>2. add_edges(u, {v}) \subseteq (DOMAIN fun) \X {v} /\ mark_calls_blacklisted(u) \subseteq DOMAIN fun
      BY NewEdges
    <3> QED
      BY <2>0, <2>2, <3>1, <3>2
  <2>3. \/ UNCHANGED << adj, tainted >>
        \/ \E u, v : /\ v \in target_func_by_addr(i.target)
                     /\ \/ tainted' = tainted \cup mark_calls_blacklisted(u) /\ adj' = adj
                        \/ tainted' = tainted /\ (adj' = adj \/ adj' = adj \cup add_edges(u, {v}))
    BY DEF add_edge_from_insn
  <2> QED
    BY <2>1, <2>2, <2>3
<1> QED
  BY <1>1, <1>2 DEF IType, SymType, RangeType, EdgeType, GraphType, Order

LEMMA StepIType ==
  ASSUME Settled, Closing, IType, [Next]_vars
  PROVE  IType'
<1> USE DEF SymType, RangeType, EdgeType, GraphType, Order
<1>1. CASE collect_symbol
  <2>1. PICK s : s = symtab[todo]
    OBVIOUS
  <2>2. s \in Symbol
    BY <1>1, <2>1, SymbolConstants DEF collect_symbol, Settled
  <2>3. syms' = add_symbol(s)
        /\ UNCHANGED << pc, writable, fun, object, last, relocs, insns, adj, dataRefs, tainted, graph, root, seen, stack >>
    BY <1>1, <2>1 DEF collect_symbol, rangeVars, edgeVars, queryVars
  <2>4. /\ DOMAIN syms \subseteq DOMAIN syms' /\ DOMAIN syms' \subseteq Names
        /\ \A n \in DOMAIN syms' : syms'[n] \in Symbol /\ syms'[n].name = n
    BY <2>2, <2>3, SymbolType DEF IType
  <2> QED
    BY <2>3, <2>4 DEF IType
<1>2. CASE build_ranges
  <2>1. UNCHANGED << syms, relocs, insns, adj, dataRefs, tainted, graph, root, seen, stack >>
        /\ pc = "symbols" /\ pc' = "relocs"
    BY <1>2 DEF build_ranges, edgeVars, queryVars
  <2>2. writable' \subseteq DOMAIN syms /\ DOMAIN fun' \subseteq DOMAIN syms /\ DOMAIN object' \subseteq DOMAIN syms
        /\ last' \subseteq DOMAIN fun' \cup DOMAIN object'
    BY <1>2 DEF build_ranges
  <2>3. adj = {} /\ dataRefs = {} /\ tainted = {}
    BY <2>1 DEF IType
  <2> QED
    BY <2>1, <2>2, <2>3 DEF IType
<1>3. ASSUME NEW r \in Relocations, add_edge_from_reloc(r) PROVE IType'
  BY <1>3, RelocType
<1>4. CASE relocs_done
  BY <1>4 DEF relocs_done, symVars, rangeVars, edgeVars, queryVars, IType
<1>5. ASSUME NEW i \in Instructions, add_edge_from_insn(i) PROVE IType'
  BY <1>5, InsnType
<1>6. CASE save
  BY <1>6, SaveType
<1>7. ASSUME NEW n \in Names, query(n) PROVE IType'
  BY <1>7 DEF query, symVars, rangeVars, edgeVars, IType
<1>8. ASSUME NEW u \in stack, visit(u) PROVE IType'
  <2>1. UNCHANGED << pc, syms, writable, fun, object, last, relocs, insns, adj, dataRefs, tainted, graph, root >>
    BY <1>8 DEF visit, symVars, rangeVars, edgeVars
  <2>2. seen' \subseteq graph.node
    BY <1>8 DEF visit, Successors, IType
  <2> QED
    BY <2>1, <2>2 DEF IType
<1>9. CASE UNCHANGED vars
  BY <1>9 DEF vars, symVars, rangeVars, edgeVars, queryVars, IType
<1> QED
  BY <1>1, <1>2, <1>3, <1>4, <1>5, <1>6, <1>7, <1>8, <1>9 DEF Next

\* Type correctness, for any files: above all, the saved edges are between
\* saved nodes and the ranges and marks are those of symbols that exist.
THEOREM TypeCorrect == Spec => []TypeOK
<1>1. Settled /\ Closing /\ IType /\ [Next]_vars => IType'
  BY StepIType
<1> QED
  BY InitIType, <1>1, AlwaysSettled, AlwaysClosing, Parts, PTL DEF Spec

-----------------------------------------------------------------------------
(* What the graph says against what the files say.  The hypotheses are about *)
(* the inputs alone, which are files as a linker makes them.  Without        *)
(* SectionsApart a symbol at the end of a section can take the place of the  *)
(* first one of the next; without HardOnce the second function of a          *)
(* blacklisted name is not found.                                            *)

\* A symbol lies inside of its section, and the sections of all files apart.
SectionsApart ==
  \A tab \in SymbolTables : \A i, j \in DOMAIN tab :
    LET s == tab[i]
        o == tab[j]
    IN  Defined(s) /\ Defined(o) =>
          /\ s.addr < End(s) /\ s.addr + s.size <= End(s)
          /\ s.addr <= o.addr /\ o.addr < End(s) => o.file = s.file /\ o.sec = s.sec

\* No two functions, in all files, have one name of the hard blacklist.
HardOnce ==
  \A tab \in SymbolTables : \A i, j \in DOMAIN tab :
    Defined(tab[i]) /\ Defined(tab[j]) /\ tab[i].name = tab[j].name /\ tab[i].name \in HardBlacklist
      => tab[i] = tab[j]

\* A relative relocation against data stays in the section of its symbol.
OwnSection ==
  \A r \in Relocations, tab \in SymbolTables : \A j \in DOMAIN tab : \A d \in {r.sym} \cup {tab[i] : i \in DOMAIN tab} :
    LET o == tab[j]
    IN  r.pc32 /\ d.name = r.sym.name /\ Defined(d) /\ ~IsCode(d)
        /\ Defined(o) /\ o.addr <= d.addr + r.off /\ d.addr + r.off < End(o)
          => o.file = d.file /\ o.sec = d.sec

-----------------------------------------------------------------------------
\* The tables of ranges stand for the symbols that won their names.
IsFunction(n) == n \in DOMAIN syms /\ syms[n] \in Entries /\ Defined(syms[n]) /\ IsCode(syms[n]) /\ n \notin Dotted
IsDatum(n) ==
  n \in DOMAIN syms /\ syms[n] \in Entries /\ syms[n].sec \in {"rodata", "data"} /\ ~IsCode(syms[n]) /\ n \notin Dotted

Ranged ==
  /\ \A n \in DOMAIN syms : syms[n] \in Entries \/ (pc # "symbols" /\ syms[n] \in SectionSymbols)
  /\ pc # "symbols" =>
       /\ \A n : n \in DOMAIN fun <=> IsFunction(n)
       /\ \A n : n \in DOMAIN object <=> IsDatum(n)
       /\ \A n \in DOMAIN fun : fun[n] = syms[n]
       /\ \A n \in DOMAIN object : object[n] = syms[n]
       /\ LastOfEach(fun, last) /\ LastOfEach(object, last)
       /\ \A n \in DOMAIN syms : syms[n].sec = "data" /\ ~IsCode(syms[n]) => n \in writable

LEMMA InitRanged == Init => Ranged
  BY DEF Init, Ranged

LEMMA CollectRanged == Settled /\ collect_symbol /\ Ranged => Ranged'
<1> SUFFICES ASSUME Settled, collect_symbol, Ranged PROVE Ranged'
  OBVIOUS
<1>0. symtab \in Seq(Symbol) /\ todo \in DOMAIN symtab
  BY SymbolConstants DEF Settled, collect_symbol
<1>1. PICK s : s = symtab[todo]
  OBVIOUS
<1>2. syms' = add_symbol(s) /\ symtab' = symtab /\ pc' = pc /\ pc = "symbols" /\ s \in Entries
  BY <1>0, <1>1 DEF collect_symbol, inputVars, Entries
<1>3. Entries' = Entries
  BY <1>2 DEF Entries
<1>4. \A n \in DOMAIN syms' : syms'[n] = s \/ (n \in DOMAIN syms /\ syms'[n] = syms[n])
  <2>1. \A n \in DOMAIN syms : syms[n].name = n
    BY DEF Settled
  <2>2. /\ DOMAIN syms' = DOMAIN syms \cup {s.name}
        /\ \A n \in DOMAIN syms : n # s.name => syms'[n] = syms[n]
        /\ s.name \notin DOMAIN syms => syms'[s.name] = s
        /\ s.name \in DOMAIN syms => syms'[s.name] \in {s, syms[s.name]}
    BY <2>1, <1>2, AddSymbol
  <2> QED
    BY <2>2
<1> QED
  BY <1>2, <1>3, <1>4 DEF Ranged

LEMMA BuildRanged == Settled /\ build_ranges /\ Ranged => Ranged'
<1> SUFFICES ASSUME Settled, build_ranges, Ranged PROVE Ranged'
  OBVIOUS
<1>1. /\ symtab' = symtab /\ syms' = syms /\ pc = "symbols" /\ pc' = "relocs"
      /\ writable' = {n \in DOMAIN syms : syms[n].sec = "data" /\ ~IsCode(syms[n])}
  BY DEF build_ranges, inputVars
<1>2. Entries' = Entries /\ \A n \in DOMAIN syms : syms[n] \in Entries
  BY <1>1 DEF Ranged, Entries
<1>3. /\ fun' = [n \in {x \in DOMAIN syms : Defined(syms[x]) /\ IsCode(syms[x]) /\ x \notin Dotted} |-> syms[n]]
      /\ object' = [n \in {x \in DOMAIN syms : syms[x].sec \in {"rodata", "data"} /\ ~IsCode(syms[x])
                                                /\ x \notin Dotted} |-> syms[n]]
  BY DEF build_ranges
<1>4. /\ \A n : n \in DOMAIN fun' <=> IsFunction(n)'
      /\ \A n \in DOMAIN fun' : fun'[n] = syms'[n]
  BY <1>1, <1>2, <1>3 DEF IsFunction
<1>5. /\ \A n : n \in DOMAIN object' <=> IsDatum(n)'
      /\ \A n \in DOMAIN object' : object'[n] = syms'[n]
  BY <1>1, <1>2, <1>3 DEF IsDatum
<1>6. LastOfEach(fun', last') /\ LastOfEach(object', last')
  BY DEF build_ranges
<1>7. LastOfEach(fun, last)' /\ LastOfEach(object, last)'
  BY <1>6 DEF LastOfEach
<1> QED
  BY <1>1, <1>2, <1>4, <1>5, <1>7 DEF Ranged

\* A symbol that a relocation brings is new, and a section's.
LEMMA RelocRanged ==
  ASSUME Settled, Ranged, NEW r \in Relocations, add_edge_from_reloc(r)
  PROVE  Ranged'
<1>0. symtab' = symtab /\ exports' = exports /\ UNCHANGED << pc, todo, fun, object, last >> /\ pc = "relocs"
  BY DEF add_edge_from_reloc, inputVars, rangeVars
<1>1. Entries' = Entries
  BY <1>0 DEF Entries
<1>2. LastOfEach(fun, last)' /\ LastOfEach(object, last)'
  BY <1>0 DEF Ranged, LastOfEach
<1>3. CASE UNCHANGED << syms, writable >>
  BY <1>0, <1>1, <1>2, <1>3 DEF Ranged, IsFunction, IsDatum
<1>4. CASE /\ syms' = add_symbol(r.sym)
           /\ writable' = writable \cup
                IF r.sym.name \notin DOMAIN syms /\ r.sym.sec = "data" /\ ~IsCode(r.sym) THEN {r.sym.name} ELSE {}
  <2>1. PICK x : x = r.sym
    OBVIOUS
  <2>2. x \in SectionSymbols \cup Entries /\ syms' = add_symbol(x)
    BY <1>4, <2>1 DEF add_edge_from_reloc, Entries
  <2>3. UNCHANGED << inputVars, pc, todo >>
    BY <1>0 DEF inputVars
  <2>4. \A n \in DOMAIN syms : syms'[n] = syms[n]
    BY <2>2, <2>3, <1>0, RelocSettled DEF Entries
  <2>5. DOMAIN syms' = DOMAIN syms \cup {x.name} /\ (x.name \notin DOMAIN syms => syms'[x.name] = x)
    BY <2>2, AddSymbol DEF Settled
  <2>6. x \in Entries => x.name \in DOMAIN syms
    <3> SUFFICES ASSUME NEW i \in DOMAIN symtab, x = symtab[i] PROVE x.name \in DOMAIN syms
      BY DEF Entries
    <3>1. symtab \in Seq(Symbol) /\ todo = Len(symtab) + 1
      BY <1>0, SymbolConstants DEF Settled
    <3> QED
      BY <3>1 DEF Settled, Merged
  <2>7. x \in SectionSymbols => x \notin Entries
    BY SymbolConstants DEF Settled, Entries
  <2>8. \A n \in DOMAIN syms' :
          \/ n \in DOMAIN syms /\ syms'[n] = syms[n]
          \/ n \notin DOMAIN syms /\ n = x.name /\ syms'[n] = x /\ x \in SectionSymbols /\ x \notin Entries
    BY <2>2, <2>4, <2>5, <2>6, <2>7
  <2>9. \A n \in DOMAIN syms : n \in DOMAIN syms'
    BY <2>5
  <2>10. \A n : (IsFunction(n) <=> IsFunction(n)') /\ (IsDatum(n) <=> IsDatum(n)')
    <3>1. \A s : Defined(s)' = Defined(s) /\ IsCode(s)' = IsCode(s)
      BY DEF Defined, IsCode
    <3> QED
      BY <2>8, <2>9, <2>4, <1>1, <3>1 DEF IsFunction, IsDatum
  <2>11. \A n \in DOMAIN syms' : syms'[n].sec = "data" /\ ~IsCode(syms'[n]) => n \in writable'
    BY <1>4, <2>1, <2>8, <1>0 DEF Ranged
  <2>12. \A n \in DOMAIN syms' : syms'[n] \in Entries' \/ syms'[n] \in SectionSymbols
    BY <2>8, <1>1 DEF Ranged
  <2>13. /\ \A n \in DOMAIN fun : fun[n] = syms'[n]
         /\ \A n \in DOMAIN object : object[n] = syms'[n]
    BY <2>4, <1>0 DEF Ranged, IsFunction, IsDatum
  <2> QED
    BY <1>0, <1>2, <2>10, <2>11, <2>12, <2>13 DEF Ranged
<1> QED
  BY <1>3, <1>4 DEF add_edge_from_reloc

\* The other steps leave the tables alone.
LEMMA SameRanged ==
  ASSUME Ranged, UNCHANGED << symtab, syms, writable, fun, object, last >>, pc = "symbols" <=> pc' = "symbols"
  PROVE  Ranged'
<1>1. Entries' = Entries
  BY DEF Entries
<1>2. pc # "symbols" => LastOfEach(fun, last)' /\ LastOfEach(object, last)'
  BY DEF Ranged, LastOfEach
<1> QED
  BY <1>1, <1>2 DEF Ranged, IsFunction, IsDatum

\* Neither a symbol of a table, nor the ranges, nor a relocation.
Later == \/ relocs_done \/ save
         \/ \E i \in Instructions : add_edge_from_insn(i)
         \/ \E n \in Names : query(n)
         \/ \E u \in stack : visit(u)
         \/ UNCHANGED vars

LEMMA LaterKeeps ==
  ASSUME Later
  PROVE  UNCHANGED << symtab, syms, writable, fun, object, last, relocs, dataRefs >> /\ (pc = "symbols" <=> pc' = "symbols")
<1> USE DEF inputVars, symVars, rangeVars, edgeVars
<1>1. CASE relocs_done
  BY <1>1 DEF relocs_done
<1>2. CASE save
  BY <1>2 DEF save
<1>3. CASE \E i \in Instructions : add_edge_from_insn(i)
  BY <1>3 DEF add_edge_from_insn
<1>4. CASE \E n \in Names : query(n)
  BY <1>4 DEF query
<1>5. CASE \E u \in stack : visit(u)
  BY <1>5 DEF visit
<1>6. CASE UNCHANGED vars
  BY <1>6 DEF vars
<1> QED
  BY <1>1, <1>2, <1>3, <1>4, <1>5, <1>6 DEF Later

LEMMA StepRanged ==
  ASSUME Settled, Ranged, [Next]_vars
  PROVE  Ranged'
<1>1. CASE Later
  BY <1>1, LaterKeeps, SameRanged
<1> QED
  BY <1>1, CollectRanged, BuildRanged, RelocRanged DEF Next, Later

-----------------------------------------------------------------------------
\* The entries of the symbol tables, and what the layout says of two of them.
LEMMA EntryType ==
  ASSUME Settled, NEW s \in Entries
  PROVE  /\ s \in Symbol /\ s.addr \in Nat /\ s.size \in Nat /\ s.file \in Files
         /\ Defined(s) => End(s) \in Nat
<1>1. PICK i \in DOMAIN symtab : s = symtab[i]
  BY DEF Entries
<1>2. symtab \in Seq(Symbol)
  BY SymbolConstants DEF Settled
<1>3. s \in Symbol
  BY <1>1, <1>2
<1>4. s.addr \in Nat /\ s.size \in Nat /\ s.file \in Files /\ (Defined(s) => s.sec \in Sections)
  BY <1>3 DEF Symbol, Defined
<1>5. Defined(s) => End(s) \in Nat
  <2>1. \A f \in Files, c \in Sections : SectionEnd[f, c] \in Nat
    BY InputConstants, Zenon
  <2> QED
    BY <1>4, <2>1, Zenon DEF End
<1> QED
  BY <1>3, <1>4, <1>5

LEMMA EntriesFinite ==
  ASSUME Settled
  PROVE  IsFiniteSet(Entries)
<1>1. symtab \in Seq(Symbol) /\ Len(symtab) \in Nat /\ DOMAIN symtab = 1 .. Len(symtab)
  BY SymbolConstants DEF Settled
<1>2. IsFiniteSet(DOMAIN symtab)
  BY <1>1, FS_Interval
<1>3. symtab \in Surjection(DOMAIN symtab, Entries)
  BY <1>1 DEF Surjection, Entries
<1> QED
  BY <1>2, <1>3, FS_Surjection

LEMMA EntriesApart ==
  ASSUME Settled, SectionsApart, NEW s \in Entries, NEW o \in Entries, Defined(s), Defined(o)
  PROVE  /\ s.addr < End(s) /\ s.addr + s.size <= End(s)
         /\ s.addr <= o.addr /\ o.addr < End(s) => o.file = s.file /\ o.sec = s.sec /\ End(o) = End(s)
<1>1. PICK i \in DOMAIN symtab : s = symtab[i]
  BY DEF Entries
<1>2. PICK j \in DOMAIN symtab : o = symtab[j]
  BY DEF Entries
<1>3. /\ s.addr < End(s) /\ s.addr + s.size <= End(s)
      /\ s.addr <= o.addr /\ o.addr < End(s) => o.file = s.file /\ o.sec = s.sec
  BY <1>1, <1>2 DEF SectionsApart, Settled
<1> QED
  BY <1>3 DEF End

\* Where the body of a function is, the search returns a function that starts
\* with it, and only such ones.
LEMMA CodeFound ==
  ASSUME Settled, Ranged, SectionsApart, pc # "symbols", NEW va \in Int, NEW w \in DOMAIN fun, fun[w] \in CodeAt(va)
  PROVE  /\ target_func_by_addr(va) # {}
         /\ \A m \in target_func_by_addr(va) : m \in DOMAIN fun /\ fun[m].addr = fun[w].addr /\ fun[m] \in CodeAt(va)
<1>1. \A n \in DOMAIN fun : /\ fun[n] = syms[n] /\ fun[n] \in Entries /\ Defined(fun[n]) /\ IsCode(fun[n])
                            /\ fun[n].name = n /\ n \notin Dotted
  BY DEF Ranged, IsFunction, Settled
<1> DEFINE below == {s \in Entries : /\ Defined(s) /\ IsCode(s) /\ s.name \notin Dotted /\ s.addr <= va
                                     /\ va < End(s)}
<1>2. \A s : s \in CodeAt(va) <=> s \in below /\ \A o \in below : o.addr <= s.addr
  BY DEF CodeAt
<1>3. \A n \in DOMAIN fun : fun[n].addr \in Nat /\ End(fun[n]) \in Nat
  BY <1>1, EntryType
<1>4. fun[w] \in below /\ fun[w].addr <= va /\ va < End(fun[w])
  BY <1>2
<1>5. ASSUME NEW n \in DOMAIN fun, fun[n].addr <= va PROVE fun[n].addr <= fun[w].addr
  <2>1. CASE va < End(fun[n])
    <3>1. fun[n] \in below
      BY <2>1, <1>1, <1>5
    <3> QED
      BY <3>1, <1>2
  <2>2. CASE End(fun[n]) <= va
    <3>1. SUFFICES ASSUME fun[w].addr < fun[n].addr PROVE FALSE
      BY <1>3
    <3>2. fun[w].addr <= fun[n].addr /\ fun[n].addr < End(fun[w])
      BY <3>1, <1>3, <1>4, <1>5
    <3>3. End(fun[n]) = End(fun[w])
      BY <3>2, <1>1, EntriesApart
    <3> QED
      BY <3>3, <2>2, <1>3, <1>4
  <2> QED
    BY <2>1, <2>2, <1>3
<1>6. PICK m0 \in last \cap DOMAIN fun : fun[m0].addr = fun[w].addr
  BY DEF Ranged, LastOfEach
<1>7. ASSUME NEW m \in DOMAIN fun, fun[m].addr = fun[w].addr PROVE va < End(fun[m]) /\ fun[m] \in CodeAt(va)
  <2>1. fun[w].addr <= fun[m].addr /\ fun[m].addr < End(fun[w])
    BY <1>7, <1>3, <1>4
  <2>2. End(fun[m]) = End(fun[w])
    BY <2>1, <1>1, EntriesApart
  <2>3. fun[m] \in below
    BY <2>2, <1>1, <1>3, <1>4, <1>7
  <2> QED
    BY <2>2, <2>3, <1>2, <1>4, <1>7
<1> HIDE DEF below
<1>8. m0 \in Nearest(fun, va)
  <2>1. fun[m0].addr <= va
    BY <1>4, <1>6
  <2>2. \A o \in DOMAIN fun \cap last : fun[o].addr <= va => fun[o].addr <= fun[m0].addr
    BY <1>5, <1>6
  <2> QED
    BY <2>1, <2>2, <1>6 DEF Nearest
<1>9. m0 \in target_func_by_addr(va)
  BY <1>6, <1>7, <1>8 DEF target_func_by_addr
<1>10. ASSUME NEW m \in target_func_by_addr(va) PROVE m \in DOMAIN fun /\ fun[m].addr = fun[w].addr
  <2>1. /\ m \in DOMAIN fun \cap last /\ fun[m].addr <= va
        /\ \A o \in DOMAIN fun \cap last : fun[o].addr <= va => fun[o].addr <= fun[m].addr
    BY DEF target_func_by_addr, Nearest
  <2>2. fun[m0].addr <= fun[m].addr
    BY <2>1, <1>4, <1>6
  <2>3. fun[m].addr <= fun[w].addr
    BY <2>1, <1>5
  <2> QED
    BY <2>1, <2>2, <2>3, <1>3, <1>6
<1> QED
  BY <1>7, <1>9, <1>10

\* A datum that the search returns has the address in its section.
LEMMA DataFound ==
  ASSUME Settled, Ranged, SectionsApart, pc # "symbols", NEW va \in Int, NEW t \in target_data_by_addr(va)
  PROVE  /\ t \in DOMAIN object /\ object[t] \in Entries /\ Defined(object[t])
         /\ object[t].addr <= va /\ va < End(object[t])
<1>1. t \in DOMAIN object /\ object[t].addr <= va
      /\ \/ va < IF object[t].size # 0 THEN object[t].addr + object[t].size ELSE End(object[t])
         \/ va = object[t].addr
  BY DEF target_data_by_addr, Nearest
<1>2. object[t] \in Entries /\ Defined(object[t])
  BY <1>1 DEF Ranged, IsDatum, Defined, Undef
<1>3. object[t].addr \in Nat /\ object[t].size \in Nat /\ End(object[t]) \in Nat
  BY <1>2, EntryType
<1>4. object[t].addr < End(object[t]) /\ object[t].addr + object[t].size <= End(object[t])
  BY <1>2, EntriesApart
<1> QED
  BY <1>1, <1>2, <1>3, <1>4

LEMMA MeantOne ==
  ASSUME Settled, NEW r, Clear(r)
  PROVE  \E y : Meant(r) = {y}
<1>1. PICK x : x = r.sym
  OBVIOUS
<1>2. Cardinality(Meant(r)) = 1
  BY DEF Clear
<1>3. Meant(r) \in SUBSET (Entries \cup {x})
  BY <1>1 DEF Meant, Defs
<1>4. IsFiniteSet(Entries \cup {x})
  BY EntriesFinite, FS_AddElement
<1>5. IsFiniteSet(Meant(r))
  BY <1>3, <1>4, FS_Subset
<1> QED
  BY <1>2, <1>5, FS_Singleton

\* The symbol that a clear relocation is taken to mean is the one it means.
LEMMA Taken ==
  ASSUME Settled, Ranged, pc # "symbols", NEW r \in Relocations, r.sym \in SectionSymbols \cup Entries, Clear(r),
         NEW d \in Meant(r)
  PROVE  IF r.sym.name \in DOMAIN syms THEN syms[r.sym.name] = d ELSE r.sym = d
<1>0. \A n \in DOMAIN syms : syms[n].name = n
  BY DEF Settled
<1>1. PICK x : x = r.sym
  OBVIOUS
<1>2. Defined(d) /\ Meant(r) = {d}
  <2>1. PICK y : Meant(r) = {y}
    BY MeantOne
  <2> QED
    BY <2>1 DEF Clear
<1>3. CASE x \in Entries
  <2>1. PICK i \in DOMAIN symtab : x = symtab[i]
    BY <1>3 DEF Entries
  <2>2. Merged(x)
    <3>1. symtab \in Seq(Symbol) /\ todo = Len(symtab) + 1
      BY SymbolConstants DEF Settled
    <3> QED
      BY <3>1, <2>1 DEF Settled
  <2> DEFINE won == syms[x.name]
  <2>3. won \in Entries
    <3>1. won \in Entries \/ won \in SectionSymbols
      BY <2>2 DEF Merged, Ranged
    <3>2. won.name = x.name
      BY <2>2, <1>0 DEF Merged
    <3> QED
      BY <3>1, <3>2, <2>1, SymbolConstants DEF Settled
  <2>4. Defs(x.name) # {}
    <3>1. SUFFICES ASSUME Defs(x.name) = {} PROVE FALSE
      OBVIOUS
    <3>2. d = x
      BY <3>1, <1>1 DEF Meant
    <3> QED
      BY <3>1, <3>2, <1>2, <1>3 DEF Defs
  <2>5. Defs(x.name) = {d} /\ d \in Entries /\ d.name = x.name
    BY <2>4, <1>1, <1>2 DEF Meant, Defs
  <2>6. Merged(d)
    <3>1. symtab \in Seq(Symbol) /\ todo = Len(symtab) + 1
      BY SymbolConstants DEF Settled
    <3>2. PICK j \in DOMAIN symtab : d = symtab[j]
      BY <2>5 DEF Entries
    <3> QED
      BY <3>1, <3>2 DEF Settled
  <2>7. Defined(won)
    BY <2>5, <2>6, <1>2 DEF Merged, should_replace_symbol
  <2>8. won \in Defs(x.name)
    BY <2>2, <2>3, <2>7, <1>0 DEF Defs, Merged
  <2> QED
    BY <2>2, <2>5, <2>8, <1>1 DEF Merged
<1>4. CASE x \in SectionSymbols
  <2>1. Defs(x.name) = {}
    BY <1>4, SymbolConstants DEF Defs, Entries, Settled
  <2>2. d = x
    BY <2>1, <1>1 DEF Meant
  <2> QED
    BY <2>2, <1>1, <1>4 DEF Settled
<1> QED
  BY <1>1, <1>3, <1>4

-----------------------------------------------------------------------------
\* What the inputs say stays when the symbol tables do.
LEMMA InputsSame ==
  ASSUME symtab' = symtab
  PROVE  /\ Entries' = Entries
         /\ \A va : CodeAt(va)' = CodeAt(va) /\ DataAt(va)' = DataAt(va)
         /\ \A n : Defs(n)' = Defs(n)
         /\ \A r : /\ Meant(r)' = Meant(r) /\ Clear(r)' = Clear(r)
                   /\ CodeOf(r)' = CodeOf(r) /\ DataOf(r)' = DataOf(r) /\ ImportsOf(r)' = ImportsOf(r)
<1>1. Entries' = Entries
  BY DEF Entries
<1>2. \A va : CodeAt(va)' = CodeAt(va)
  BY <1>1 DEF CodeAt
<1>3. \A va : DataAt(va)' = DataAt(va)
  BY <1>1 DEF DataAt
<1>4. \A n : Defs(n)' = Defs(n)
  BY <1>1 DEF Defs
<1>5. \A r : Meant(r)' = Meant(r)
  BY <1>4 DEF Meant
<1>6. \A r : Clear(r)' = Clear(r)
  BY <1>5 DEF Clear
<1>7. \A r : CodeOf(r)' = CodeOf(r)
  BY <1>2, <1>5 DEF CodeOf, ByAddress
<1>8. \A r : DataOf(r)' = DataOf(r)
  BY <1>3, <1>5 DEF DataOf, ByAddress
<1>9. \A r : ImportsOf(r)' = ImportsOf(r)
  BY <1>4, <1>5 DEF ImportsOf
<1> QED
  BY <1>1, <1>2, <1>3, <1>4, <1>5, <1>6, <1>7, <1>8, <1>9

\* What a relocation in the body of f adds: edges, data references and the
\* mark, for f as for every function that starts with it.
LEMMA RelocEdges ==
  ASSUME Settled, Ranged, SectionsApart, NEW r \in Relocations, add_edge_from_reloc(r),
         NEW f \in DOMAIN fun, fun[f] \in CodeAt(r.at), Clear(r), NEW d \in Meant(r)
  PROVE  /\ d.name \in DOMAIN syms' /\ syms'[d.name] = d
         /\ \E u \in DOMAIN fun :
              /\ fun[u].addr = fun[f].addr
              /\ \A v \in Imports(r, d) \cup Target(r, d) :
                   /\ IsCode(syms'[v]) /\ v \notin SoftIgnore \cup HardBlacklist /\ v # u /\ v # f => << f, v >> \in adj'
                   /\ ~IsCode(syms'[v]) /\ v # u /\ v # f => << f, v >> \in dataRefs'
                   /\ IsCode(syms'[v]) /\ v \in HardBlacklist => f \in tainted'
<1>1. r.at \in Int /\ pc # "symbols"
  BY SymbolConstants DEF Relocation, add_edge_from_reloc
<1>2. /\ target_func_by_addr(r.at) # {}
      /\ \A m \in target_func_by_addr(r.at) : m \in DOMAIN fun /\ fun[m].addr = fun[f].addr
  BY <1>1, CodeFound
<1>3. PICK u \in target_func_by_addr(r.at) :
        /\ syms' = add_symbol(r.sym)
        /\ LET s    == syms'[r.sym.name]
               deps == Imports(r, s) \cup Target(r, s)
               code == {v \in deps : IsCode(syms'[v])}
           IN /\ adj' = adj \cup add_edges(u, code \ (SoftIgnore \cup HardBlacklist))
              /\ dataRefs' = dataRefs \cup add_edges(u, deps \ code)
              /\ tainted' = tainted \cup IF code \cap HardBlacklist # {} THEN mark_calls_blacklisted(u) ELSE {}
  BY SMTT(60), <1>2 DEF add_edge_from_reloc
<1>4. PICK x : x = r.sym
  OBVIOUS
<1>5. syms' = add_symbol(x) /\ x \in SectionSymbols \cup Entries
  BY <1>3, <1>4 DEF add_edge_from_reloc, Entries
<1>6. syms'[x.name] = d /\ x.name \in DOMAIN syms'
  <2>1. UNCHANGED << inputVars, pc, todo >>
    BY DEF add_edge_from_reloc
  <2>2. \A n \in DOMAIN syms : syms'[n] = syms[n]
    BY <1>1, <1>5, <2>1, RelocSettled DEF Entries
  <2>3. x.name \in DOMAIN syms' /\ (x.name \notin DOMAIN syms => syms'[x.name] = x)
    <3>1. \A n \in DOMAIN syms : syms[n].name = n
      BY DEF Settled
    <3>2. /\ DOMAIN syms' = DOMAIN syms \cup {x.name}
          /\ x.name \notin DOMAIN syms => syms'[x.name] = x
      BY <3>1, <1>5, AddSymbol
    <3> QED
      BY <3>2
  <2>4. IF x.name \in DOMAIN syms THEN syms[x.name] = d ELSE x = d
    BY <1>1, <1>4, <1>5, Taken
  <2> QED
    BY <2>2, <2>3, <2>4
<1>7. d.name = x.name
  <2>1. \A n \in DOMAIN syms' : syms'[n].name = n
    BY <1>5, AddSymbol DEF Settled
  <2> QED
    BY <1>6, <2>1
<1> DEFINE deps == Imports(r, d) \cup Target(r, d)
           code == {v \in deps : IsCode(syms'[v])}
<1>8. /\ adj' = adj \cup add_edges(u, code \ (SoftIgnore \cup HardBlacklist))
      /\ dataRefs' = dataRefs \cup add_edges(u, deps \ code)
      /\ tainted' = tainted \cup IF code \cap HardBlacklist # {} THEN mark_calls_blacklisted(u) ELSE {}
  BY <1>3, <1>4, <1>6
<1>9. f \in alias_group(u)
  BY <1>2 DEF alias_group
<1> HIDE DEF deps
<1>10. ASSUME NEW v \in deps
       PROVE  /\ IsCode(syms'[v]) /\ v \notin SoftIgnore \cup HardBlacklist /\ v # u /\ v # f => << f, v >> \in adj'
              /\ ~IsCode(syms'[v]) /\ v # u /\ v # f => << f, v >> \in dataRefs'
              /\ IsCode(syms'[v]) /\ v \in HardBlacklist => f \in tainted'
  BY <1>8, <1>9 DEF add_edges, mark_calls_blacklisted
<1> QED
  BY <1>2, <1>6, <1>7, <1>10 DEF deps

-----------------------------------------------------------------------------
\* Where krg works out the address of a reference it is the one of the bytes.
LEMMA FollowedReach ==
  ASSUME NEW r \in Relocations, Followed(r), NEW d, Meant(r) = {d}
  PROVE  /\ r.pc32 => Reach(r) = r.off
         /\ CodeOf(r) = IF ~IsCode(d) THEN {} ELSE IF r.pc32 THEN CodeAt(d.addr + r.off) ELSE {d}
         /\ DataOf(r) = IF IsCode(d) THEN {} ELSE IF r.pc32 THEN DataAt(d.addr + r.off) ELSE {d}
<1>1. r.off \in Int /\ r.imm \in Nat
  BY SymbolConstants DEF Relocation
<1>2. r.pc32 => Reach(r) = r.off
  BY <1>1 DEF Followed, Reach
<1>3. ByAddress(r) = r.pc32
  BY SymbolConstants DEF Followed, ByAddress, Relocation
<1>4. CodeOf(r) = IF ~IsCode(d) THEN {} ELSE IF r.pc32 THEN CodeAt(d.addr + r.off) ELSE {d}
  BY <1>3 DEF CodeOf
<1>5. DataOf(r) = IF IsCode(d) THEN {} ELSE IF r.pc32 THEN DataAt(d.addr + r.off) ELSE {d}
  BY <1>3 DEF DataOf
<1> QED
  BY <1>2, <1>4, <1>5

-----------------------------------------------------------------------------
\* What was read so far is in the marks and references of every function whose
\* body it is in: a call of a blacklisted function, a reference to writable data.
RelocJudged(r) ==
  \A f \in DOMAIN fun : fun[f] \in CodeAt(r.at) /\ Clear(r) /\ Followed(r) =>
    /\ Hard(CodeOf(r)) => f \in tainted
    /\ \A d \in DataOf(r) : d.sec = "data" =>
         \E v \in writable : v \in DOMAIN syms /\ << f, v >> \in dataRefs /\ ~IsCode(syms[v]) /\ syms[v].file = d.file

InsnJudged(i) ==
  \A f \in DOMAIN fun :
    fun[f] \in CodeAt(i.at) /\ i.op = "call" /\ ~Relocated(i) /\ Hard(CodeAt(i.target)) => f \in tainted

\* The order of the phases, and what was saved.
Phases ==
  /\ pc = "symbols" => relocs = {}
  /\ pc \in {"symbols", "relocs"} => insns = {}
  /\ IF pc = "saved"
     THEN graph = [node |-> Needed, edge |-> {e \in adj \cup dataRefs : e[1] \in Safe /\ e[2] \in Needed}]
     ELSE graph = [node |-> {}, edge |-> {}]

Judged == /\ \A r \in relocs : RelocJudged(r)
          /\ \A i \in insns : InsnJudged(i)

\* A blacklisted name has one function: it won its name, and the search finds
\* a blacklisted function wherever only such ones are.
LEMMA HardFound ==
  ASSUME Settled, Ranged, SectionsApart, HardOnce, pc # "symbols", NEW va \in Int, Hard(CodeAt(va))
  PROVE  target_func_by_addr(va) # {} /\ target_func_by_addr(va) \subseteq HardBlacklist
<1>1. PICK s \in CodeAt(va) : s.name \in HardBlacklist
  BY DEF Hard, NamesOf
<1>2. s \in Entries /\ Defined(s) /\ IsCode(s) /\ s.name \notin Dotted
  BY <1>1 DEF CodeAt
<1>3. PICK i \in DOMAIN symtab : s = symtab[i]
  BY <1>2 DEF Entries
<1>4. Merged(s)
  <2>1. symtab \in Seq(Symbol) /\ todo = Len(symtab) + 1
    BY SymbolConstants DEF Settled
  <2> QED
    BY <1>3, <2>1 DEF Settled
<1> DEFINE won == syms[s.name]
<1>5. won \in Entries /\ Defined(won) /\ won.name = s.name
  <2>1. Defined(won)
    BY <1>2, <1>4 DEF Merged, should_replace_symbol
  <2>2. won.name = s.name
    BY <1>4 DEF Merged, Settled
  <2>3. won \in Entries \/ won \in SectionSymbols
    BY <1>4 DEF Merged, Ranged
  <2>4. won \notin SectionSymbols
    BY <1>3, <2>2, SymbolConstants DEF Settled
  <2> QED
    BY <2>1, <2>2, <2>3, <2>4
<1>6. won = s
  <2>1. PICK j \in DOMAIN symtab : won = symtab[j]
    BY <1>5 DEF Entries
  <2>2. symtab[i] = symtab[j]
    BY <1>1, <1>2, <1>3, <1>5, <2>1 DEF HardOnce, Settled
  <2> QED
    BY <1>3, <2>1, <2>2
<1>7. s.name \in DOMAIN fun /\ fun[s.name] = s
  <2>1. IsFunction(s.name)
    BY <1>2, <1>4, <1>6 DEF IsFunction, Merged
  <2> QED
    BY <2>1, <1>6 DEF Ranged
<1>8. /\ target_func_by_addr(va) # {}
      /\ \A m \in target_func_by_addr(va) : m \in DOMAIN fun /\ fun[m] \in CodeAt(va)
  BY <1>1, <1>7, CodeFound
<1>9. \A m \in DOMAIN fun : fun[m].name = m
  BY DEF Ranged, IsFunction, Settled
<1> QED
  BY <1>8, <1>9 DEF Hard, NamesOf

\* A function that is read of has its own start: it is no datum.
LEMMA FunctionIsCode ==
  ASSUME Ranged, pc # "symbols", NEW f \in DOMAIN fun
  PROVE  f \in DOMAIN syms /\ fun[f] = syms[f] /\ IsCode(syms[f]) /\ syms[f] \in Entries
  BY DEF Ranged, IsFunction

\* The relocation that is read is judged.
LEMMA RelocNew ==
  ASSUME Settled, Ranged, Ranged', SectionsApart, HardOnce, OwnSection, NEW r \in Relocations, add_edge_from_reloc(r)
  PROVE  RelocJudged(r)'
<1>0. symtab' = symtab /\ fun' = fun /\ object' = object /\ pc = "relocs" /\ pc' = "relocs"
  BY DEF add_edge_from_reloc, inputVars, rangeVars
<1>1. SUFFICES ASSUME NEW f \in DOMAIN fun, fun[f] \in CodeAt(r.at), Clear(r), Followed(r)
               PROVE  /\ Hard(CodeOf(r)) => f \in tainted'
                      /\ \A d \in DataOf(r) : d.sec = "data" =>
                           \E v \in writable' : /\ v \in DOMAIN syms' /\ << f, v >> \in dataRefs'
                                                /\ ~IsCode(syms'[v]) /\ syms'[v].file = d.file
  BY <1>0, InputsSame DEF RelocJudged, Followed, ByAddress, Hard, NamesOf, IsCode
<1>2. PICK d : d \in Meant(r)
  <2>1. Cardinality({}) = 0
    BY FS_EmptySet
  <2> QED
    BY <1>1, <2>1 DEF Clear
<1>3. Meant(r) = {d} /\ Defined(d)
  <2>1. PICK y : Meant(r) = {y}
    BY <1>1, MeantOne
  <2> QED
    BY <1>1, <1>2, <2>1 DEF Clear
<1>4. d.name \in DOMAIN syms' /\ syms'[d.name] = d
  BY <1>1, <1>2, RelocEdges
<1>5. PICK u \in DOMAIN fun :
              /\ fun[u].addr = fun[f].addr
              /\ \A v \in Imports(r, d) \cup Target(r, d) :
                   /\ IsCode(syms'[v]) /\ v \notin SoftIgnore \cup HardBlacklist /\ v # u /\ v # f => << f, v >> \in adj'
                   /\ ~IsCode(syms'[v]) /\ v # u /\ v # f => << f, v >> \in dataRefs'
                   /\ IsCode(syms'[v]) /\ v \in HardBlacklist => f \in tainted'
  BY <1>1, <1>2, RelocEdges
<1>6. r.off \in Int /\ d.addr \in Nat
  <2>1. r \in Relocation /\ r.sym \in Symbol
    BY SymbolConstants DEF Relocation
  <2>2. d \in Entries \/ d = r.sym
    BY <1>2 DEF Meant, Defs
  <2> QED
    BY <2>1, <2>2, EntryType DEF Relocation, Symbol
<1>7. \A n \in DOMAIN fun : n \in DOMAIN syms' /\ syms'[n] = fun[n] /\ IsCode(fun[n])
  BY <1>0 DEF Ranged, IsFunction
<1>8. ASSUME Hard(CodeOf(r)) PROVE f \in tainted'
  <2>1. CodeOf(r) = IF ~IsCode(d) THEN {} ELSE IF r.pc32 THEN CodeAt(d.addr + r.off) ELSE {d}
    BY <1>1, <1>3, FollowedReach
  <2>2. IsCode(d)
    BY <1>8, <2>1 DEF Hard
  <2>3. \E v \in Target(r, d) : v \in HardBlacklist /\ IsCode(syms'[v])
    <3>1. CASE r.pc32
      <4>1. PICK va \in Int : va = d.addr + r.off
        BY <1>6
      <4>2. Hard(CodeAt(va))
        BY <1>8, <2>1, <2>2, <3>1, <4>1
      <4>3. target_func_by_addr(va) # {} /\ target_func_by_addr(va) \subseteq HardBlacklist
        BY <4>2, <1>0, HardFound
      <4>4. Target(r, d) = target_func_by_addr(va)
        BY <1>1, <1>3, <2>2, <3>1, <4>1, <4>3, FollowedReach DEF Target
      <4>5. target_func_by_addr(va) \subseteq DOMAIN fun
        BY DEF target_func_by_addr, Nearest
      <4> QED
        BY <4>3, <4>4, <4>5, <1>7
    <3>2. CASE ~r.pc32
      <4>1. d.name \in HardBlacklist
        BY <1>8, <2>1, <2>2, <3>2 DEF Hard, NamesOf
      <4>2. Target(r, d) = {d.name}
        BY <3>2 DEF Target
      <4> QED
        BY <4>1, <4>2, <1>4, <2>2
    <3> QED
      BY <3>1, <3>2
  <2> QED
    BY <2>3, <1>5
<1>9. ASSUME NEW o \in DataOf(r), o.sec = "data"
      PROVE  \E v \in writable' : /\ v \in DOMAIN syms' /\ << f, v >> \in dataRefs'
                                  /\ ~IsCode(syms'[v]) /\ syms'[v].file = o.file
  <2>1. ~IsCode(d) /\ o \in IF r.pc32 THEN DataAt(d.addr + r.off) ELSE {d}
    BY <1>1, <1>3, <1>9, FollowedReach
  <2>2. ASSUME NEW v \in Target(r, d), v \in DOMAIN syms', syms'[v].sec = "data", ~IsCode(syms'[v]), syms'[v].file = o.file
        PROVE  \E w \in writable' : /\ w \in DOMAIN syms' /\ << f, w >> \in dataRefs'
                                    /\ ~IsCode(syms'[w]) /\ syms'[w].file = o.file
    <3>1. v \in writable'
      BY <2>2, <1>0 DEF Ranged, IsCode
    <3>2. v # u /\ v # f
      BY <2>2, <1>7
    <3> QED
      BY <2>2, <3>1, <3>2, <1>5
  <2>3. CASE ~r.pc32
    <3>1. Target(r, d) = {d.name} /\ o = d
      BY <2>1, <2>3 DEF Target
    <3> QED
      BY <3>1, <2>1, <2>2, <1>4, <1>9
  <2>4. CASE r.pc32
    <3>1. PICK va \in Int : va = d.addr + r.off
      BY <1>6
    <3>2. o \in Entries /\ Defined(o) /\ o.addr <= va /\ va < o.addr + o.size
      BY <2>1, <2>4, <3>1, <1>9 DEF DataAt, Defined, Undef
    <3>3. o.addr \in Nat /\ o.size \in Nat /\ End(o) \in Nat /\ o.addr + o.size <= End(o)
      BY <3>2, EntryType, EntriesApart
    <3>4. CASE target_data_by_addr(va) = {}
      <4>1. Target(r, d) = {d.name}
        BY <1>1, <2>1, <2>4, <3>1, <3>4, <1>3, FollowedReach DEF Target
      <4>2. o.file = d.file /\ o.sec = d.sec
        <5>1. PICK j \in DOMAIN symtab : o = symtab[j]
          BY <3>2 DEF Entries
        <5>2. d.name = r.sym.name /\ d \in {r.sym} \cup {symtab[i] : i \in DOMAIN symtab}
          BY <1>2 DEF Meant, Defs, Entries
        <5>3. symtab \in SymbolTables
          BY DEF Settled
        <5>4. va < End(o)
          BY <3>2, <3>3
        <5> QED
          BY <5>1, <5>2, <5>3, <5>4, <2>1, <2>4, <3>1, <3>2, <1>3 DEF OwnSection
      <4> QED
        BY <4>1, <4>2, <2>1, <2>2, <1>4, <1>9
    <3>5. CASE target_data_by_addr(va) # {}
      <4>1. PICK t : t \in target_data_by_addr(va)
        BY <3>5
      <4>2. t \in Target(r, d)
        BY <1>1, <4>1, <2>1, <2>4, <3>1, <3>5, <1>3, FollowedReach DEF Target
      <4>3. /\ t \in DOMAIN object /\ object[t] \in Entries /\ Defined(object[t])
            /\ object[t].addr <= va /\ va < End(object[t])
        BY <4>1, <1>0, DataFound
      <4>4. t \in DOMAIN syms' /\ syms'[t] = object[t] /\ ~IsCode(object[t])
        BY <4>3, <1>0 DEF Ranged, IsDatum
      <4>5. object[t].addr \in Nat /\ End(object[t]) \in Nat
        BY <4>3, EntryType
      <4>6. object[t].file = o.file /\ object[t].sec = o.sec
        <5>1. CASE object[t].addr <= o.addr
          <6>1. o.addr < End(object[t])
            BY <3>2, <3>3, <4>3, <4>5
          <6> QED
            BY <5>1, <6>1, <3>2, <4>3, EntriesApart
        <5>2. CASE o.addr <= object[t].addr
          <6>1. object[t].addr < End(o)
            BY <3>2, <3>3, <4>3, <4>5
          <6> QED
            BY <5>2, <6>1, <3>2, <4>3, EntriesApart
        <5> QED
          BY <5>1, <5>2, <3>3, <4>5
      <4> QED
        BY <2>2, <4>2, <4>4, <4>6, <1>9
    <3> QED
      BY <3>4, <3>5
  <2> QED
    BY <2>3, <2>4, SymbolConstants DEF Relocation
<1> QED
  BY <1>8, <1>9

\* The instruction that is read is judged.
LEMMA InsnNew ==
  ASSUME Settled, Ranged, SectionsApart, HardOnce, NEW i \in Instructions, add_edge_from_insn(i)
  PROVE  InsnJudged(i)'
<1>0. symtab' = symtab /\ fun' = fun /\ relocs' = relocs /\ pc = "insns"
  BY DEF add_edge_from_insn, inputVars, rangeVars
<1>1. SUFFICES ASSUME NEW f \in DOMAIN fun, fun[f] \in CodeAt(i.at), i.op = "call", ~Relocated(i), Hard(CodeAt(i.target))
               PROVE  f \in tainted'
  BY <1>0, InputsSame DEF InsnJudged, Hard, NamesOf, Relocated
<1>2. i.at \in Int /\ i.target \in Int
  BY InputConstants DEF Instruction
<1>3. /\ target_func_by_addr(i.at) # {}
      /\ \A m \in target_func_by_addr(i.at) : m \in DOMAIN fun /\ fun[m].addr = fun[f].addr
  BY <1>0, <1>1, <1>2, CodeFound
<1>4. target_func_by_addr(i.target) # {} /\ target_func_by_addr(i.target) \subseteq HardBlacklist
  BY <1>0, <1>1, <1>2, HardFound
<1>5. PICK u \in target_func_by_addr(i.at) : tainted' = tainted \cup mark_calls_blacklisted(u)
  BY <1>1, <1>3, <1>4 DEF add_edge_from_insn
<1> QED
  BY <1>3, <1>5 DEF mark_calls_blacklisted, alias_group

-----------------------------------------------------------------------------
\* After the ranges are built the tables only grow.
Grows ==
  /\ UNCHANGED << symtab, fun, object, last >>
  /\ \A n \in DOMAIN syms : n \in DOMAIN syms' /\ syms'[n] = syms[n]
  /\ adj \subseteq adj' /\ dataRefs \subseteq dataRefs' /\ tainted \subseteq tainted' /\ writable \subseteq writable'

LEMMA StepGrows ==
  ASSUME Settled, pc # "symbols", [Next]_vars
  PROVE  Grows /\ pc' # "symbols"
<1>1. \A n \in DOMAIN syms : syms'[n] = syms[n]
  BY StepSettled
<1>2. ASSUME NEW r \in Relocations, add_edge_from_reloc(r) PROVE Grows /\ pc' # "symbols"
  <2>1. \A n \in DOMAIN syms : n \in DOMAIN syms'
    <3>1. CASE syms' = add_symbol(r.sym)
      <4>1. PICK s : s = r.sym
        OBVIOUS
      <4>2. \A n \in DOMAIN syms : syms[n].name = n
        BY DEF Settled
      <4>3. DOMAIN syms' = DOMAIN syms \cup {s.name}
        BY <3>1, <4>1, <4>2, AddSymbol
      <4> QED
        BY <4>3
    <3>2. CASE UNCHANGED syms
      BY <3>2
    <3> QED
      BY <1>2, <3>1, <3>2 DEF add_edge_from_reloc
  <2>2. adj \subseteq adj' /\ dataRefs \subseteq dataRefs' /\ tainted \subseteq tainted' /\ writable \subseteq writable'
    BY <1>2 DEF add_edge_from_reloc
  <2>3. UNCHANGED << symtab, fun, object, last, pc >>
    BY <1>2 DEF add_edge_from_reloc, inputVars, rangeVars
  <2> QED
    BY <1>1, <2>1, <2>2, <2>3 DEF Grows
<1>3. CASE Later
  <2>1. UNCHANGED << symtab, syms, writable, fun, object, last, dataRefs >> /\ pc' # "symbols"
    BY <1>3, LaterKeeps
  <2>2. adj \subseteq adj' /\ tainted \subseteq tainted'
    <3> USE DEF edgeVars
    <3>1. CASE relocs_done
      BY <3>1 DEF relocs_done
    <3>2. CASE save
      BY <3>2 DEF save
    <3>3. CASE \E i \in Instructions : add_edge_from_insn(i)
      BY <3>3 DEF add_edge_from_insn
    <3>4. CASE \E n \in Names : query(n)
      BY <3>4 DEF query
    <3>5. CASE \E u \in stack : visit(u)
      BY <3>5 DEF visit
    <3>6. CASE UNCHANGED vars
      BY <3>6 DEF vars
    <3> QED
      BY <1>3, <3>1, <3>2, <3>3, <3>4, <3>5, <3>6 DEF Later
  <2> QED
    BY <2>1, <2>2 DEF Grows
<1> QED
  BY <1>2, <1>3 DEF Next, Later, collect_symbol, build_ranges

LEMMA StepPhases ==
  ASSUME Phases, [Next]_vars
  PROVE  Phases'
<1> USE DEF inputVars, symVars, rangeVars, edgeVars, queryVars
<1>1. CASE save
  <2>1. pc = "insns" /\ UNCHANGED << relocs, insns, syms, writable, tainted, adj, dataRefs >> /\ pc' \in {"failed", "saved"}
    BY <1>1 DEF save
  <2>2. Safe' = Safe
    BY <2>1 DEF Safe, data_refs_ok, IsCode, Defined
  <2>3. Needed' = Needed
    BY <2>1, <2>2 DEF Needed, Leaves, IsCode, Defined
  <2>4. pc' = "saved" => graph' = [node |-> Needed, edge |-> {e \in adj \cup dataRefs : e[1] \in Safe /\ e[2] \in Needed}]
    BY <1>1 DEF save
  <2>5. pc' = "failed" => graph' = graph
    BY <1>1 DEF save
  <2> QED
    BY <2>1, <2>2, <2>3, <2>4, <2>5 DEF Phases
<1>2. CASE pc # "saved" /\ pc' # "saved" /\ UNCHANGED graph
             /\ (pc' = "symbols" => relocs' = {}) /\ (pc' \in {"symbols", "relocs"} => insns' = {})
  BY <1>2 DEF Phases
<1>3. CASE UNCHANGED << pc, relocs, insns, syms, writable, tainted, adj, dataRefs, graph >>
  <2>1. Safe' = Safe
    BY <1>3 DEF Safe, data_refs_ok, IsCode, Defined
  <2>2. Needed' = Needed
    BY <1>3, <2>1 DEF Needed, Leaves, IsCode, Defined
  <2> QED
    BY <1>3, <2>1, <2>2 DEF Phases
<1>4. CASE collect_symbol
  BY <1>2, <1>4 DEF collect_symbol, Phases
<1>5. CASE build_ranges
  BY <1>2, <1>5 DEF build_ranges, Phases
<1>6. CASE \E r \in Relocations : add_edge_from_reloc(r)
  BY <1>2, <1>6 DEF add_edge_from_reloc, Phases
<1>7. CASE relocs_done
  BY <1>2, <1>7 DEF relocs_done, Phases
<1>8. CASE \E i \in Instructions : add_edge_from_insn(i)
  BY <1>2, <1>8 DEF add_edge_from_insn, Phases
<1>9. CASE \E n \in Names : query(n)
  BY <1>3, <1>9 DEF query
<1>10. CASE \E u \in stack : visit(u)
  BY <1>3, <1>10 DEF visit
<1>11. CASE UNCHANGED vars
  BY <1>3, <1>11 DEF vars
<1> QED
  BY <1>1, <1>4, <1>5, <1>6, <1>7, <1>8, <1>9, <1>10, <1>11 DEF Next

\* What was judged stays judged.
LEMMA JudgedStays ==
  ASSUME Grows
  PROVE  /\ \A r : RelocJudged(r) => RelocJudged(r)'
         /\ \A i : relocs' = relocs /\ InsnJudged(i) => InsnJudged(i)'
<1>0. symtab' = symtab /\ fun' = fun
  BY DEF Grows
<1>1. ASSUME NEW r, RelocJudged(r) PROVE RelocJudged(r)'
  <2>1. SUFFICES ASSUME NEW f \in DOMAIN fun, fun[f] \in CodeAt(r.at), Clear(r), Followed(r)
                 PROVE  /\ Hard(CodeOf(r)) => f \in tainted'
                        /\ \A d \in DataOf(r) : d.sec = "data" =>
                             \E v \in writable' : /\ v \in DOMAIN syms' /\ << f, v >> \in dataRefs'
                                                  /\ ~IsCode(syms'[v]) /\ syms'[v].file = d.file
    BY SMTT(60), <1>0, InputsSame DEF RelocJudged, Followed, ByAddress, Hard, NamesOf, IsCode
  <2>2. /\ Hard(CodeOf(r)) => f \in tainted
        /\ \A d \in DataOf(r) : d.sec = "data" =>
             \E v \in writable : v \in DOMAIN syms /\ << f, v >> \in dataRefs /\ ~IsCode(syms[v]) /\ syms[v].file = d.file
    BY <1>1, <2>1 DEF RelocJudged
  <2> QED
    BY <2>2 DEF Grows
<1>2. ASSUME NEW i, relocs' = relocs, InsnJudged(i) PROVE InsnJudged(i)'
  <2>1. SUFFICES ASSUME NEW f \in DOMAIN fun, fun[f] \in CodeAt(i.at), i.op = "call", ~Relocated(i), Hard(CodeAt(i.target))
                 PROVE  f \in tainted'
    BY <1>0, <1>2, InputsSame DEF InsnJudged, Hard, NamesOf, Relocated
  <2> QED
    BY <1>2, <2>1 DEF InsnJudged, Grows
<1> QED
  BY <1>1, <1>2

\* What a step reads: nothing, one relocation or one instruction.
LEMMA Reads ==
  ASSUME Phases, pc # "symbols", [Next]_vars
  PROVE  \/ \E r \in Relocations : add_edge_from_reloc(r) /\ relocs' = relocs \cup {r} /\ insns = {} /\ insns' = {}
         \/ \E i \in Instructions : add_edge_from_insn(i) /\ insns' = insns \cup {i} /\ relocs' = relocs
         \/ UNCHANGED << relocs, insns >>
<1>1. CASE \E r \in Relocations : add_edge_from_reloc(r)
  BY <1>1 DEF add_edge_from_reloc, Phases
<1>2. CASE \E i \in Instructions : add_edge_from_insn(i)
  BY <1>2 DEF add_edge_from_insn
<1>3. CASE UNCHANGED << relocs, insns >>
  BY <1>3
<1>4. CASE relocs_done \/ save \/ (\E n \in Names : query(n)) \/ (\E u \in stack : visit(u)) \/ UNCHANGED vars
  BY <1>3, <1>4 DEF relocs_done, save, query, visit, edgeVars, vars
<1> QED
  BY <1>1, <1>2, <1>3, <1>4 DEF Next, collect_symbol, build_ranges

LEMMA NothingRead ==
  ASSUME Phases, pc = "symbols", [Next]_vars
  PROVE  relocs' = {} /\ insns' = {}
<1>1. relocs = {} /\ insns = {}
  BY DEF Phases
<1>2. CASE collect_symbol
  BY <1>1, <1>2 DEF collect_symbol, edgeVars
<1>3. CASE build_ranges
  BY <1>1, <1>3 DEF build_ranges, edgeVars
<1>4. CASE (\E n \in Names : query(n)) \/ (\E u \in stack : visit(u)) \/ UNCHANGED vars
  BY <1>1, <1>4 DEF query, visit, vars, edgeVars
<1> QED
  BY <1>2, <1>3, <1>4 DEF Next, add_edge_from_reloc, relocs_done, add_edge_from_insn, save

LEMMA StepJudged ==
  ASSUME SectionsApart, HardOnce, OwnSection, Settled, Ranged, Ranged', Phases, Judged, [Next]_vars
  PROVE  Judged'
<1>1. CASE pc = "symbols"
  BY <1>1, NothingRead DEF Judged
<1>2. CASE pc # "symbols"
  <2>1. Grows
    BY <1>2, StepGrows
  <2>2. /\ \A r : RelocJudged(r) => RelocJudged(r)'
        /\ \A i : relocs' = relocs /\ InsnJudged(i) => InsnJudged(i)'
    BY <2>1, JudgedStays
  <2>3. ASSUME NEW r \in Relocations, add_edge_from_reloc(r), relocs' = relocs \cup {r}, insns' = {} PROVE Judged'
    <3>1. RelocJudged(r)'
      BY <2>3, RelocNew
    <3> QED
      BY <2>2, <2>3, <3>1 DEF Judged
  <2>4. ASSUME NEW i \in Instructions, add_edge_from_insn(i), insns' = insns \cup {i}, relocs' = relocs PROVE Judged'
    <3>1. InsnJudged(i)'
      BY <2>4, InsnNew
    <3> QED
      BY <2>2, <2>4, <3>1 DEF Judged
  <2>5. CASE UNCHANGED << relocs, insns >>
    BY <2>2, <2>5 DEF Judged
  <2> QED
    BY <2>3, <2>4, <2>5, <1>2, Reads
<1> QED
  BY <1>1, <1>2

\* What the proofs so far have of every state.
Known == Settled /\ Closing /\ IType /\ Ranged /\ Phases

LEMMA AlwaysKnown == Spec => []Known
<1>1. Init => Known
  <2>1. Init => Phases
    BY DEF Init, Phases
  <2>2. Init => Closing
    BY DEF Init, Closing
  <2> QED
    BY <2>1, <2>2, InitSettled, InitIType, InitRanged DEF Known
<1>2. Known /\ [Next]_vars => Known'
  BY StepSettled, StepClosing, StepIType, StepRanged, StepPhases DEF Known
<1> QED
  BY <1>1, <1>2, PTL DEF Spec

\* Whatever the files are, if their sections do not overlap, no two functions
\* have one blacklisted name and relative relocations stay in the section of
\* their symbol: a function that the graph lists dependencies of calls nothing
\* blacklisted and refers to no writable data but its own module's, under
\* whichever of its names prune_to_safe_subgraph judged it.
THEOREM OnlySafeExpanded ==
  ASSUME SectionsApart, HardOnce, OwnSection
  PROVE  Spec => []SafeExpanded
<1>1. Init => Judged
  BY DEF Init, Judged
<1>2. Known /\ Judged /\ [Next]_vars => Judged'
  <2> SUFFICES ASSUME Known, Judged, [Next]_vars PROVE Judged'
    OBVIOUS
  <2>1. Settled /\ Ranged /\ Phases
    BY DEF Known
  <2>2. Ranged'
    BY <2>1, StepRanged
  <2> QED
    BY <2>1, <2>2, StepJudged
<1>3. Known /\ Judged => SafeExpanded
  <2> SUFFICES ASSUME Known, Judged, NEW e \in graph.edge, NEW f, f = e[1]
               PROVE  /\ \A r \in relocs : InBody(f, r.at) /\ Clear(r) /\ Followed(r) =>
                           /\ ~Hard(CodeOf(r))
                           /\ \A d \in DataOf(r) : d.sec = "data" => d.file # Kernel /\ d.file = syms[f].file
                      /\ \A i \in insns : InBody(f, i.at) /\ i.op = "call" /\ ~Relocated(i) => ~Hard(CodeAt(i.target))
    BY DEF SafeExpanded
  <2>1. f \in Safe /\ pc = "saved" /\ e \in adj \cup dataRefs
    BY DEF Known, Phases
  <2>2. f \in DOMAIN fun
    BY <2>1 DEF Known, IType, EdgeType
  <2>3. f \in DOMAIN syms /\ fun[f] = syms[f]
    BY <2>1, <2>2, FunctionIsCode DEF Known
  <2>4. f \notin tainted /\ data_refs_ok(f)
    BY <2>1 DEF Safe
  <2>5. ASSUME NEW r \in relocs, InBody(f, r.at), Clear(r), Followed(r)
        PROVE  /\ ~Hard(CodeOf(r))
               /\ \A d \in DataOf(r) : d.sec = "data" => d.file # Kernel /\ d.file = syms[f].file
    <3>1. /\ Hard(CodeOf(r)) => f \in tainted
          /\ \A d \in DataOf(r) : d.sec = "data" =>
               \E v \in writable : v \in DOMAIN syms /\ << f, v >> \in dataRefs /\ ~IsCode(syms[v]) /\ syms[v].file = d.file
      BY <2>2, <2>3, <2>5 DEF Judged, RelocJudged, InBody
    <3> QED
      BY <2>4, <3>1 DEF data_refs_ok
  <2>6. ASSUME NEW i \in insns, InBody(f, i.at), i.op = "call", ~Relocated(i) PROVE ~Hard(CodeAt(i.target))
    BY <2>2, <2>3, <2>4, <2>6 DEF Judged, InsnJudged, InBody
  <2> QED
    BY <2>5, <2>6
<1> QED
  BY <1>1, <1>2, <1>3, AlwaysKnown, PTL DEF Spec

-----------------------------------------------------------------------------
\* What krg keeps of the data: the symbols of data sections are data, do not
\* overlap but for other names of one start, and have no name with a dot, nor
\* has any other symbol that is no code; no list of the tool has such a name.
DataApart ==
  /\ Dotted \cap (HardBlacklist \cup SoftIgnore) = {}
  /\ \A tab \in SymbolTables : \A i, j \in DOMAIN tab :
       LET s == tab[i]
           o == tab[j]
       IN  /\ Defined(s) /\ ~IsCode(s) => s.name \notin Dotted
           /\ s.sec \in {"rodata", "data"} => ~IsCode(s)
           /\ s.sec \in {"rodata", "data"} /\ o.sec \in {"rodata", "data"} /\ s.addr <= o.addr /\ o.addr < s.addr + s.size
                => o.addr = s.addr /\ o.size \in {0, s.size}

\* f has an edge to what starts where s does, if it does not start there itself.
EdgeTo(f, s) ==
  \/ fun[f].addr = s.addr
  \/ \E v \in DOMAIN syms : /\ syms[v].addr = s.addr /\ Defined(syms[v])
                            /\ \/ IsCode(syms[v]) /\ << f, v >> \in adj
                               \/ ~IsCode(syms[v]) /\ v \notin Dotted /\ << f, v >> \in dataRefs

RelocListed(r) ==
  \A f \in DOMAIN fun : fun[f] \in CodeAt(r.at) /\ Clear(r) /\ Followed(r) =>
    \A s \in Owed(CodeOf(r) \cup DataOf(r) \cup ImportsOf(r)) : EdgeTo(f, s)

InsnListed(i) ==
  \A f \in DOMAIN fun : fun[f] \in CodeAt(i.at) /\ i.op # "jcc" /\ ~Relocated(i) => \A s \in Owed(CodeAt(i.target)) : EdgeTo(f, s)

Listed == /\ \A r \in relocs : RelocListed(r)
          /\ \A i \in insns : InsnListed(i)

\* A name with one definition is that definition's.
LEMMA OnlyDefinition ==
  ASSUME Settled, Ranged, pc # "symbols", NEW s \in Entries, Defined(s), Cardinality(Defs(s.name)) = 1
  PROVE  s.name \in DOMAIN syms /\ syms[s.name] = s
<1>1. PICK i \in DOMAIN symtab : s = symtab[i]
  BY DEF Entries
<1>2. Merged(s)
  <2>1. symtab \in Seq(Symbol) /\ todo = Len(symtab) + 1
    BY SymbolConstants DEF Settled
  <2> QED
    BY <1>1, <2>1 DEF Settled
<1> DEFINE won == syms[s.name]
<1>3. won \in Entries /\ Defined(won) /\ won.name = s.name
  <2>1. Defined(won)
    BY <1>2 DEF Merged, should_replace_symbol
  <2>2. won.name = s.name
    BY <1>2 DEF Merged, Settled
  <2>3. won \in Entries \/ won \in SectionSymbols
    BY <1>2 DEF Merged, Ranged
  <2>4. won \notin SectionSymbols
    BY <1>1, <2>2, SymbolConstants DEF Settled
  <2> QED
    BY <2>1, <2>2, <2>3, <2>4
<1>4. PICK y : Defs(s.name) = {y}
  <2>1. Defs(s.name) \in SUBSET Entries
    BY DEF Defs
  <2>2. IsFiniteSet(Defs(s.name))
    BY <2>1, EntriesFinite, FS_Subset
  <2> QED
    BY <2>2, FS_Singleton
<1>5. s \in Defs(s.name) /\ won \in Defs(s.name)
  BY <1>3 DEF Defs
<1> QED
  BY <1>2, <1>4, <1>5 DEF Merged

\* A function is at its own start.
LEMMA AtStart ==
  ASSUME Settled, SectionsApart, NEW s \in Entries, Defined(s), IsCode(s), s.name \notin Dotted
  PROVE  s \in CodeAt(s.addr)
<1>1. s.addr \in Nat /\ s.addr <= s.addr /\ s.addr < End(s)
  BY EntryType, EntriesApart
<1> QED
  BY <1>1 DEF CodeAt

\* Where an owed function is, the search returns names that start with it and
\* that no list filters.
LEMMA OwedFound ==
  ASSUME Settled, Ranged, SectionsApart, pc # "symbols", NEW va \in Int, NEW s \in Owed(CodeAt(va))
  PROVE  /\ target_func_by_addr(va) # {}
         /\ \A m \in target_func_by_addr(va) : /\ m \in DOMAIN fun /\ fun[m].addr = s.addr
                                               /\ m \notin HardBlacklist \cup SoftIgnore
<1>1. s \in CodeAt(va) /\ s \in Entries /\ Defined(s) /\ IsCode(s) /\ s.name \notin Dotted
      /\ Cardinality(Defs(s.name)) = 1 /\ Unfiltered(s)
  BY DEF Owed, CodeAt
<1>2. s.name \in DOMAIN syms /\ syms[s.name] = s
  BY <1>1, OnlyDefinition
<1>3. s.name \in DOMAIN fun /\ fun[s.name] = s
  BY <1>1, <1>2 DEF Ranged, IsFunction
<1>4. /\ target_func_by_addr(va) # {}
      /\ \A m \in target_func_by_addr(va) : m \in DOMAIN fun /\ fun[m].addr = s.addr
  BY <1>1, <1>3, CodeFound
<1>5. ASSUME NEW m \in target_func_by_addr(va) PROVE m \notin HardBlacklist \cup SoftIgnore
  <2>1. m \in DOMAIN fun /\ fun[m].addr = s.addr
    BY <1>4
  <2>2. fun[m] \in Entries /\ Defined(fun[m]) /\ IsCode(fun[m]) /\ fun[m].name = m /\ m \notin Dotted
    BY <2>1 DEF Ranged, IsFunction, Settled
  <2>3. fun[m] \in CodeAt(fun[m].addr)
    BY <2>2, AtStart
  <2>4. m \in NamesOf(CodeAt(s.addr))
    BY <2>1, <2>2, <2>3 DEF NamesOf
  <2> QED
    BY <1>1, <2>4 DEF Unfiltered
<1> QED
  BY <1>4, <1>5

\* Where an owed datum is, the search returns names that start with it.
LEMMA OwedDatum ==
  ASSUME Settled, Ranged, SectionsApart, DataApart, pc # "symbols", NEW va \in Int, NEW s \in Owed(DataAt(va))
  PROVE  /\ target_data_by_addr(va) # {}
         /\ \A t \in target_data_by_addr(va) : t \in DOMAIN object /\ object[t].addr = s.addr
<1>1. s \in Entries /\ s.sec \in {"rodata", "data"} /\ s.name \notin Dotted /\ s.addr <= va /\ va < s.addr + s.size
      /\ Cardinality(Defs(s.name)) = 1
  BY DEF Owed, DataAt
<1>2. \A x, o \in Entries :
           /\ x.sec \in {"rodata", "data"} => ~IsCode(x)
           /\ x.sec \in {"rodata", "data"} /\ o.sec \in {"rodata", "data"} /\ x.addr <= o.addr /\ o.addr < x.addr + x.size
                => o.addr = x.addr /\ o.size \in {0, x.size}
  BY DEF DataApart, Entries, Settled
<1>3. Defined(s)
  BY <1>1 DEF Defined, Undef
<1>4. s.name \in DOMAIN object /\ object[s.name] = s
  BY <1>1, <1>2, <1>3, OnlyDefinition DEF Ranged, IsDatum
<1>5. \A n \in DOMAIN object : /\ object[n] \in Entries /\ Defined(object[n]) /\ object[n].sec \in {"rodata", "data"}
  BY DEF Ranged, IsDatum, Defined, Undef
<1>6. \A n \in DOMAIN object : object[n].addr \in Nat /\ object[n].size \in Nat /\ End(object[n]) \in Nat
  BY <1>5, EntryType
<1>7. s.addr \in Nat /\ s.size \in Nat /\ End(s) \in Nat /\ s.addr + s.size <= End(s)
  BY <1>1, <1>3, EntryType, EntriesApart
<1>8. \A n \in DOMAIN object : object[n].addr <= va => object[n].addr <= s.addr
  <2> SUFFICES ASSUME NEW n \in DOMAIN object, object[n].addr <= va, s.addr < object[n].addr PROVE FALSE
    BY <1>6, <1>7
  <2>1. s.addr <= object[n].addr /\ object[n].addr < s.addr + s.size
    BY <1>1, <1>6, <1>7
  <2>2. object[n].addr = s.addr
    BY <2>1, <1>1, <1>2, <1>5
  <2> QED
    BY <2>2, <1>7
<1>9. PICK t0 \in last \cap DOMAIN object : object[t0].addr = s.addr
  BY <1>4 DEF Ranged, LastOfEach
<1>10. t0 \in Nearest(object, va)
  <2>1. object[t0].addr <= va
    BY <1>1, <1>9
  <2>2. \A o \in DOMAIN object \cap last : object[o].addr <= va => object[o].addr <= object[t0].addr
    BY <1>8, <1>9
  <2> QED
    BY <2>1, <2>2, <1>9 DEF Nearest
<1>11. t0 \in target_data_by_addr(va)
  <2>1. s.addr <= object[t0].addr /\ object[t0].addr < s.addr + s.size
    BY <1>1, <1>7, <1>9
  <2>2. object[t0].size \in {0, s.size}
    BY <2>1, <1>1, <1>2, <1>5, <1>9
  <2>3. End(object[t0]) = End(s)
    <3>1. object[t0].addr < End(s)
      BY <2>1, <1>6, <1>7, <1>9
    <3> QED
      BY <2>1, <3>1, <1>1, <1>3, <1>5, <1>9, EntriesApart
  <2>4. va < IF object[t0].size # 0 THEN object[t0].addr + object[t0].size ELSE End(object[t0])
    BY <2>2, <2>3, <1>1, <1>7, <1>9
  <2> QED
    BY <2>4, <1>10 DEF target_data_by_addr
<1>12. ASSUME NEW t \in target_data_by_addr(va) PROVE t \in DOMAIN object /\ object[t].addr = s.addr
  <2>1. /\ t \in DOMAIN object /\ object[t].addr <= va
        /\ \A o \in DOMAIN object \cap last : object[o].addr <= va => object[o].addr <= object[t].addr
    BY DEF target_data_by_addr, Nearest
  <2>2. s.addr <= object[t].addr
    BY <2>1, <1>1, <1>9
  <2>3. object[t].addr <= s.addr
    BY <2>1, <1>8
  <2> QED
    BY <2>1, <2>2, <2>3, <1>6, <1>7
<1> QED
  BY <1>11, <1>12

\* The relocation that is read is listed.
LEMMA RelocListedNew ==
  ASSUME Settled, Ranged, Ranged', SectionsApart, DataApart, NEW r \in Relocations, add_edge_from_reloc(r)
  PROVE  RelocListed(r)'
<1>0. symtab' = symtab /\ fun' = fun /\ object' = object /\ pc = "relocs" /\ pc' = "relocs"
  BY DEF add_edge_from_reloc, inputVars, rangeVars
<1>1. SUFFICES ASSUME NEW f \in DOMAIN fun, fun[f] \in CodeAt(r.at), Clear(r), Followed(r),
                      NEW s \in Owed(CodeOf(r) \cup DataOf(r) \cup ImportsOf(r))
               PROVE  EdgeTo(f, s)'
  BY <1>0, InputsSame DEF RelocListed, Followed, ByAddress, Owed, Unfiltered, NamesOf, IsCode
<1>2. PICK d : Meant(r) = {d}
  BY <1>1, MeantOne
<1>3. Defined(d) /\ d \in Meant(r)
  BY <1>1, <1>2 DEF Clear
<1>4. d.name \in DOMAIN syms' /\ syms'[d.name] = d
  BY <1>1, <1>3, RelocEdges
<1>5. PICK u \in DOMAIN fun :
              /\ fun[u].addr = fun[f].addr
              /\ \A v \in Imports(r, d) \cup Target(r, d) :
                   /\ IsCode(syms'[v]) /\ v \notin SoftIgnore \cup HardBlacklist /\ v # u /\ v # f => << f, v >> \in adj'
                   /\ ~IsCode(syms'[v]) /\ v # u /\ v # f => << f, v >> \in dataRefs'
                   /\ IsCode(syms'[v]) /\ v \in HardBlacklist => f \in tainted'
  BY <1>1, <1>3, RelocEdges
<1>6. r.off \in Int /\ d.addr \in Nat /\ r.pc32 \in BOOLEAN
  <2>1. r \in Relocation /\ r.sym \in Symbol
    BY SymbolConstants DEF Relocation
  <2>2. d \in Entries \/ d = r.sym
    BY <1>3 DEF Meant, Defs
  <2> QED
    BY <2>1, <2>2, EntryType DEF Relocation, Symbol
<1>7. PICK va \in Int : va = d.addr + r.off
  BY <1>6
<1>8. \A n \in DOMAIN fun : n \in DOMAIN syms' /\ syms'[n] = fun[n] /\ IsCode(fun[n]) /\ Defined(fun[n])
  BY <1>0 DEF Ranged, IsFunction
<1>9. \A n \in DOMAIN object : n \in DOMAIN syms' /\ syms'[n] = object[n] /\ ~IsCode(object[n]) /\ Defined(object[n])
                               /\ n \notin Dotted
  BY <1>0 DEF Ranged, IsDatum, Defined, Undef
<1>10. \A x \in Entries : Defined(x) /\ ~IsCode(x) => x.name \notin Dotted
  BY DEF DataApart, Entries, Settled
<1>11. \A x \in Entries : x.sec \in {"rodata", "data"} => ~IsCode(x)
  BY DEF DataApart, Entries, Settled
<1>12. Dotted \cap (HardBlacklist \cup SoftIgnore) = {}
  BY DEF DataApart
<1>13. ASSUME NEW v \in Imports(r, d) \cup Target(r, d), v \in DOMAIN syms', syms'[v].addr = s.addr, Defined(syms'[v]),
              IsCode(syms'[v]) => v \notin HardBlacklist \cup SoftIgnore,
              ~IsCode(syms'[v]) => v \notin Dotted
       PROVE  EdgeTo(f, s)'
  <2>1. CASE v \in {u, f}
    <3>1. fun[v].addr = s.addr
      BY <2>1, <1>13, <1>8
    <3> QED
      BY <2>1, <3>1, <1>0, <1>5 DEF EdgeTo
  <2>2. CASE v \notin {u, f}
    <3>1. \/ IsCode(syms'[v]) /\ << f, v >> \in adj'
          \/ ~IsCode(syms'[v]) /\ v \notin Dotted /\ << f, v >> \in dataRefs'
      BY <2>2, <1>13, <1>5
    <3> QED
      BY <3>1, <1>13 DEF EdgeTo, Defined, IsCode
  <2> QED
    BY <2>1, <2>2
<1>14. Cardinality(Defs(s.name)) = 1 /\ (IsCode(s) => Unfiltered(s))
  BY <1>1 DEF Owed
<1>15. s \in Entries /\ Defined(s)
  <2>1. Defs(s.name) # {}
    <3>1. Cardinality({}) = 0
      BY FS_EmptySet
    <3> QED
      BY <3>1, <1>14
  <2>2. CASE s = d
    <3>1. d \in Defs(r.sym.name) \/ Defs(d.name) = {}
      BY <1>3 DEF Meant
    <3> QED
      BY <2>1, <2>2, <3>1, <1>3 DEF Defs
  <2>3. CASE s # d
    <3>1. s \in CodeAt(va) \/ s \in DataAt(va) \/ \E n : s \in Defs(n)
      BY <2>3, <1>1, <1>2, <1>7, FollowedReach DEF Owed, ImportsOf
    <3> QED
      BY <3>1 DEF CodeAt, DataAt, Defs, Defined, Undef
  <2> QED
    BY <2>2, <2>3
<1>16. s.name \in DOMAIN syms' /\ syms'[s.name] = s
  <2>1. s.name \in DOMAIN syms /\ syms[s.name] = s
    BY <1>0, <1>14, <1>15, OnlyDefinition
  <2>2. Grows
    BY <1>0, StepGrows DEF Next
  <2> QED
    BY <2>1, <2>2 DEF Grows
<1>17. ASSUME s.name \in Imports(r, d) \cup Target(r, d) PROVE EdgeTo(f, s)'
  <2>1. IsCode(s) => s.name \notin HardBlacklist \cup SoftIgnore
    <3>1. CASE s.name \in Dotted
      BY <3>1, <1>12
    <3>2. CASE s.name \notin Dotted /\ IsCode(s)
      <4>1. s \in CodeAt(s.addr)
        BY <3>2, <1>15, AtStart
      <4> QED
        BY <3>2, <4>1, <1>14 DEF Unfiltered, NamesOf
    <3> QED
      BY <3>1, <3>2
  <2>2. PICK v \in Imports(r, d) \cup Target(r, d) : v = s.name
    BY <1>17
  <2>3. /\ IsCode(syms'[v]) => v \notin HardBlacklist \cup SoftIgnore
        /\ ~IsCode(syms'[v]) => v \notin Dotted
    BY <2>1, <2>2, <1>10, <1>15, <1>16
  <2> QED
    BY <2>2, <2>3, <1>13, <1>15, <1>16
<1>18. CASE s \in CodeOf(r)
  <2>1. IsCode(d) /\ s \in IF r.pc32 THEN CodeAt(va) ELSE {d}
    BY <1>1, <1>2, <1>7, <1>18, FollowedReach
  <2>2. CASE r.pc32
    <3>1. s \in Owed(CodeAt(va))
      BY <2>1, <2>2, <1>14 DEF Owed
    <3>2. /\ target_func_by_addr(va) # {}
          /\ \A m \in target_func_by_addr(va) : /\ m \in DOMAIN fun /\ fun[m].addr = s.addr
                                                /\ m \notin HardBlacklist \cup SoftIgnore
      BY <3>1, <1>0, OwedFound
    <3>3. PICK m : m \in target_func_by_addr(va)
      BY <3>2
    <3>4. m \in Target(r, d)
      BY <1>1, <1>2, <2>1, <2>2, <3>3, <1>7, FollowedReach DEF Target
    <3> QED
      BY <3>2, <3>3, <3>4, <1>8, <1>13
  <2>3. CASE ~r.pc32
    <3>1. s.name \in Target(r, d)
      BY <2>1, <2>3 DEF Target
    <3> QED
      BY <3>1, <1>17
  <2> QED
    BY <2>2, <2>3, <1>6
<1>19. CASE s \in DataOf(r)
  <2>1. ~IsCode(d) /\ s \in IF r.pc32 THEN DataAt(va) ELSE {d}
    BY <1>1, <1>2, <1>7, <1>19, FollowedReach
  <2>2. CASE r.pc32
    <3>1. s \in Owed(DataAt(va))
      BY <2>1, <2>2, <1>14 DEF Owed
    <3>2. /\ target_data_by_addr(va) # {}
          /\ \A t \in target_data_by_addr(va) : t \in DOMAIN object /\ object[t].addr = s.addr
      BY <3>1, <1>0, OwedDatum
    <3>3. PICK t : t \in target_data_by_addr(va)
      BY <3>2
    <3>4. t \in Target(r, d)
      BY <1>1, <1>2, <2>1, <2>2, <3>3, <1>3, <1>7, FollowedReach DEF Target
    <3> QED
      BY <3>2, <3>3, <3>4, <1>9, <1>13
  <2>3. CASE ~r.pc32
    <3>1. s.name \in Target(r, d)
      BY <2>1, <2>3 DEF Target
    <3> QED
      BY <3>1, <1>17
  <2> QED
    BY <2>2, <2>3, <1>6
<1>20. CASE s \in ImportsOf(r)
  <2>1. PICK i \in ImportSlots : /\ s \in Defs(i.import) /\ r.pc32 /\ d.sec = "data" /\ i.file = d.file
                                 /\ i.addr = d.addr + r.off
    BY <1>2, <1>20 DEF ImportsOf
  <2>2. s.name = i.import /\ s.name \in DOMAIN syms
    <3>1. s.name \in DOMAIN syms
      BY <1>0, <1>14, <1>15, OnlyDefinition
    <3> QED
      BY <2>1, <3>1 DEF Defs
  <2>3. s.name \in Imports(r, d)
    BY <1>1, <1>2, <2>1, <2>2, FollowedReach DEF Imports
  <2> QED
    BY <2>3, <1>17
<1> QED
  BY <1>18, <1>19, <1>20, <1>1 DEF Owed

\* The instruction that is read is listed.
LEMMA InsnListedNew ==
  ASSUME Settled, Ranged, SectionsApart, NEW i \in Instructions, add_edge_from_insn(i)
  PROVE  InsnListed(i)'
<1>0. /\ symtab' = symtab /\ fun' = fun /\ syms' = syms /\ relocs' = relocs /\ dataRefs' = dataRefs /\ pc = "insns"
  BY DEF add_edge_from_insn, inputVars, symVars, rangeVars
<1>1. SUFFICES ASSUME NEW f \in DOMAIN fun, fun[f] \in CodeAt(i.at), i.op # "jcc", ~Relocated(i), NEW s \in Owed(CodeAt(i.target))
               PROVE  EdgeTo(f, s)'
  BY <1>0, InputsSame DEF InsnListed, Owed, Unfiltered, NamesOf, IsCode, Relocated
<1>2. i.at \in Int /\ i.target \in Int
  BY InputConstants DEF Instruction
<1>3. /\ target_func_by_addr(i.at) # {}
      /\ \A m \in target_func_by_addr(i.at) : m \in DOMAIN fun /\ fun[m].addr = fun[f].addr
  BY <1>0, <1>1, <1>2, CodeFound
<1>4. /\ target_func_by_addr(i.target) # {}
      /\ \A m \in target_func_by_addr(i.target) : /\ m \in DOMAIN fun /\ fun[m].addr = s.addr
                                                  /\ m \notin HardBlacklist \cup SoftIgnore
  BY <1>0, <1>1, <1>2, OwedFound
<1>5. PICK u \in target_func_by_addr(i.at), v \in target_func_by_addr(i.target) : adj' = adj \cup add_edges(u, {v})
  BY <1>1, <1>3, <1>4 DEF add_edge_from_insn
<1>6. v \in DOMAIN syms /\ syms[v] = fun[v] /\ Defined(fun[v]) /\ IsCode(fun[v])
  BY <1>0, <1>4 DEF Ranged, IsFunction
<1>7. CASE v \in {u, f}
  <2>1. fun[f].addr = s.addr
    BY <1>3, <1>4, <1>7
  <2> QED
    BY <2>1, <1>0 DEF EdgeTo
<1>8. CASE v \notin {u, f}
  <2>1. f \in alias_group(u)
    BY <1>3 DEF alias_group
  <2>2. << f, v >> \in adj'
    BY <2>1, <1>5, <1>8 DEF add_edges
  <2> QED
    BY <2>2, <1>0, <1>4, <1>6 DEF EdgeTo, Defined, IsCode
<1> QED
  BY <1>7, <1>8

\* What is listed stays listed.
LEMMA ListedStays ==
  ASSUME Grows
  PROVE  /\ \A r : RelocListed(r) => RelocListed(r)'
         /\ \A i : relocs' = relocs /\ InsnListed(i) => InsnListed(i)'
<1>0. symtab' = symtab /\ fun' = fun
  BY DEF Grows
<1>1. \A f, s : EdgeTo(f, s) => EdgeTo(f, s)'
  <2> TAKE f, s
  <2> HAVE EdgeTo(f, s)
  <2>1. CASE fun[f].addr = s.addr
    BY <2>1, <1>0 DEF EdgeTo
  <2>2. ASSUME NEW v \in DOMAIN syms, syms[v].addr = s.addr, Defined(syms[v]),
               \/ IsCode(syms[v]) /\ << f, v >> \in adj
               \/ ~IsCode(syms[v]) /\ v \notin Dotted /\ << f, v >> \in dataRefs
        PROVE  EdgeTo(f, s)'
    <3>1. v \in DOMAIN syms' /\ syms'[v] = syms[v]
      BY DEF Grows
    <3>2. \/ IsCode(syms[v]) /\ << f, v >> \in adj'
          \/ ~IsCode(syms[v]) /\ v \notin Dotted /\ << f, v >> \in dataRefs'
      BY <2>2 DEF Grows
    <3> QED
      BY <2>2, <3>1, <3>2 DEF EdgeTo, Defined, IsCode
  <2> QED
    BY <2>1, <2>2 DEF EdgeTo
<1>2. ASSUME NEW r, RelocListed(r) PROVE RelocListed(r)'
  <2>1. SUFFICES ASSUME NEW f \in DOMAIN fun, fun[f] \in CodeAt(r.at), Clear(r), Followed(r),
                        NEW s \in Owed(CodeOf(r) \cup DataOf(r) \cup ImportsOf(r))
                 PROVE  EdgeTo(f, s)'
    BY <1>0, InputsSame DEF RelocListed, Followed, ByAddress, Owed, Unfiltered, NamesOf, IsCode
  <2> QED
    BY <1>1, <1>2, <2>1 DEF RelocListed
<1>3. ASSUME NEW i, relocs' = relocs, InsnListed(i) PROVE InsnListed(i)'
  <2>1. SUFFICES ASSUME NEW f \in DOMAIN fun, fun[f] \in CodeAt(i.at), i.op # "jcc", ~Relocated(i), NEW s \in Owed(CodeAt(i.target))
                 PROVE  EdgeTo(f, s)'
    BY <1>0, <1>3, InputsSame DEF InsnListed, Owed, Unfiltered, NamesOf, IsCode, Relocated
  <2> QED
    BY <1>1, <1>3, <2>1 DEF InsnListed
<1> QED
  BY <1>2, <1>3

LEMMA StepListed ==
  ASSUME SectionsApart, DataApart, Settled, Ranged, Ranged', Phases, Listed, [Next]_vars
  PROVE  Listed'
<1>1. CASE pc = "symbols"
  BY <1>1, NothingRead DEF Listed
<1>2. CASE pc # "symbols"
  <2>1. Grows
    BY <1>2, StepGrows
  <2>2. /\ \A r : RelocListed(r) => RelocListed(r)'
        /\ \A i : relocs' = relocs /\ InsnListed(i) => InsnListed(i)'
    BY <2>1, ListedStays
  <2>3. ASSUME NEW r \in Relocations, add_edge_from_reloc(r), relocs' = relocs \cup {r}, insns' = {} PROVE Listed'
    <3>1. RelocListed(r)'
      BY <2>3, RelocListedNew
    <3> QED
      BY <2>2, <2>3, <3>1 DEF Listed
  <2>4. ASSUME NEW i \in Instructions, add_edge_from_insn(i), insns' = insns \cup {i}, relocs' = relocs PROVE Listed'
    <3>1. InsnListed(i)'
      BY <2>4, InsnListedNew
    <3> QED
      BY <2>2, <2>4, <3>1 DEF Listed
  <2>5. CASE UNCHANGED << relocs, insns >>
    BY <2>2, <2>5 DEF Listed
  <2> QED
    BY <2>3, <2>4, <2>5, <1>2, Reads
<1> QED
  BY <1>1, <1>2

\* Whatever the files are, if their sections and their data do not overlap: the
\* answer for a safe root has, under one of its names, every function and datum
\* that a call, an unconditional jump or a relocation which krg follows in the
\* root's body refers to, a relative one also through an import slot, unless a list filters it or
\* its name has two definitions.  The targets of conditional jumps and of the
\* relocations that are not Followed are not in the graph.
THEOREM NothingMissed ==
  ASSUME SectionsApart, DataApart
  PROVE  Spec => []ClosureComplete
<1>1. Init => Listed
  BY DEF Init, Listed
<1>2. Known /\ Listed /\ [Next]_vars => Listed'
  <2> SUFFICES ASSUME Known, Listed, [Next]_vars PROVE Listed'
    OBVIOUS
  <2>1. Settled /\ Ranged /\ Phases
    BY DEF Known
  <2>2. Ranged'
    BY <2>1, StepRanged
  <2> QED
    BY <2>1, <2>2, StepListed
<1>3. Known /\ Listed => ClosureComplete
  <2> SUFFICES ASSUME Known, Listed, Answered, root \in Safe \ StopNames, root \in seen
               PROVE  /\ \A r \in relocs : InBody(root, r.at) /\ Clear(r) /\ Followed(r) =>
                           \A s \in Owed(CodeOf(r) \cup DataOf(r) \cup ImportsOf(r)) : Printed(s)
                      /\ \A i \in insns : InBody(root, i.at) /\ i.op # "jcc" /\ ~Relocated(i) =>
                           \A s \in Owed(CodeAt(i.target)) : Printed(s)
    BY DEF ClosureComplete
  <2>1. pc = "saved" /\ stack = {}
    BY DEF Answered
  <2>2. Settled /\ Ranged /\ IType
    BY DEF Known
  <2>3. graph.node = Needed /\ graph.edge = {e \in adj \cup dataRefs : e[1] \in Safe /\ e[2] \in Needed}
    BY <2>1 DEF Known, Phases
  <2>4. Successors(root) \subseteq seen
    BY <2>1 DEF Known, Closing
  <2>5. root \in DOMAIN syms /\ syms[root].name = root
    BY <2>2 DEF Safe, Settled
  <2>6. ASSUME NEW va, InBody(root, va) PROVE root \in DOMAIN fun /\ fun[root] = syms[root] /\ fun[root] \in CodeAt(va)
    <3>1. IsFunction(root)
      BY <2>5, <2>6 DEF InBody, CodeAt, IsFunction
    <3>2. root \in DOMAIN fun /\ fun[root] = syms[root]
      BY <3>1, <2>1, <2>2 DEF Ranged
    <3> QED
      BY <3>2, <2>6 DEF InBody
  <2>7. ASSUME root \in DOMAIN fun, fun[root] = syms[root], NEW s, EdgeTo(root, s) PROVE Printed(s)
    <3>1. CASE fun[root].addr = s.addr
      BY <3>1, <2>7 DEF Printed
    <3>2. ASSUME NEW v \in DOMAIN syms, syms[v].addr = s.addr, Defined(syms[v]),
                 \/ IsCode(syms[v]) /\ << root, v >> \in adj
                 \/ ~IsCode(syms[v]) /\ v \notin Dotted /\ << root, v >> \in dataRefs
          PROVE  Printed(s)
      <4>1. v \in Needed
        BY <3>2 DEF Needed, Leaves
      <4>2. << root, v >> \in graph.edge
        BY <4>1, <3>2, <2>3
      <4>3. v \in seen
        BY <4>1, <4>2, <2>3, <2>4 DEF Successors
      <4> QED
        BY <4>3, <3>2 DEF Printed
    <3> QED
      BY <2>7, <3>1, <3>2 DEF EdgeTo
  <2>8. ASSUME NEW r \in relocs, InBody(root, r.at), Clear(r), Followed(r),
               NEW s \in Owed(CodeOf(r) \cup DataOf(r) \cup ImportsOf(r))
        PROVE  Printed(s)
    <3>1. root \in DOMAIN fun /\ fun[root] = syms[root] /\ fun[root] \in CodeAt(r.at)
      BY <2>6, <2>8
    <3>2. EdgeTo(root, s)
      BY <3>1, <2>8 DEF Listed, RelocListed
    <3> QED
      BY <3>1, <3>2, <2>7
  <2>9. ASSUME NEW i \in insns, InBody(root, i.at), i.op # "jcc", ~Relocated(i), NEW s \in Owed(CodeAt(i.target)) PROVE Printed(s)
    <3>1. root \in DOMAIN fun /\ fun[root] = syms[root] /\ fun[root] \in CodeAt(i.at)
      BY <2>6, <2>9
    <3>2. EdgeTo(root, s)
      BY <3>1, <2>9 DEF Listed, InsnListed
    <3> QED
      BY <3>1, <3>2, <2>7
  <2> QED
    BY <2>8, <2>9
<1> QED
  BY <1>1, <1>2, <1>3, AlwaysKnown, PTL DEF Spec

=============================================================================
