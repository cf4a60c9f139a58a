--------------------------- MODULE FunctionChecker ---------------------------
(***************************************************************************)
(* kernel_cgd/function_checker/functions_checker.py, the static admission   *)
(* check: may a kernel function run in user mode?  From the target it       *)
(* follows calls and relocations through the modules and vmlinux, function  *)
(* by function, records what it meets and gives a verdict: 0 PASS, 1 FAIL,  *)
(* 2 INCOMPLETE.                                                            *)
(*                                                                         *)
(* The input is what pyelftools and capstone make of the files: sections,   *)
(* symbols, relocations and instructions at addresses.  A module's sections *)
(* start at address 0 (ET_REL), those of vmlinux at sh_addr.                *)
(***************************************************************************)
EXTENDS Integers, Sequences, FiniteSets

CONSTANTS
  Names,            \* symbol names
  Instrumentation,  \* names of inst_exact or with a prefix of inst_prefixes
  IndirectThunks,   \* names that start with __x86_indirect_thunk_
  ReturnThunks,     \* names that start with __x86_return_thunk
  Programs          \* what the tool is called with

NoName  == ""   \* the name of a section symbol; also "no function found"
Undef   == 0    \* SHN_UNDEF
NoOwner == 0
NoCode  == 99   \* no verdict yet

Section == [exec : BOOLEAN, base : Nat, size : Nat]
Symbol  == [name : Names \cup {NoName}, type : {"func", "section", "other"},
            sec : Nat, value : Nat, size : Nat]

\* op "priv" is a mnemonic of PRIV_INSNS or a use of a control register; imm
\* says that the first operand is immediate, to is its value.
Insn  == [op : {"call", "jmp", "jcc", "plain", "priv"}, imm : BOOLEAN, to : Nat, len : Nat \ {0}]
Reloc == [type : {"abs", "pc", "other"}, sym : Nat, addend : Int]

NoSym == [name |-> NoName, type |-> "other", sec |-> Undef, value |-> 0, size |-> 0]

\* A file is what ELFObj makes of it: code is a function of << section, address >>
\* to Insn, relocs of << section, address >> to Reloc. A program is [files, target,
\* shims]: the modules in the order of the command line, then vmlinux.
ASSUME NameConstants ==
  /\ NoName \notin Names
  /\ Instrumentation \subseteq Names /\ IndirectThunks \subseteq Names /\ ReturnThunks \subseteq Names

ASSUME ProgramConstants ==
  \A p \in Programs :
    /\ p.target \in Names /\ p.shims \subseteq Names
    /\ DOMAIN p.files \subseteq Nat \ {NoOwner}
    /\ \A k \in DOMAIN p.files :
         /\ p.files[k].secs \in Seq(Section) /\ p.files[k].syms \in Seq(Symbol)
         /\ \A n \in DOMAIN p.files[k].sym_dict : p.files[k].sym_dict[n] \in Symbol
         /\ \A x \in DOMAIN p.files[k].code : p.files[k].code[x] \in Insn
         /\ \A x \in DOMAIN p.files[k].relocs : p.files[k].relocs[x] \in Reloc

VARIABLES
  prog,       \* the input
  queue,      \* names that wait to be analysed
  visited,    \* names taken from the queue
  func,       \* the function under analysis, or NoName,
  elf,        \* its file and
  sym,        \* its symbol
  left,       \* the instructions of it that are not analysed yet
  found,      \* the lists of the report, as sets
  exit_code

current == << func, elf, sym >>
vars == << prog, queue, visited, current, left, found, exit_code >>

\* Entries are << function, address >>; a missing dependency has address 0.
Lists == {"hard_fails", "missing_deps", "unanalyzable", "static_refs",
          "manifest_got", "manifest_instrumentation", "shim_hits"}

-----------------------------------------------------------------------------
(* Lookups in the symbol tables.                                             *)

\* ELFObj.__init__: sym_dict has the last definition of every name.
Definitions(syms, n) == {i \in DOMAIN syms : syms[i].name = n /\ syms[i].sec # Undef}
LastDefinition(syms, n) == CHOOSE i \in Definitions(syms, n) : \A j \in Definitions(syms, n) : j <= i
ELFObj(secs, syms, code, relocs) ==
  [secs |-> secs, syms |-> syms, code |-> code, relocs |-> relocs,
   sym_dict |-> [n \in {m \in Names : Definitions(syms, m) # {}} |-> syms[LastDefinition(syms, n)]]]

Owners(p, n) == {k \in DOMAIN p.files : n \in DOMAIN p.files[k].sym_dict}

resolve_symbol_owner(p, n) ==
  LET files == Owners(p, n)
  IN  IF files = {} THEN NoOwner ELSE CHOOSE k \in files : \A j \in files : k <= j

OwnerFile(p, n) == p.files[resolve_symbol_owner(p, n)]

Covers(s, sec, offset) ==
  /\ s.type = "func" /\ s.sec = sec
  /\ \/ s.size = 0 /\ s.value = offset
     \/ s.value <= offset /\ offset < s.value + s.size

FirstName(f, hits) == IF hits = {} THEN NoName ELSE f.syms[CHOOSE i \in hits : \A j \in hits : i <= j].name

\* Mutant: only the first address of a function belongs to it.
OnlyStarts(f, sec, offset) ==
  FirstName(f, {i \in DOMAIN f.syms : Covers(f.syms[i], sec, offset) /\ f.syms[i].value = offset})

resolve_func_by_offset(f, sec, offset) ==
  FirstName(f, {i \in DOMAIN f.syms : Covers(f.syms[i], sec, offset)})

-----------------------------------------------------------------------------
(* What the tool makes of the function of symbol s in the file f, and of   *)
(* its instruction at address a.                                             *)

\* The bytes of the function are all in its section.
Readable(f, s) ==
  /\ s.sec \in DOMAIN f.secs
  /\ s.size > 0
  /\ f.secs[s.sec].base <= s.value
  /\ s.value + s.size <= f.secs[s.sec].base + f.secs[s.sec].size

InsnAt(f, s, a) == f.code[<< s.sec, a >>]

\* The starts of the instructions that capstone finds: one after the other
\* until a byte does not decode or an instruction leaves the function.
disasm(f, s) ==
  LET end == s.value + s.size
      starts[a \in s.value .. end - 1] ==
        /\ << s.sec, a >> \in DOMAIN f.code
        /\ a + InsnAt(f, s, a).len <= end
        /\ a = s.value \/ \E b \in s.value .. a - 1 : starts[b] /\ b + InsnAt(f, s, b).len = a
  IN  {a \in s.value .. end - 1 : starts[a]}

is_branch(insn) == insn.op \in {"call", "jmp"}

Fields(f, s, a) == {o \in a .. a + InsnAt(f, s, a).len - 1 : << s.sec, o >> \in DOMAIN f.relocs}
HasReloc(f, s, a) == Fields(f, s, a) # {}

\* Where the first relocation inside of the instruction applies.
RelocField(f, s, a) == LET all == Fields(f, s, a) IN CHOOSE o \in all : \A x \in all : o <= x
_find_relocation_for_instruction(f, s, a) == f.relocs[<< s.sec, RelocField(f, s, a) >>]

\* What an instruction leads to: a list it is recorded in, a name to queue.
Recorded(l) == [list |-> l, name |-> NoName]
Queued(n)   == [list |-> "none", name |-> n]
Nothing     == Queued(NoName)

QueuedOrGap(n) == IF n # NoName THEN Queued(n) ELSE Recorded("unanalyzable")

\* Mutant: the offset is the addend itself, which counts from the field.
FieldOffset(f, s, a, r, t) ==
  IF t.type = "func" /\ t.name # NoName THEN Queued(t.name)
  ELSE QueuedOrGap(resolve_func_by_offset(f, t.sec, r.addend))

\* Mutant: an offset that no function covers is passed over.
SkipUncovered(f, s, a, r, t) ==
  IF t.type = "func" /\ t.name # NoName THEN Queued(t.name)
  ELSE Queued(resolve_func_by_offset(f, t.sec, r.addend - RelocField(f, s, a) + a + InsnAt(f, s, a).len))

\* A reference to code of the same file.
LocalCode(f, s, a, r, t) ==
  IF t.type = "func" /\ t.name # NoName THEN Queued(t.name)
  ELSE QueuedOrGap(resolve_func_by_offset(f, t.sec, r.addend - RelocField(f, s, a) + a + InsnAt(f, s, a).len))

\* Mutant: a shim ends the search in the file that defines the name, too.
ShimAlways(f, s, shims, a, r, t) ==
  IF t.name \in Instrumentation THEN Recorded("manifest_instrumentation")
  ELSE IF t.name \in IndirectThunks THEN Recorded("manifest_got")
  ELSE IF t.name \in ReturnThunks THEN Nothing
  ELSE IF t.name \in shims THEN Recorded("shim_hits")
  ELSE IF t.sec = Undef THEN Queued(t.name)
  ELSE IF f.secs[t.sec].exec THEN LocalCode(f, s, a, r, t) ELSE Nothing

PcRelative(f, s, shims, a, r, t) ==
  IF t.name \in Instrumentation THEN Recorded("manifest_instrumentation")
  ELSE IF t.name \in IndirectThunks THEN Recorded("manifest_got")
  ELSE IF t.name \in ReturnThunks THEN Nothing
  ELSE IF t.sec = Undef THEN IF t.name \in shims THEN Recorded("shim_hits") ELSE Queued(t.name)
  ELSE IF t.sec \in DOMAIN f.secs THEN IF f.secs[t.sec].exec THEN LocalCode(f, s, a, r, t) ELSE Nothing
  ELSE Recorded("unanalyzable")

Reference(f, s, shims, a) ==
  LET r == _find_relocation_for_instruction(f, s, a)
  IN  IF r.sym \notin DOMAIN f.syms THEN Recorded("unanalyzable")
      ELSE IF r.type = "abs" THEN Recorded("hard_fails")
      ELSE IF r.type = "pc" THEN PcRelative(f, s, shims, a, r, f.syms[r.sym])
      ELSE Nothing

\* The symbol of the relocation is in a section without code.
IsStaticRef(f, s, a) ==
  /\ HasReloc(f, s, a)
  /\ LET r == _find_relocation_for_instruction(f, s, a) IN
       /\ r.sym \in DOMAIN f.syms
       /\ f.syms[r.sym].sec \in DOMAIN f.secs
       /\ ~f.secs[f.syms[r.sym].sec].exec

DirectTarget(f, s, a) ==
  LET n == resolve_func_by_offset(f, s.sec, InsnAt(f, s, a).to) IN IF n = s.name THEN NoName ELSE n

\* Mutant: a direct jump is not followed, only a call.
CallsOnly(f, s, shims, a) ==
  IF HasReloc(f, s, a) THEN Reference(f, s, shims, a)
  ELSE IF ~is_branch(InsnAt(f, s, a)) THEN Nothing
  ELSE IF ~InsnAt(f, s, a).imm THEN Recorded("manifest_got")
  ELSE IF InsnAt(f, s, a).op = "call" THEN Queued(DirectTarget(f, s, a)) ELSE Nothing

Outcome(f, s, shims, a) ==
  IF HasReloc(f, s, a) THEN Reference(f, s, shims, a)
  ELSE IF ~is_branch(InsnAt(f, s, a)) THEN Nothing
  ELSE IF ~InsnAt(f, s, a).imm THEN Recorded("manifest_got")
  ELSE Queued(DirectTarget(f, s, a))

-----------------------------------------------------------------------------
(* The worklist.                                                             *)

Init ==
  /\ prog \in Programs
  /\ queue = << prog.target >>
  /\ visited = {}
  /\ func = NoName /\ elf = NoOwner /\ sym = NoSym
  /\ left = {}
  /\ found = [l \in Lists |-> {}]
  /\ exit_code = NoCode

Waiting == {queue[i] : i \in DOMAIN queue}

\* Mutant: only the names that still wait are compared.
QueueUnlessWaiting(n) == IF n = NoName \/ n \in Waiting THEN queue ELSE Append(queue, n)

queue_func(n) == IF n = NoName \/ n \in visited \/ n \in Waiting THEN queue ELSE Append(queue, n)

\* Mutant: the name is not marked.
MarkNone(n) == visited

Mark(n) == visited \cup {n}

\* The lists of the report with x in list l, and among the data references.
Note(l, x, static) ==
  [k \in Lists |-> IF k = l \/ (k = "static_refs" /\ static) THEN found[k] \cup {x} ELSE found[k]]

Sym(p, n) == OwnerFile(p, n).sym_dict[n]

\* What is recorded of a function before its instructions are looked at.
Entry(p, n) ==
  IF resolve_symbol_owner(p, n) = NoOwner THEN "missing_deps"
  ELSE IF Readable(OwnerFile(p, n), Sym(p, n)) /\ disasm(OwnerFile(p, n), Sym(p, n)) # {} THEN "none"
  ELSE "unanalyzable"

\* analyze: the next name; of _analyze_function all but the loop.
NextFunction ==
  /\ func = NoName /\ queue # << >>
  /\ LET n == Head(queue)
         e == Entry(prog, n)
     IN  /\ visited' = Mark(n)
         /\ queue' = Tail(queue)
         /\ IF n \in visited THEN UNCHANGED << current, left, found >>
            ELSE /\ found' = Note(e, << n, 0 >>, FALSE)
                 /\ IF e # "none" THEN UNCHANGED << current, left >>
                    ELSE /\ func' = n
                         /\ elf' = resolve_symbol_owner(prog, n)
                         /\ sym' = Sym(prog, n)
                         /\ left' = disasm(OwnerFile(prog, n), Sym(prog, n))
  /\ UNCHANGED << prog, exit_code >>

IsNext(a) == a \in left /\ \A b \in left : a <= b

\* A privileged instruction ends the analysis of the function.
Privileged(a) ==
  /\ IsNext(a)
  /\ InsnAt(prog.files[elf], sym, a).op = "priv"
  /\ found' = Note("hard_fails", << func, a >>, FALSE)
  /\ left' = {}
  /\ UNCHANGED << prog, queue, visited, current, exit_code >>

\* Mutant: an absolute relocation ends it, too.
StopAtHardFail(a, o) == IF o.list = "hard_fails" THEN {} ELSE left \ {a}

Rest(a, o) == left \ {a}

Instruction(a) ==
  /\ IsNext(a)
  /\ InsnAt(prog.files[elf], sym, a).op # "priv"
  /\ \E o \in {Outcome(prog.files[elf], sym, prog.shims, a)} :
       /\ found' = Note(o.list, << func, a >>, IsStaticRef(prog.files[elf], sym, a))
       /\ queue' = queue_func(o.name)
       /\ left' = Rest(a, o)
  /\ UNCHANGED << prog, visited, current, exit_code >>

FunctionDone ==
  /\ func # NoName /\ left = {}
  /\ func' = NoName /\ elf' = NoOwner /\ sym' = NoSym
  /\ UNCHANGED << prog, queue, visited, left, found, exit_code >>

\* Mutant: what could not be analysed is only printed.
VerdictOfDeps(f) ==
  IF f.hard_fails # {} THEN 1
  ELSE IF f.missing_deps # {} THEN 2
  ELSE 0

\* Mutant: a gap in the closure goes before a failure.
GapsFirst(f) ==
  IF f.missing_deps # {} \/ f.unanalyzable # {} THEN 2
  ELSE IF f.hard_fails # {} THEN 1
  ELSE 0

Verdict(f) ==
  IF f.hard_fails # {} THEN 1
  ELSE IF f.missing_deps # {} \/ f.unanalyzable # {} THEN 2
  ELSE 0

generate_report ==
  /\ func = NoName /\ queue = << >> /\ exit_code = NoCode
  /\ exit_code' = Verdict(found)
  /\ UNCHANGED << prog, queue, visited, current, left, found >>

\* The process has ended.
Exited == exit_code # NoCode /\ UNCHANGED vars

Next ==
  \/ NextFunction
  \/ \E a \in left : Privileged(a) \/ Instruction(a)
  \/ FunctionDone
  \/ generate_report
  \/ Exited

\* One process that nothing blocks.
Spec == Init /\ [][Next]_vars /\ WF_vars(Next)

-----------------------------------------------------------------------------
(* What is recorded is recorded of functions that were taken from the queue.  *)
TypeOK ==
  /\ queue \in Seq(Names) /\ visited \subseteq Names
  /\ func \in Names \cup {NoName}
  /\ IF func = NoName THEN left = {}
     ELSE /\ Entry(prog, func) = "none"
          /\ elf = resolve_symbol_owner(prog, func) /\ sym = Sym(prog, func)
          /\ left \subseteq disasm(prog.files[elf], sym)
  /\ DOMAIN found = Lists /\ \A l \in Lists : found[l] \subseteq visited \X Nat
  /\ exit_code \in {0, 1, 2, NoCode}

(* A name never waits twice and never waits after its turn (queue_func, and  *)
(* why the second test in analyze is never true): each function is analysed *)
(* once.                                                                     *)
QueueFresh ==
  /\ Waiting \cap visited = {}
  /\ \A i, j \in DOMAIN queue : queue[i] = queue[j] => i = j

\* The instructions of a function that the tool looks at: up to a privileged one.
Scanned(f, s) ==
  LET insns == disasm(f, s)
  IN  {a \in insns : \A b \in insns : b < a => InsnAt(f, s, b).op # "priv"}

Examined(f, s) == {a \in Scanned(f, s) : InsnAt(f, s, a).op # "priv"}

\* The names that the code of n leads to.
Follows(p, n) ==
  IF Entry(p, n) # "none" THEN {}
  ELSE LET f == OwnerFile(p, n)
           s   == Sym(p, n)
       IN  {Outcome(f, s, p.shims, a).name : a \in Examined(f, s)} \ {NoName}

ClosedUnder(p, S) == p.target \in S /\ \A n \in S : Follows(p, n) \subseteq S

(* When the tool reports, the visited functions are the least set that has   *)
(* the target and what its members lead to: no name is lost between the      *)
(* queue and the visited set, and nothing unrelated is judged (analyze).     *)
ClosureExact ==
  exit_code # NoCode => /\ ClosedUnder(prog, visited)
                        /\ \A S \in SUBSET visited : ClosedUnder(prog, S) => S = visited

\* Code of n that must not run in user mode, and gaps in what is known of n.
Forbidden(p, n) ==
  /\ Entry(p, n) = "none"
  /\ LET f == OwnerFile(p, n)
         s   == Sym(p, n)
     IN  \/ \E a \in Scanned(f, s) : InsnAt(f, s, a).op = "priv"
         \/ \E a \in Examined(f, s) : Outcome(f, s, p.shims, a).list = "hard_fails"

Gap(p, n) ==
  \/ Entry(p, n) # "none"
  \/ LET f == OwnerFile(p, n)
         s   == Sym(p, n)
     IN  \E a \in Examined(f, s) : Outcome(f, s, p.shims, a).list = "unanalyzable"

(* The verdict is FAIL exactly when some function of the closure has          *)
(* forbidden code, INCOMPLETE when none has but one could not be read to the *)
(* end of what it refers to, else PASS (generate_report): no record is lost  *)
(* on the way and none outlives its cause.                                   *)
VerdictExact ==
  exit_code # NoCode =>
    exit_code = IF \E n \in visited : Forbidden(prog, n) THEN 1
                ELSE IF \E n \in visited : Gap(prog, n) THEN 2 ELSE 0

\* The bytes of a function of the closure.
Analysed(p, k, sec, x) ==
  \E m \in visited :
    /\ resolve_symbol_owner(p, m) = k
    /\ LET s == Sym(p, m) IN s.sec = sec /\ s.value <= x /\ x < s.value + s.size

\* Each name is defined once, as the build of one kernel mostly has it.
NamesUnique(p) ==
  \A n \in Names : /\ Cardinality(Owners(p, n)) <= 1
                   /\ \A k \in Owners(p, n) : Cardinality(Definitions(p.files[k].syms, n)) <= 1

\* The place in its own file that instruction a transfers control to, as the
\* processor computes it, when the bytes say so. Relocations against labels that
\* are no function are left out: Outcome forgets their value, and follows another
\* place than the processor when it is not 0.
Landings(f, s, a) ==
  LET i == InsnAt(f, s, a)
      r == _find_relocation_for_instruction(f, s, a)
      t == f.syms[r.sym]
  IN  IF ~HasReloc(f, s, a) THEN IF i.imm THEN {<< s.sec, i.to >>} ELSE {}
      ELSE IF r.type = "pc" /\ t.sec # Undef /\ t.type \in {"func", "section"}
                /\ t.name \notin Instrumentation \cup IndirectThunks \cup ReturnThunks
           THEN {<< t.sec, t.value + r.addend - RelocField(f, s, a) + a + i.len >>} ELSE {}

\* After PASS the instructions of these kinds land in the closure. Without a
\* relocation only those count, if asked, that land in a function of the file.
LandInClosure(ops, functions) ==
  (exit_code = 0 /\ NamesUnique(prog)) =>
    \A n \in visited :
      LET f == OwnerFile(prog, n)
          s   == Sym(prog, n)
      IN  \A a \in Examined(f, s) : InsnAt(f, s, a).op \in ops =>
            \A l \in Landings(f, s, a) :
              (functions /\ ~HasReloc(f, s, a) => \E i \in DOMAIN f.syms : Covers(f.syms[i], l[1], l[2]))
                => Analysed(prog, resolve_symbol_owner(prog, n), l[1], l[2])

(* After PASS every call and jump of the closure lands in the bytes of a      *)
(* function of the closure, by the address the processor computes: offsets   *)
(* of relocations, starts and ends of functions are right                    *)
(* (resolve_func_by_offset, _analyze_function).                              *)
CallsFollowed == LandInClosure({"call", "jmp"}, TRUE)

(* The same of every transfer of control, conditional jumps among them:      *)
(* PASS means that the closure is complete                                   *)
(* (kernel_cgd/function_checker/Readme.md).                                  *)
PassIsComplete == LandInClosure({"call", "jmp", "jcc"}, FALSE)

(* The tool ends, recursion or not (analyze).                                *)
Answers == <>(exit_code # NoCode)
=============================================================================
