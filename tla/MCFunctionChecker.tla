-------------------------- MODULE MCFunctionChecker --------------------------
(* Instances of FunctionChecker for TLC: a module and a kernel whose code    *)
(* is chosen byte by byte.                                                   *)
EXTENDS FunctionChecker, TLC

CONSTANT Choices  \* which programs to take: "all" or "jumps"

MkSym(n, t, s, v, z) == [name |-> n, type |-> t, sec |-> s, value |-> v, size |-> z]
Fun(n, s, v, z)    == MkSym(n, "func", s, v, z)
Import(n)          == MkSym(n, "other", Undef, 0, 0)

AllNames == {"t", "h", "z", "g", "g2", "cold", "u", "sched", "shim", "asan", "thunk", "rethunk", "gone"}

\* The module: .text is section 1, .data 2, .text.unlikely 3.
ModuleSecs == << [exec |-> TRUE, base |-> 0, size |-> 8], [exec |-> FALSE, base |-> 0, size |-> 2],
                 [exec |-> TRUE, base |-> 0, size |-> 4] >>
ModuleSyms ==
  << MkSym(NoName, "section", 1, 0, 0), MkSym(NoName, "section", 2, 0, 0), MkSym(NoName, "section", 3, 0, 0),
     Fun("t", 1, 0, 4), Fun("h", 1, 4, 2), Fun("z", 1, 6, 0), Fun("u", 3, 1, 2),
     Import("g"), Import("shim"), Import("asan"), Import("thunk"), Import("rethunk"), Import("gone") >>
SymOf(n) == CHOOSE i \in DOMAIN ModuleSyms : ModuleSyms[i].name = n
SecSym(k) == k

\* vmlinux: .text from 10, .data from 40; u has two names in one program.
KernelSecs == << [exec |-> TRUE, base |-> 10, size |-> 8], [exec |-> FALSE, base |-> 40, size |-> 2] >>
KernelSyms == << Fun("g", 1, 10, 4), Fun("g2", 1, 10, 4), Fun("cold", 1, 14, 2), Fun("sched", 1, 16, 3) >>

Op(o, i, t, l) == [op |-> o, imm |-> i, to |-> t, len |-> l]
Call(t) == Op("call", TRUE, t, 2)
Jmp(t)  == Op("jmp", TRUE, t, 2)
Jcc(t)  == Op("jcc", TRUE, t, 2)
Blind   == Op("jmp", FALSE, 0, 2)
Priv    == Op("priv", FALSE, 0, 2)
Plain   == Op("plain", FALSE, 0, 2)
Long    == Op("plain", FALSE, 0, 3)

NoReloc == [type |-> "none", sym |-> 0, addend |-> 0]
Rel(t, s, x) == [type |-> t, sym |-> s, addend |-> x]

\* An instruction of two bytes and the relocation of its second: the addend
\* of a relative one counts from the field, one byte before the end.
Site(i, r) == [insn |-> i, rel |-> r]
Bare(i)    == Site(i, NoReloc)
Pc(i, s, x) == Site(i, Rel("pc", s, x - 1))

NoBytes == Bare(Op("nobytes", TRUE, 0, 0))

\* What the module's code may do: at 0 and 2 in t, at 4 in h, at 1 in u.
InT == { Bare(Call(4)), Bare(Jmp(5)), Bare(Call(0)), Bare(Call(6)), Bare(Jcc(4)), Bare(Blind), Bare(Priv),
         Pc(Call(0), SymOf("g"), 0), Pc(Call(0), SymOf("gone"), 0), Pc(Plain, SymOf("shim"), 0),
         Pc(Call(0), SymOf("asan"), 0), Pc(Jmp(0), SymOf("thunk"), 0), Pc(Jmp(0), SymOf("rethunk"), 0),
         Pc(Call(0), SecSym(1), 4), Pc(Call(0), SecSym(3), 2), Pc(Call(0), SecSym(3), 0), Pc(Plain, SecSym(2), 1),
         Site(Plain, Rel("abs", SecSym(2), 0)), Site(Plain, Rel("other", SymOf("g"), 0)),
         Pc(Call(0), SymOf("h"), 0) }
InH == { Bare(Plain), Bare(Long), Pc(Jmp(0), SymOf("t"), 0), Pc(Plain, SecSym(3), 1), Pc(Call(0), SymOf("g"), 0) }

\* At 10 and 12 in g: calls of addresses, the other half of g, a byte that is no code.
InG == { Bare(Call(14)), Bare(Call(15)), Bare(Jmp(12)), Bare(Call(16)), Bare(Call(19)), Bare(Blind), NoBytes }

Empty == << >>
CodeAt(sec, a, site)  == IF site = NoBytes THEN Empty ELSE << sec, a >> :> site.insn
RelocAt(sec, a, site) == IF site.rel = NoReloc THEN Empty ELSE << sec, a + 1 >> :> site.rel

ModuleBase == ELFObj(ModuleSecs, ModuleSyms, << 3, 1 >> :> Plain, Empty)
KernelBase == ELFObj(KernelSecs, KernelSyms, << 1, 14 >> :> Jmp(10) @@ << 1, 16 >> :> Plain, Empty)

ModuleFile(a, b, c) ==
  [ModuleBase EXCEPT !.code = @ @@ CodeAt(1, 0, a) @@ CodeAt(1, 2, b) @@ CodeAt(1, 4, c),
                     !.relocs = RelocAt(1, 0, a) @@ RelocAt(1, 2, b) @@ RelocAt(1, 4, c)]
KernelFile(a, b) == [KernelBase EXCEPT !.code = @ @@ CodeAt(1, 10, a) @@ CodeAt(1, 12, b)]

Program(files, shims) == [files |-> files, target |-> "t", shims |-> shims]

\* Any code of t and of g.
Calls == { Program(<< ModuleFile(a, b, c), KernelFile(Bare(Call(14)), Bare(Plain)) >>, {"shim", "h"}) :
             a \in InT, b \in InT, c \in {Bare(Plain), Pc(Jmp(0), SymOf("t"), 0)} }
         \cup { Program(<< ModuleFile(Pc(Call(0), SymOf("g"), 0), Bare(Plain), c), KernelFile(d, e) >>, {"shim"}) :
                  c \in InH, d \in InG, e \in InG }

\* A second module that defines names of the others, before or after the first.
Second ==
  ELFObj(ModuleSecs, << Fun("g", 1, 0, 2), Fun("h", 1, 2, 2), Fun("h", 1, 4, 4), Fun("sched", 1, 6, 4) >>,
         << 1, 0 >> :> Call(6) @@ << 1, 2 >> :> Priv @@ << 1, 4 >> :> Call(2) @@ << 1, 6 >> :> Plain, Empty)
Several ==
  UNION { { Program(<< ModuleFile(a, b, c), Second, KernelFile(Bare(Call(14)), Bare(Plain)) >>, {}),
            Program(<< Second, ModuleFile(a, b, c), KernelFile(Bare(Call(14)), Bare(Plain)) >>, {}) } :
          a \in InT, b \in InH, c \in InH }

\* vmlinux alone, with a conditional jump to code outside of its function.
Jumps == { Program(<< KernelFile(Bare(Jcc(14)), Bare(Plain)) >>, {}) }

AllPrograms ==
  CASE Choices = "all"   -> Calls \cup Several
    [] Choices = "jumps" -> { [p EXCEPT !.target = "g"] : p \in Jumps }
=============================================================================
