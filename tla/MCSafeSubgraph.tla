--------------------------- MODULE MCSafeSubgraph ---------------------------
(* Instances of SafeSubgraph for TLC: the files of three small builds.     *)
EXTENDS SafeSubgraph

Sym(n, f, t, s, a) == [name |-> n, file |-> f, type |-> t, sec |-> s, addr |-> a,
                       size |-> IF t = "object" THEN 2 ELSE 0]
Func(n, f, a)    == Sym(n, f, "func", "text", a)
Object(n, f, s, a) == Sym(n, f, "object", s, a)
Import(n, f)     == Sym(n, f, "other", Undef, 0)

\* Addresses: vmlinux 0..9, module 1 20..29, module 2 40..49, data from 100.
Ends == [p \in {0, 1, 2} \X {"text", "rodata", "data"} |->
          (CASE p[2] = "text" -> 10 [] p[2] = "rodata" -> 106 [] p[2] = "data" -> 116) + 20 * p[1]]

\* vmlinux: f has the alias f2 and a dotted part, sched is on the hard
\* blacklist, mcount is ignored.
Core == << Func("f", 0, 0), Func("f2", 0, 0), Sym(".slow", 0, "other", "text", 2),
           Func("g", 0, 4), Func("sched", 0, 6), Func("mcount", 0, 8), Object("ro", 0, "rodata", 100),
           Object("rw", 0, "data", 110) >>

\* A module whose data has the import slot 132 of g.
Module1 == << Func("m", 1, 20), Func("h", 1, 27), Import("g", 1), Object("own", 1, "data", 130) >>

\* Names that several files define: a function and a datum.
Clash   == << Func("g", 1, 24), Object("ro", 1, "data", 134), Func("m", 2, 40), Object("own", 2, "data", 150) >>

\* Two static functions of vmlinux with one name.
Static  == << Func("g", 0, 9) >>

AllNames == {"f", "f2", ".slow", "g", "sched", "mcount", "ro", "rw", "m", "h", "own", ".data@0", ".data@1", ".text@1"}
Tables   == { Core \o Static, Core \o Module1, Core \o Module1 \o Clash }
Exports  == { {}, {<< "g", 0 >>}, {<< "g", 1 >>, << "m", 2 >>, << "ro", 0 >>, << "ro", 1 >>} }
Parts    == { Sym(".data@0", 0, "other", "data", 110), Sym(".data@1", 1, "other", "data", 130),
              Sym(".text@1", 1, "other", "text", 20) }
Slots    == { [file |-> 1, addr |-> 132, import |-> "g"] }
Lost     == { << 2, "data" >> }

Reloc(a, s, o, p) == [at |-> a, sym |-> s, off |-> o, imm |-> 0, pc32 |-> p]
Part(n) == CHOOSE s \in Parts : s.name = n
Relocs ==
  { Reloc(1, Func("g", 0, 4), 0, TRUE), Reloc(2, Object("ro", 0, "rodata", 100), 1, TRUE),
    Reloc(3, Part(".data@0"), 0, TRUE), Reloc(5, Func("sched", 0, 6), 0, FALSE),
    Reloc(21, Import("g", 1), 0, FALSE), Reloc(22, Part(".data@1"), 2, TRUE),
    Reloc(23, Part(".text@1"), 5, TRUE), Reloc(23, Object("own", 1, "data", 130), 0, FALSE),
    Reloc(41, Object("own", 2, "data", 150), 0, FALSE), Reloc(22, Part(".text@1"), 7, FALSE),
    \* A store of an immediate by vmlinux.
    [Reloc(9, Object("ro", 0, "rodata", 100), 0, TRUE) EXCEPT !.imm = 1] }

Insn(a, o, v, t) == [at |-> a, op |-> o, via |-> v, target |-> t]
Insns ==
  { Insn(0, "call", "imm", 4), Insn(1, "call", "imm", 8), Insn(6, "call", "imm", 9), Insn(3, "call", "imm", 6), Insn(4, "jmp", "imm", 6), Insn(5, "call", "mem", 0),
    Insn(21, "call", "imm", 24), Insn(24, "call", "imm", 20), Insn(8, "jmp", "mem", 6),
    Insn(2, "jmp", "mem", 7), Insn(9, "jcc", "imm", 4) }

\* What does not hold: conditional jumps and pointers into a section are missed.
JumpsListed ==
  Answered /\ root \in Safe \ StopNames /\ root \in seen =>
    \A i \in insns : InBody(root, i.at) /\ i.op = "jcc" => \A s \in Owed(CodeAt(i.target)) : Printed(s)
PointersListed ==
  Answered /\ root \in Safe \ StopNames /\ root \in seen =>
    \A r \in relocs : InBody(root, r.at) /\ Clear(r) => \A s \in Owed(CodeOf(r)) : Printed(s)
=============================================================================
