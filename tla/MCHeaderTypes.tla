---------------------------- MODULE MCHeaderTypes ----------------------------
(* Instances of HeaderTypes for TLC: a kernel and two modules that share     *)
(* names of functions and of types, with what bpftool prints for each.       *)
EXTENDS HeaderTypes, TLC

CONSTANT Family  \* which jobs to take: "all", "embedded" or "misread"

AllNames   == {"k", "dup", "f", "g", "deep", "h", "none", "int", "u32", "list", "X", "E", "ctx", "ctx_t", "op_t", "far", "fn_t", "ops_t"}
AllSources == {"vmlinux", "m", "n", "m.ko"}
AllIds     == 1 .. 35

MkType(k, n, r) == [kind |-> k, name |-> n, refs |-> r]
NoType == MkType("INT", Anon, << >>)

\* What is at an id that a source does not have is never read.
MkBtf(here, dump) ==
  [readable |-> TRUE, printable |-> TRUE, ids |-> DOMAIN here,
   types |-> [i \in AllIds |-> IF i \in DOMAIN here THEN here[i] ELSE NoType], dump |-> dump]
NoBtf == MkBtf([i \in {} |-> NoType], << >>)

MkDecl(t, n, v, s, i) ==
  [tag |-> t, name |-> n, version |-> v, type |-> << s, i >>, reads |-> [name |-> n, version |-> v]]
Misread(t, n, s, i, as) == [MkDecl(t, n, 1, s, i) EXCEPT !.reads.name = as]

\* vmlinux: int k(int, X *), int dup(int, X *), E deep(far ******).
KernelTypes(list) ==
  1 :> MkType("INT", "int", << >>) @@ 2 :> MkType("STRUCT", "list", list) @@ 3 :> MkType("PTR", Anon, << 2 >>)
  @@ 4 :> MkType("TYPEDEF", "u32", << 1 >>) @@ 5 :> MkType("STRUCT", "X", << 4 >>) @@ 6 :> MkType("PTR", Anon, << 5 >>)
  @@ 7 :> MkType("FUNC_PROTO", Anon, << 1, 6 >>) @@ 8 :> MkType("FUNC", "k", << 7 >>) @@ 9 :> MkType("FUNC", "dup", << 7 >>)
  @@ 10 :> MkType("ENUM", "E", << >>) @@ 11 :> MkType("FUNC_PROTO", Anon, << 10, 12 >>) @@ 12 :> MkType("PTR", Anon, << 13 >>)
  @@ 13 :> MkType("PTR", Anon, << 14 >>) @@ 14 :> MkType("VOLATILE", Anon, << 15 >>) @@ 15 :> MkType("UNION", "far", << 16, 0 >>)
  @@ 16 :> MkType("ARRAY", Anon, << 17 >>) @@ 17 :> MkType("STRUCT", Anon, << 3 >>) @@ 18 :> MkType("FUNC", "deep", << 11 >>)

KernelDump ==
  << MkDecl("TYPEDEF", "u32", 1, "vmlinux", 4), MkDecl("STRUCT", "list", 1, "vmlinux", 2), MkDecl("STRUCT", "X", 1, "vmlinux", 5),
     MkDecl("ENUM", "E", 1, "vmlinux", 10), MkDecl("UNION", "far", 1, "vmlinux", 15) >>
Kernel(list) == MkBtf(KernelTypes(list), KernelDump)

\* m: u32 f(ctx_t, member), with ctx {list or list *; ctx *; u32}, a struct X of its
\* own or none, op_t a pointer to a function.
ModuleTypes(embeds, param) ==
  20 :> MkType("STRUCT", "ctx", << IF embeds THEN 2 ELSE 3, 21, 4 >>) @@ 21 :> MkType("PTR", Anon, << 20 >>)
  @@ 22 :> MkType("TYPEDEF", "ctx_t", << 21 >>) @@ 23 :> MkType("FUNC_PROTO", Anon, << 4, 22, param >>)
  @@ 24 :> MkType("PTR", Anon, << 25 >>) @@ 25 :> MkType("CONST", Anon, << 26 >>) @@ 26 :> MkType("STRUCT", "X", << 1 >>)
  @@ 27 :> MkType("FUNC", "f", << 23 >>) @@ 28 :> MkType("FUNC", "dup", << 23 >>) @@ 29 :> MkType("FWD", "far", << >>)
  @@ 30 :> MkType("TYPEDEF", "op_t", << 31 >>) @@ 31 :> MkType("PTR", Anon, << 23 >>)

\* The dump of a module holds the kernel's types, too; swapped puts its own X first.
ModuleDump(s, swapped) ==
  << MkDecl("TYPEDEF", "u32", 1, "vmlinux", 4), MkDecl("STRUCT", "list", 1, "vmlinux", 2),
     MkDecl("STRUCT", "X", 1, IF swapped THEN s ELSE "vmlinux", IF swapped THEN 26 ELSE 5),
     MkDecl("STRUCT", "ctx", 1, s, 20), MkDecl("TYPEDEF", "ctx_t", 1, s, 22),
     MkDecl("STRUCT", "X", 2, IF swapped THEN "vmlinux" ELSE s, IF swapped THEN 5 ELSE 26),
     MkDecl("TYPEDEF", "op_t", 1, s, 30) >>
Module(s, embeds, param, swapped) == MkBtf(ModuleTypes(embeds, param), ModuleDump(s, swapped))

\* A typedef with the name of two structs.
Twins == [Module("m", FALSE, 24, FALSE) EXCEPT !.types[22].name = "X", !.dump[5].name = "X", !.dump[5].reads.name = "X"]

\* fn_t is a function type, ops_t a struct with a pointer to a function called op_t:
\* the first is not read, the second is read as op_t, before op_t itself or after it.
OddTypes(param) ==
  ModuleTypes(FALSE, param) @@ 32 :> MkType("TYPEDEF", "fn_t", << 23 >>) @@ 33 :> MkType("PTR", Anon, << 32 >>)
  @@ 34 :> MkType("TYPEDEF", "ops_t", << 35 >>) @@ 35 :> MkType("STRUCT", Anon, << 31, 30 >>)
Odd(s, param, first) ==
  LET dump == ModuleDump(s, FALSE)  ops == Misread("TYPEDEF", "ops_t", s, 34, "op_t")
      fn == Misread("TYPEDEF", "fn_t", s, 32, Unread)
  IN  MkBtf(OddTypes(param), IF first THEN << fn, ops >> \o dump ELSE dump \o << ops, fn >>)

\* n: void g(E), int dup(list *), int h(struct without a name), where E is its own.
OtherTypes ==
  20 :> MkType("ENUM", "E", << >>) @@ 21 :> MkType("FUNC_PROTO", Anon, << 0, 20 >>) @@ 22 :> MkType("FUNC", "g", << 21 >>)
  @@ 23 :> MkType("FUNC_PROTO", Anon, << 1, 3 >>) @@ 24 :> MkType("FUNC", "dup", << 23 >>) @@ 25 :> MkType("FUNC", "k", << 7 >>)
  @@ 26 :> MkType("STRUCT", Anon, << 1 >>) @@ 27 :> MkType("FUNC_PROTO", Anon, << 1, 26 >>) @@ 28 :> MkType("FUNC", "h", << 27 >>)
Other == MkBtf(OtherTypes, << MkDecl("STRUCT", "list", 1, "vmlinux", 2), MkDecl("ENUM", "E", 1, "vmlinux", 10), MkDecl("ENUM", "E", 2, "n", 20) >>)

Sys(kernel, m, n) == [s \in AllSources |-> IF s = "vmlinux" THEN kernel ELSE IF s = "n" THEN n ELSE m]
Usual == Sys(Kernel(<< 3 >>), Module("m", FALSE, 24, FALSE), Other)

MkJob(names, given, listed, btf, kallsyms) ==
  [names |-> names, refused |-> FALSE, given |-> given, listed |-> listed, btf |-> btf, kallsyms |-> kallsyms]

Text(n, o)   == [name |-> n, owner |-> o, text |-> TRUE, exported |-> FALSE]
Export(n, o) == [name |-> n, owner |-> o, text |-> FALSE, exported |-> TRUE]
Local(n, o)  == [name |-> n, owner |-> o, text |-> FALSE, exported |-> FALSE]
File(n, f)   == [name |-> n, file |-> f]

Requests == {<< "k" >>, << "dup" >>, << "f", "dup" >>, << "g", "f" >>, << "k", "g", "deep" >>, << "f", "none", "k" >>}
Lines    == {Text("dup", "vmlinux"), Text("dup", "n"), Export("dup", "m"), Export("dup", "n"), Text("k", "vmlinux"), Local("dup", "m"), Text("dup", "m.ko")}

\* What several sources define: every order of lines, and every choice of modules.
Owned2 == {MkJob(r, << >>, << "m", "n" >>, Usual, << a, b, c >>) :
             r \in {<< "dup", "k" >>, << "f", "dup" >>}, a \in Lines, b \in Lines, c \in {Export("dup", "n"), Text("dup", "n"), Local("f", "m")}}
Chosen2 == {MkJob(r, g, l, Usual, k) :
             r \in Requests,
             g \in {<< >>, << File("m", "m.ko") >>, << File("n", NoFile), File("m", NoFile) >>, << File("vmlinux", NoFile) >>, << File("m.ko", "m.ko"), File("m", "m") >>},
             l \in {<< >>, << "m" >>, << "n", "m" >>, << "m", "n" >>},
             k \in {<< >>, << Text("k", "vmlinux"), Text("dup", "m") >>}}

\* What the types refer to, what the dump prints first, and what fails.
Shapes ==
  {MkJob(r, << >>, l, Sys(Kernel(list), Module("m", FALSE, param, swapped), Other), << >>) :
     r \in {<< "f", "k" >>, << "k", "f" >>, << "g", "f" >>}, l \in {<< "n", "m" >>},
     list \in {<< >>, << 3 >>, << 3, 12 >>}, param \in {0, 4, 6, 24, 26, 29, 30}, swapped \in BOOLEAN}
Broken ==
  {[MkJob(r, << >>, << "m", "n" >>, [Usual EXCEPT ![s].readable = a, ![s].printable = b], k) EXCEPT !.refused = c] :
     r \in {<< "f" >>, << "k" >>, << "h" >>, << >>}, s \in {"vmlinux", "m", "n"}, a \in BOOLEAN, b \in BOOLEAN, c \in BOOLEAN, k \in {<< Text("k", "vmlinux") >>}}

Named == {MkJob(<< "f" >>, << >>, << "m" >>, Sys(Kernel(<< 3 >>), Twins, Other), << >>)}

Embedded == {MkJob(<< "f" >>, << >>, << "m" >>, Sys(Kernel(<< 3 >>), Module("m", TRUE, 24, FALSE), Other), << >>)}

Misreads ==
  {MkJob(r, << >>, << "m" >>, Sys(Kernel(<< 3 >>), Odd("m", param, first), Other), << >>) :
     r \in {<< "f" >>, << "k", "f" >>}, param \in {30, 33, 34}, first \in BOOLEAN}

AllJobs == CASE Family = "embedded" -> Embedded \cup Broken
             [] Family = "misread"  -> Misreads \cup Broken
             [] OTHER -> Owned2 \cup Chosen2 \cup Shapes \cup Broken \cup Named \cup Embedded \cup Misreads
=============================================================================
