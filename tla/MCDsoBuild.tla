----------------------------- MODULE MCDsoBuild -----------------------------
(* Instances of DsoBuild for TLC: kernel functions and a module, placed in   *)
(* every way that matters to pages.                                          *)
EXTENDS DsoKernel, TLC

CONSTANT Family  \* which jobs to take

SlotLabel(section, value) == section \o "+" \o ToString(value)

AllNames == {"api", "dep", "ro", "kmalloc", "array", "rax", "r11", "ret", "other", "gone", "fn", "init", "near", "table",
             ".text+0", ".rodata+0", ".data+0", ".init.text+8"}
RegisterOfName == "array" :> "rax" @@ "rax" :> "rax" @@ "r11" :> "r11"
HashOfName == "api" :> 7 @@ "dep" :> 10 @@ "ro" :> 64 @@ "kmalloc" :> 4099 @@ "array" :> 5 @@ "rax" :> 8 @@ "r11" :> 11
              @@ "ret" :> 13 @@ "other" :> 4 @@ "gone" :> 3 @@ "fn" :> 71 @@ "init" :> 1290 @@ "near" :> 17 @@ "table" :> 19
              @@ ".text+0" :> 128 @@ ".rodata+0" :> 22 @@ ".data+0" :> 9 @@ ".init.text+8" :> 30
BytesOfName == [n \in AllNames \cup {"libshim.so"} |-> Len(n) + 1]

Page(k) == (64 + k) * PageSize
At(n, a, z, f, m) == [name |-> n, address |-> a, size |-> z, func |-> f, module |-> m]
Graph(ns, es) == [whole |-> TRUE, nodes |-> ns, modules |-> << "kernel", "m", "n" >>, edges |-> es]

-----------------------------------------------------------------------------
(* Kernel functions: api calls dep, a thunk and kmalloc, dep reads ro. *)

KernelGraph(dep, thunk, ret, ro) ==
  Graph(<< At("api", Page(0) + 256, 64, TRUE, 1), dep, ro, At("kmalloc", Page(9), 32, TRUE, 1), thunk, ret,
           At("other", Page(11), 32, TRUE, 2), At("table", Page(12), 32, FALSE, 1) >>,
        << {2, 4, 5}, {3, 6, 1}, {}, {1, 7}, {}, {}, {2}, {} >>)

Deps   == {At("dep", Page(p) + o, z, TRUE, 1) : p \in {0, 1, 3}, o \in {0, 4000}, z \in {0, 64, 5000}}
Thunks == {At(n, Page(p) + o, 32, TRUE, 1) : n \in {"array", "r11"}, p \in {0, 2, 5}, o \in {576, 4094}}
Rets   == {At("ret", Page(p) + 1408, 2, TRUE, 1) : p \in {2, 6}}
Ros    == {At("ro", a, 40, FALSE, 1) : a \in {Page(8), Page(7) + 4080, Page(1) + 2000}}

Job(ls, sh, g, k) == [lines |-> ls, shims |-> sh, krg |-> g, ko |-> k]
Dep1 == At("dep", Page(1) + 64, 64, TRUE, 1)
Dep2 == At("dep", Page(1) + 4064, 64, TRUE, 1)
Ro1  == At("ro", Page(8), 40, FALSE, 1)
Ret1 == At("ret", Page(6) + 1408, 2, TRUE, 1)
R11  == At("r11", Page(2) + 576, 32, TRUE, 1)

Requests == {<< "api" >>, << "dep", NoName, "api", "dep" >>, << "gone" >>, << "api", "gone", "ret" >>,
             << "api", "other" >>, << NoName >>, << "kmalloc", "api" >>, << "rax", "api" >>, << "api", "array" >>, << "table" >>}

Placements == {Job(<< "api" >>, {"kmalloc", "r11"}, KernelGraph(d, R11, Ret1, r), NoKo) : d \in Deps, r \in Ros}
ThunkJobs  == {Job(<< "api" >>, sh, KernelGraph(d, t, r, Ro1), NoKo) :
                 sh \in {{}, {"rax", "r11"}, {"array", "kmalloc"}, {"r11"}}, d \in {Dep1}, t \in Thunks, r \in Rets}
ListJobs   == {Job(ls, sh, [KernelGraph(Dep1, R11, Ret1, Ro1) EXCEPT !.whole = w], NoKo) :
                 ls \in Requests, sh \in {{"kmalloc", "r11"}, {"kmalloc", "dep", "api"}, {"array", "rax", "kmalloc"}},
                 w \in BOOLEAN}

-----------------------------------------------------------------------------
(* A module: .text, .init.text, .return_sites, .rodata, .data, .this_module and *)
(* __jump_table, which has no dot *)

InKo(n, g, w, x, a, z) == [name |-> n, group |-> g, dotted |-> n # "__jump_table", alloc |-> TRUE, write |-> w, exec |-> x, align |-> a, size |-> z]
Sections(text, sites, ro, data) ==
  << InKo(".text", "core", FALSE, TRUE, 16, text), InKo(".init.text", "init", FALSE, TRUE, 16, 64),
     InKo(".return_sites", "return_sites", FALSE, FALSE, 4, sites), InKo(".rodata", "core", FALSE, FALSE, 32, ro),
     InKo(".data", "core", TRUE, FALSE, 32, data), InKo(".this_module", "core", TRUE, FALSE, 64, 256),
     InKo("__jump_table", "core", TRUE, FALSE, 8, 32) >>

KoSyms == << [name |-> "api", shndx |-> 1, value |-> 16], [name |-> "fn", shndx |-> 1, value |-> 80],
             [name |-> NoName, shndx |-> 1, value |-> 0], [name |-> NoName, shndx |-> 4, value |-> 0],
             [name |-> NoName, shndx |-> 5, value |-> 0], [name |-> "init", shndx |-> 2, value |-> 8],
             [name |-> "kmalloc", shndx |-> 0, value |-> 0], [name |-> "dep", shndx |-> 0, value |-> 0],
             [name |-> "gone", shndx |-> 0, value |-> 0] >>
Entry(o, s, x) == [info |-> 5, offset |-> o, sym |-> s, addend |-> x, abs64 |-> TRUE]

\* The module loader leaves out .init and the sites: text, read-only and writable
\* sections each start on a page.
Loaded(b, ss) ==
  LET ro == b + PageUp(ss[1].size)  data == ro + PageUp(ss[4].size)
      this == data + align(ss[5].size, 64)
  IN  1 :> b @@ 4 :> ro @@ 5 :> data @@ 6 :> this @@ 7 :> this + 256

CoreAt == Page(20)
ModuleNodes(b, ss, near) ==
  LET data == Loaded(b, ss)[5] IN
  << At("dep", Page(1) + 4064, 64, TRUE, 1), At("kmalloc", Page(9), 32, TRUE, 1), At("api", b + 16, 64, TRUE, 2),
     At("fn", b + 80, 64, TRUE, 2), At("ret", Page(6), 2, TRUE, 1), At("near", data + near, 64, TRUE, 3) >>

Module(ss, es, inits) ==
  [given |-> TRUE, whole |-> TRUE, sections |-> ss, symbols |-> KoSyms,
   relas |-> << [Entry(4, 7, 0) EXCEPT !.info = 1], [Entry(0, 2, 0) EXCEPT !.info = 7, !.abs64 = FALSE] >> \o es \o inits,
   kernel |-> Loaded(CoreAt, ss)]

ModuleJob(ss, es, near, calls) ==
  Job(<< "api" >>, {"kmalloc"},
      Graph(ModuleNodes(CoreAt, ss, near), << {5}, {1}, calls, {1}, {}, {} >>), Module(ss, es, << [Entry(24, 6, 0) EXCEPT !.info = 6] >>))

SectionSizes == {Sections(t, s, r, d) : t \in {200, 8200}, s \in {0, 4096}, r \in {40, 4096}, d \in {24, 4090}}
SlotChoices  == {<< >>, << Entry(0, 7, 0), Entry(8, 4, 8) >>, << Entry(16, 8, 0), Entry(0, 2, 0) >>,
                 << Entry(8, 5, 16), Entry(0, 7, 0), Entry(16, 7, 0) >>, << Entry(0, 9, 0) >>,
                 << [Entry(0, 2, 0) EXCEPT !.abs64 = FALSE] >>}
ModuleJobs == {ModuleJob(ss, es, near, calls) :
                 ss \in SectionSizes, es \in SlotChoices, near \in {2 * PageSize}, calls \in {{2}, {4, 2}, {6, 1}}}
OddModules == {[ModuleJob(Sections(200, 0, 40, 24), << >>, PageSize, {2}) EXCEPT !.lines = ls, !.ko.whole = w] :
                 ls \in {<< "dep" >>, << "fn", "api" >>}, w \in BOOLEAN}

\* A slot with a static function of the second page of .text, by section and distance.
StaticSlots == {ModuleJob(Sections(8200, 0, 40, 24), << Entry(0, 3, 5000) >>, PageSize, {2})}

\* The loader keeps .exit.text, which has no room on the page of .text.
Unloadable ==
  LET m == ModuleJob(Append(Sections(4000, 0, 40, 24), InKo(".exit.text", "exit", FALSE, TRUE, 16, 200)),
                     << Entry(0, 7, 0) >>, PageSize, {2})
      k == m.ko.kernel
  IN  [m EXCEPT !.ko.kernel = [i \in DOMAIN k \cup {8} |-> IF i = 1 THEN k[1] ELSE IF i = 8 THEN k[1] + 4000 ELSE k[i] + PageSize],
                !.krg.nodes[6].address = @ + PageSize]

\* dep begins on the page before the thunks and ends on theirs.
Straddles == {Job(<< "api" >>, {"kmalloc", "r11"}, KernelGraph(Dep2, R11, Ret1, Ro1), NoKo)}

AllJobs == CASE Family = "all"      -> Placements \cup ThunkJobs \cup ListJobs \cup ModuleJobs \cup OddModules
             [] Family = "slots"    -> StaticSlots
             [] Family = "straddle" -> Straddles
             [] Family = "exit"     -> {Unloadable}

\* These jobs are what the theorems about DsoBuild are about.
ASSUME OfOneKernel == OneKernel /\ (Family # "exit" => InThatKernel)
=============================================================================
