----------------------------- MODULE HeaderTypes -----------------------------
(***************************************************************************)
(* kernel_cgd/kerne_type/vkso_gen_types.py: the C header of the requested   *)
(* functions, from the BTF of the kernel and of its modules.  It finds the  *)
(* BTF source of each function, by /proc/kallsyms where several have the    *)
(* name, collects the types that its prototype reaches, and slices their    *)
(* definitions out of the C that bpftool prints for the whole source.       *)
(*                                                                         *)
(* A source is named by its label, a type by its source and id.  bpftool is *)
(* external: it gives the types of a source and the list of the definitions *)
(* that it prints.  No released bpftool prints single types by id, so the   *)
(* first attempt of dump_c_for_ids always falls back to the slices.         *)
(***************************************************************************)
EXTENDS Integers, Sequences, FiniteSets

CONSTANTS
  Sources,         \* labels of BTF sources
  Base,            \* label of the kernel's own BTF, "vmlinux"
  Names,           \* names of functions and types
  Ids,             \* type ids but 0, which is void
  RecursionLimit,  \* calls of add_type_closure within each other
  Jobs             \* inputs of one run

NoFile == "no file"  \* a module argument that is no file
Anon   == "(anon)"
Unread == "(unread)" \* what extract_typedef_name makes of a typedef that it cannot read

Kinds    == {"INT", "PTR", "ARRAY", "STRUCT", "UNION", "ENUM", "FWD", "TYPEDEF", "VOLATILE", "CONST", "RESTRICT", "FUNC", "FUNC_PROTO"}
Layouts  == {"STRUCT", "UNION", "ENUM", "TYPEDEF"}  \* the kinds that a header defines
Followed == Kinds \ {"INT", "ENUM", "FWD"}          \* those whose types belong to the closure

\* ENUM64 and FLOAT are ENUM and INT here; gcc writes no TYPE_TAG and no DECL_TAG.
\* version n > 1 stands for the suffix ___n that bpftool gives to the n-th type of a name.
Type  == [kind : Kinds, name : Names \cup {Anon}, refs : Seq(Ids \cup {0})]
\* reads: the name that the slicer's patterns find in the printed text.
Place == Sources \X Ids
Read  == [name : Names \cup {Unread}, version : Nat \ {0}]
Decl  == [tag : Layouts, name : Names, version : Nat \ {0}, type : Place, reads : Read]
Btf   == [readable : BOOLEAN, printable : BOOLEAN, ids : SUBSET Ids, types : [Ids -> Type], dump : Seq(Decl)]
Argument == [name : Sources, file : Sources \cup {NoFile}]
Symbol   == [name : Names, owner : Sources, text : BOOLEAN, exported : BOOLEAN]

\* names: those of --funcs-file and --funcs, refused if the file is not a list of
\* names; given: arguments --module with the file that they name; listed: the
\* modules in /sys/kernel/btf; kallsyms: its lines of global text and of exports.
Job == [names : Seq(Names), refused : BOOLEAN, given : Seq(Argument), listed : Seq(Sources \ {Base}),
        btf : [Sources -> Btf], kallsyms : Seq(Symbol)]

ASSUME HeaderConstants ==
  /\ Base \in Sources /\ NoFile \notin Sources /\ Anon \notin Names /\ Unread \notin Names
  /\ Ids \subseteq Nat \ {0} /\ IsFiniteSet(Ids) /\ IsFiniteSet(Sources) /\ RecursionLimit \in Nat

\* A function has a prototype, and what is not followed refers to nothing.
ASSUME HeaderInputs ==
  \A j \in Jobs :
    /\ j \in Job
    /\ \A s \in Sources : \A i \in j.btf[s].ids :
         LET t == j.btf[s].types[i] IN
         IF t.kind = "FUNC" THEN t.refs # << >> /\ t.refs[1] # 0 ELSE t.kind \notin Followed => t.refs = << >>

IsReadRight(d) == d.reads = [name |-> d.name, version |-> d.version]

\* Only a typedef can be read wrongly: one of a function type or of an array of
\* arrays not at all, one of a struct with a pointer to a function as a member
\* under the name of that member.
ASSUME DumpsRead ==
  \A j \in Jobs, s \in Sources : \A k \in DOMAIN j.btf[s].dump :
    LET d == j.btf[s].dump[k] IN d.tag # "TYPEDEF" => IsReadRight(d)

VARIABLES
  pc,                 \* the step main() is at, "raised" after an exit with an error
  job,                \* the input
  todo,               \* requests that are not handled yet
  module_candidates,  \* sources to look into, in this order
  read,               \* how far the loop of this step is
  owners,             \* global_text_owners and exported_symbol_owners
  duplicates,         \* names with two owners, for both
  source_order,       \* the sources that are loaded, then those still to emit
  stack,              \* calls of add_type_closure to come
  marked,             \* the types of all sources that are marked
  missing_required,   \* requests without a source
  decl_order,         \* the functions with their sources
  header,             \* the definitions written so far
  declared            \* the declarations written so far

inputs == << job, module_candidates >>
hints  == << owners, duplicates >>
closes == << stack, marked >>
chosen == << missing_required, decl_order >>
output == << header, declared >>
vars   == << pc, inputs, todo, read, hints, source_order, closes, chosen, output >>

Hints == {"text", "exported"}

Init ==
  /\ pc = "requests" /\ job \in Jobs /\ todo = << >> /\ module_candidates = << >> /\ read = 0
  /\ owners = [h \in Hints |-> [n \in {} |-> Base]] /\ duplicates = [h \in Hints |-> {}]
  /\ source_order = << >> /\ stack = << >> /\ marked = {}
  /\ missing_required = {} /\ decl_order = << >> /\ header = << >> /\ declared = << >>

types(s) == job.btf[s].types
Within(x, s) == \E k \in DOMAIN s : s[k] = x

-----------------------------------------------------------------------------
(* load_requests_from_file, resolve_module_btf_path, list_module_btf_candidates *)

\* A file of resolved addresses or a broken graph is refused, and so is a run
\* without a request.
ReadRequests ==
  /\ pc = "requests"
  /\ todo' = job.names
  /\ pc' = IF job.refused \/ job.names = << >> THEN "raised" ELSE "candidates"
  /\ UNCHANGED << inputs, read, hints, source_order, closes, chosen, output >>

\* A module that is loaded counts more than the file given for it.
resolve_module_btf_path(g) == IF g.name = Base \/ Within(g.name, job.listed) THEN g.name ELSE g.file

Arguments == job.given \o [k \in DOMAIN job.listed |-> [name |-> job.listed[k], file |-> NoFile]]

AddCandidate ==
  /\ pc = "candidates" /\ read < Len(Arguments)
  /\ LET source_id == resolve_module_btf_path(Arguments[read + 1]) IN
       IF source_id = NoFile THEN pc' = "raised" /\ UNCHANGED << read, module_candidates >>
       ELSE /\ module_candidates' = IF Within(source_id, module_candidates) THEN module_candidates
                                    ELSE Append(module_candidates, source_id)
            /\ read' = read + 1 /\ UNCHANGED pc
  /\ UNCHANGED << job, todo, hints, source_order, closes, chosen, output >>

LoadBase ==
  /\ pc = "candidates" /\ read = Len(Arguments)
  /\ pc' = IF job.btf[Base].readable THEN "kallsyms" ELSE "raised"
  /\ source_order' = << Base >> /\ read' = 0
  /\ UNCHANGED << inputs, todo, hints, closes, chosen, output >>

-----------------------------------------------------------------------------
(* load_kallsyms_owner_hints. The file is read to its end: of a failing read     *)
(* the code keeps the lines before it and does not drop duplicates.             *)

Owned(h, n, o) == [m \in DOMAIN owners[h] \cup {n} |-> IF m = n THEN o ELSE owners[h][m]]

\* Mutant: the last owner wins.
LastOwner(h, l) == [owners |-> Owned(h, l.name, l.owner), duplicates |-> duplicates[h]]

\* The first owner of a name stays; a name with another one is a duplicate.
remember_unique_owner(h, l) ==
  IF l.name \notin DOMAIN owners[h] THEN [owners |-> Owned(h, l.name, l.owner), duplicates |-> duplicates[h]]
  ELSE [owners |-> owners[h], duplicates |-> duplicates[h] \cup (IF owners[h][l.name] # l.owner THEN {l.name} ELSE {})]

Applies(h, l) == IF h = "text" THEN l.text ELSE l.exported

ReadKallsyms ==
  /\ pc = "kallsyms" /\ read < Len(job.kallsyms)
  /\ read' = read + 1
  /\ LET l == job.kallsyms[read + 1] IN
       /\ owners' = [h \in Hints |-> IF Applies(h, l) THEN remember_unique_owner(h, l).owners ELSE owners[h]]
       /\ duplicates' = [h \in Hints |-> IF Applies(h, l) THEN remember_unique_owner(h, l).duplicates ELSE duplicates[h]]
  /\ UNCHANGED << pc, inputs, todo, source_order, closes, chosen, output >>

DropDuplicates ==
  /\ pc = "kallsyms" /\ read = Len(job.kallsyms)
  /\ owners' = [h \in Hints |-> [n \in DOMAIN owners[h] \ duplicates[h] |-> owners[h][n]]]
  /\ pc' = "resolve" /\ read' = 0
  /\ UNCHANGED << inputs, todo, duplicates, source_order, closes, chosen, output >>

-----------------------------------------------------------------------------
(* ensure_source_loaded, discover_sources_for_func, filter_matches_by_owner_hints *)

IsUnloaded(k) == ~Within(module_candidates[k], source_order)

LoadSource ==
  /\ pc = "resolve" /\ todo # << >>
  /\ \E k \in DOMAIN module_candidates :
       /\ IsUnloaded(k) /\ \A j \in 1 .. k - 1 : ~IsUnloaded(j)
       /\ IF job.btf[module_candidates[k]].readable
            THEN source_order' = Append(source_order, module_candidates[k]) /\ UNCHANGED pc
            ELSE pc' = "raised" /\ UNCHANGED source_order
  /\ UNCHANGED << inputs, todo, read, hints, closes, chosen, output >>

FuncIds(s, fn) == {i \in job.btf[s].ids : types(s)[i].kind = "FUNC" /\ types(s)[i].name = fn}

\* Of several entries of one name the first.
find_func_proto_id(s, fn) == types(s)[CHOOSE i \in FuncIds(s, fn) : \A j \in FuncIds(s, fn) : i <= j].refs[1]

\* Where to look: the kernel comes first, and again if it was given as a module.
SourceAt(k) == IF k = 0 THEN Base ELSE module_candidates[k]
discover_sources_for_func(fn) == {k \in 0 .. Len(module_candidates) : FuncIds(SourceAt(k), fn) # {}}

filter_matches_by_owner_hints(fn, matches) ==
  LET By(h) == {k \in matches : fn \in DOMAIN owners[h] /\ SourceAt(k) = owners[h][fn]}
  IN  IF By("text") # {} THEN By("text") ELSE IF By("exported") # {} THEN By("exported") ELSE matches

\* Without a source, or with more than one, the run goes on, to name all such requests.
ResolveRequest ==
  /\ pc = "resolve" /\ todo # << >> /\ \A k \in DOMAIN module_candidates : ~IsUnloaded(k)
  /\ todo' = Tail(todo)
  /\ LET fn == Head(todo)  matches == filter_matches_by_owner_hints(fn, discover_sources_for_func(fn)) IN
       \/ /\ \A k \in matches : matches # {k}
          /\ missing_required' = missing_required \cup {fn} /\ UNCHANGED << pc, decl_order, stack >>
       \/ \E k \in matches :
            LET s == SourceAt(k) IN
            /\ matches = {k}
            /\ decl_order' = IF Within(<< s, fn >>, decl_order) THEN decl_order ELSE Append(decl_order, << s, fn >>)
            /\ stack' = << [src |-> s, id |-> find_func_proto_id(s, fn), depth |-> 1] >>
            /\ pc' = "closure" /\ UNCHANGED missing_required
  /\ UNCHANGED << inputs, read, hints, source_order, marked, output >>

-----------------------------------------------------------------------------
(* add_type_closure *)

\* Mutant: a module does not look into the types of the kernel.
HomeOnly(s, i) == << s, i >>

\* An id that only the kernel's BTF has is a type of the kernel: split BTF.
lookup_type(s, i) == IF i \notin job.btf[s].ids /\ i \in job.btf[Base].ids THEN << Base, i >> ELSE << s, i >>

KindOf(y) == IF y[2] \in job.btf[y[1]].ids THEN types(y[1])[y[2]].kind ELSE "none"
References(y) == IF KindOf(y) \in Followed THEN types(y[1])[y[2]].refs ELSE << >>

\* One call: void and what is marked return at once; else the type is marked,
\* and then its own types. The kernel's type costs a call more. Python ends the
\* run when calls nest too deep.
add_type_closure ==
  /\ pc = "closure" /\ stack # << >>
  /\ LET c == Head(stack)  y == lookup_type(c.src, c.id)  refs == References(y)
         depth == IF y[1] = c.src THEN c.depth ELSE c.depth + 1
         calls == [k \in DOMAIN refs |-> [src |-> y[1], id |-> refs[k], depth |-> depth + 1]]
     IN  IF depth > RecursionLimit
           THEN pc' = "raised" /\ UNCHANGED closes
           ELSE /\ UNCHANGED pc
                /\ IF c.id = 0 \/ y \in marked THEN stack' = Tail(stack) /\ UNCHANGED marked
                   ELSE stack' = calls \o Tail(stack) /\ marked' = marked \cup {y}
  /\ UNCHANGED << inputs, todo, read, hints, source_order, chosen, output >>

EndClosure ==
  /\ pc = "closure" /\ stack = << >>
  /\ pc' = "resolve"
  /\ UNCHANGED << inputs, todo, read, hints, source_order, closes, chosen, output >>

\* Mutant: requests without a source are only warned of.
EndRequestsAnyway ==
  /\ pc = "resolve" /\ todo = << >>
  /\ pc' = "emit" /\ source_order' = Append(Tail(source_order), Base)
  /\ UNCHANGED << inputs, todo, read, hints, closes, chosen, output >>

\* The types of modules are written before those of the kernel.
EndRequests ==
  /\ pc = "resolve" /\ todo = << >>
  /\ IF missing_required # {} THEN pc' = "raised" /\ UNCHANGED source_order
     ELSE pc' = "emit" /\ source_order' = Append(Tail(source_order), Base)
  /\ UNCHANGED << inputs, todo, read, hints, closes, chosen, output >>

-----------------------------------------------------------------------------
(* dump_c_for_ids, by slices of the full dump *)

IsNamed(y) == KindOf(y) \in Layouts /\ types(y[1])[y[2]].name # Anon
KeyOf(y)   == << types(y[1])[y[2]].kind, types(y[1])[y[2]].name >>

KeysOf(s)  == {KeyOf(y) : y \in {y \in marked : y[1] = s /\ IsNamed(y)}}

\* extract_typedef_name: a definition counts for the name that is read in it.
ReadAs(d)  == << d.tag, d.reads.name >>
emitted    == {ReadAs(header[k]) : k \in DOMAIN header}
Earlier    == Sources \ {source_order[k] : k \in DOMAIN source_order}

\* Mutant: a source does not mind what the others define.
OwnTargets(s) == KeysOf(s)

\* The names to slice: none that an earlier source had, whether its dump held it
\* or not, and none twice.
Targets(s) == KeysOf(s) \ (emitted \cup UNION {KeysOf(z) : z \in Earlier})

\* Mutant: a name with a suffix is always another name.
PlainOnly(s, d) == d.reads.version = 1

\* In the dump of a module the kernel's type may have the plain name and the
\* module's the one with the suffix.
prefer_suffixed(s, n) == s # Base /\ \E k \in DOMAIN job.btf[s].dump : job.btf[s].dump[k].name = n /\ job.btf[s].dump[k].version > 1
canonical_name_for_dump(s, d) == IF d.reads.version = 1 THEN ~prefer_suffixed(s, d.reads.name) ELSE s # Base

\* A type without a name, too, calls for the dump, which does not have it.
IsDumped(s) ==
  job.btf[s].printable \/ (Targets(s) = {} /\ \A y \in marked : y[1] = s /\ KindOf(y) \in Layouts => IsNamed(y))

\* One definition of the dump.
EmitDecl ==
  /\ pc = "emit" /\ source_order # << >>
  /\ LET s == Head(source_order)  d == job.btf[s].dump[read + 1] IN
       /\ IsDumped(s) /\ read < Len(job.btf[s].dump)
       /\ header' = IF ReadAs(d) \in Targets(s) /\ canonical_name_for_dump(s, d) THEN Append(header, d) ELSE header
       /\ read' = read + 1
  /\ UNCHANGED << pc, inputs, todo, hints, source_order, closes, chosen, declared >>

\* A dump that fails ends the run, with the header as far as it is written.
EndSource ==
  /\ pc = "emit" /\ source_order # << >>
  /\ LET s == Head(source_order) IN
       IF IsDumped(s) THEN read = Len(job.btf[s].dump) /\ source_order' = Tail(source_order) /\ read' = 0 /\ UNCHANGED pc
       ELSE pc' = "raised" /\ UNCHANGED << source_order, read >>
  /\ UNCHANGED << inputs, todo, hints, closes, chosen, output >>

-----------------------------------------------------------------------------
(* render_function_decl, render_c_decl *)

Successors(y) == {lookup_type(y[1], References(y)[k]) : k \in {k \in DOMAIN References(y) : References(y)[k] # 0}}

\* What a set of types leads to, going on from types for which Inside holds.
Through(start, Inside(_)) ==
  LET reach[n \in 0 .. Cardinality(Place)] ==
        IF n = 0 THEN start
        ELSE LET before == reach[n - 1] IN before \cup UNION {Successors(y) : y \in {y \in before : Inside(y)}}
  IN  reach[Cardinality(Place)]

\* A declaration unwraps pointers, arrays, qualifiers and prototypes down to names.
IsWrapping(y) == KindOf(y) \in {"PTR", "ARRAY", "CONST", "VOLATILE", "RESTRICT", "FUNC_PROTO"}
render_c_decl(s, i) == {y \in Through({lookup_type(s, i)}, IsWrapping) : ~IsWrapping(y)}

render_function_decl ==
  /\ pc = "emit" /\ source_order = << >>
  /\ IF Len(declared) = Len(decl_order) THEN pc' = "done" /\ UNCHANGED declared
     ELSE LET d == decl_order[Len(declared) + 1] IN
          /\ declared' = Append(declared, [fn |-> d[2], types |-> render_c_decl(d[1], find_func_proto_id(d[1], d[2]))])
          /\ UNCHANGED pc
  /\ UNCHANGED << inputs, todo, read, hints, source_order, closes, chosen, header >>

Over == pc \in {"done", "raised"} /\ UNCHANGED vars

Next == \/ ReadRequests \/ AddCandidate \/ LoadBase \/ ReadKallsyms \/ DropDuplicates \/ LoadSource \/ ResolveRequest
        \/ add_type_closure \/ EndClosure \/ EndRequests \/ EmitDecl \/ EndSource \/ render_function_decl \/ Over

Spec == Init /\ [][Next]_vars

-----------------------------------------------------------------------------
(* Properties *)

Steps == {"requests", "candidates", "kallsyms", "resolve", "closure", "emit", "done", "raised"}
Call  == [src : Sources, id : Ids \cup {0}, depth : Nat \ {0}]

\* All variables have their types, and a header is written only if every request
\* has a source (missing_required of main).
TypeOK ==
  /\ pc \in Steps /\ job \in Jobs /\ todo \in Seq(Names) /\ read \in Nat
  /\ module_candidates \in Seq(Sources) /\ source_order \in Seq(Sources)
  /\ \A h \in Hints : /\ DOMAIN owners[h] \subseteq Names /\ duplicates[h] \subseteq Names
                       /\ \A n \in DOMAIN owners[h] : owners[h][n] \in Sources
  /\ stack \in Seq(Call) /\ marked \subseteq Place
  /\ missing_required \subseteq Names /\ decl_order \in Seq(Sources \X Names)
  /\ header \in Seq(Decl)
  /\ pc \in {"emit", "done"} => \A k \in DOMAIN job.names : \E d \in DOMAIN decl_order : decl_order[d][2] = job.names[k]

\* What kallsyms says of a name: its owners in the lines of this kind.
OwnersOf(h, n) == {job.kallsyms[k].owner : k \in {k \in DOMAIN job.kallsyms : job.kallsyms[k].name = n /\ Applies(h, job.kallsyms[k])}}
Searched == {SourceAt(k) : k \in 0 .. Len(module_candidates)}
Says(h, s, n) == OwnersOf(h, n) = {s} /\ s \in Searched /\ FuncIds(s, n) # {}

\* The source of a declared function is never guessed (readme.md 228-234): it is
\* the only owner of the global text symbol, else the only exporter, else the only
\* source with a function of the name; an owner without BTF of it says nothing.
SourceChosen ==
  \A s \in Sources, n \in Names : Within(<< s, n >>, decl_order) =>
    /\ s \in Searched /\ FuncIds(s, n) # {}
    /\ \/ Says("text", s, n)
       \/ (\A z \in Sources : ~Says("text", z, n)) /\ Says("exported", s, n)
       \/ \A z \in Searched : /\ ~Says("text", z, n) /\ ~Says("exported", z, n)
                              /\ FuncIds(z, n) # {} => z = s

\* What an id means in a source: split BTF numbers on from the kernel's ids.
Meant(s, i)  == IF i \in job.btf[Base].ids /\ i \notin job.btf[s].ids THEN << Base, i >> ELSE << s, i >>
RefersTo(y)  == IF y[2] \in job.btf[y[1]].ids
                  THEN {Meant(y[1], types(y[1])[y[2]].refs[k]) : k \in {k \in DOMAIN types(y[1])[y[2]].refs : types(y[1])[y[2]].refs[k] # 0}}
                  ELSE {}
Prototypes   == {Meant(decl_order[d][1], find_func_proto_id(decl_order[d][1], decl_order[d][2])) : d \in DOMAIN decl_order}

\* The types to write are the least set with the prototypes that is closed under
\* what a type refers to, across split BTF: nothing is missing where marks of the
\* kernel and of modules meet, and nothing belongs to no function (add_type_closure).
TypesExact ==
  pc = "done" =>
    LET next == [y \in marked |-> RefersTo(y)]
        Closed(S) == Prototypes \subseteq S /\ \A y \in S : next[y] \subseteq S
    IN  Closed(marked) /\ \A S \in SUBSET marked : Closed(S) => S = marked

\* No name stands for types of different tags in the dump of a module where it
\* stands for several types.
TagsApart ==
  \A s \in Sources : \A j, k \in DOMAIN job.btf[s].dump :
    LET d == job.btf[s].dump[j]  e == job.btf[s].dump[k] IN d.name = e.name /\ d.version > 1 => d.tag = e.tag

NameOf(d) == << d.tag, d.name >>
Needed    == {KeyOf(y) : y \in {y \in marked : IsNamed(y)}}
Defined   == {NameOf(header[k]) : k \in DOMAIN header}

\* No dump has a definition of this name that is read wrongly, or another one
\* that is taken for it.
ReadRight(q) ==
  \A s \in Sources : \A k \in DOMAIN job.btf[s].dump :
    LET d == job.btf[s].dump[k] IN q \in {NameOf(d), ReadAs(d)} => IsReadRight(d)

\* Of the names that extract_typedef_name reads rightly a finished header defines
\* each one that its functions need once, and no other, and its declarations use
\* none without a definition: neither the order of the sources, nor the names
\* already written, nor a name that is misread lose one (main, dump_c_for_ids).
HeaderClosed ==
  (pc = "done" /\ TagsApart) =>
    /\ \A q \in Needed \cup Defined : ReadRight(q) => q \in Needed \cap Defined
    /\ \A j, k \in DOMAIN header : j # k /\ ReadRight(NameOf(header[j])) => NameOf(header[j]) # NameOf(header[k])
    /\ \A k \in DOMAIN declared : \A y \in declared[k].types : IsNamed(y) /\ ReadRight(KeyOf(y)) => KeyOf(y) \in Defined

\* The header defines every name that its functions need. It does not: the
\* typedefs that extract_typedef_name misreads are not written.
NamesDefined == (pc = "done" /\ TagsApart) => Needed \subseteq Defined

\* Only one type of the closure has the name, and in the dump of its source no
\* other type has it, or for a module one that comes before it.
Alone(y) ==
  /\ \A z \in marked : IsNamed(z) /\ KeyOf(z) = KeyOf(y) => z = y
  /\ \E k \in DOMAIN job.btf[y[1]].dump :
       LET d == job.btf[y[1]].dump[k] IN
       /\ d.type = y
       /\ \A j \in DOMAIN job.btf[y[1]].dump :
            job.btf[y[1]].dump[j].name = d.name => j = k \/ (y[1] # Base /\ d.version = 2 /\ job.btf[y[1]].dump[j].version = 1)

\* The definition under a name that is read rightly is the type that the function's BTF means, not the
\* kernel's type of the same name that the dump of a module holds as well.
RightLayout ==
  (pc = "done" /\ TagsApart) =>
    \A k \in DOMAIN header : \A y \in marked :
      IsNamed(y) /\ Alone(y) /\ ReadRight(KeyOf(y)) /\ KeyOf(y) = NameOf(header[k]) => header[k].type = y

\* readme.md 246-252: a member by value needs the complete type before it.
InPlace(y) == KindOf(y) \in {"ARRAY", "CONST", "VOLATILE", "RESTRICT"} \/ (KindOf(y) \in {"STRUCT", "UNION"} /\ ~IsNamed(y))
ByValue(y) == IF KindOf(y) \in {"STRUCT", "UNION"} THEN {z \in Through(Successors(y), InPlace) : IsNamed(z)} ELSE {}
DefinedBeforeUse ==
  pc = "done" => \A k \in DOMAIN header : \A z \in ByValue(header[k].type) :
                   \E j \in 1 .. k - 1 : NameOf(header[j]) = KeyOf(z)
=============================================================================
