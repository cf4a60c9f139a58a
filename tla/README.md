# Verification of BinaryKernelCodeMapping

The program lets user processes call functions of the running kernel: it builds a
sparse shared object (the "stub DSO") whose text pages have the layout of kernel
pages, and a kernel module replaces those pages in the page cache of the DSO by
the kernel's own pages. This directory holds TLA+ models of the program, TLC runs
over small instances, and proofs checked by TLAPS for every instance.

## 1. Inventory of the system

| Component | Source | State | Operations | Interacts with |
| --- | --- | --- | --- | --- |
| Kernel module | `page_cache_replace/page_cache_replace.c` | table of backups (`backup_array`, `backup_count`, `is_active`), the XArray and `nrpages` of every DSO, references and `mapping`/`index` of kernel pages | `nl_recv_msg` (replace a batch), `nl_recv_restore_msg` (restore a batch), load, unload | called inside `sendto` of the manager; races with page faults and reclaim of the kernel |
| Manager | `page_cache_replace/manager.cpp` | `runtime/manager.state`, `runtime/manager.pid`, the immutable flag of the DSO, `g_restore_requested` | `replace [--hold]`, `restore`, `validate` | started and signalled by `vkso`; sends messages to the kernel module |
| Command line | `vkso` | workspace (header, library, metadata), cached KRG, whether it loaded the module and started a manager | `init`, `build`, `replace`, `exec`, `restore`, `status`, EXIT trap | runs every other part |
| Kernel relation graph | `kernel_cgd/src/krg.cpp` | symbols, call and data edges, the safe subgraph in a CSR file | build, load, closure | reads vmlinux, modules and their run-time addresses; read by checker and builder |
| Static checker | `kernel_cgd/function_checker/functions_checker.py` | worklist, hard failures, missing functions | analyse the closure, verdict PASS, FAIL, INCOMPLETE | gates the build |
| DSO builder | `make_dll/build_PIC_so.py` (older: `build_LKM_so.py`) | closure, sections, pages, offsets, page map | resolve symbols, lay out pages, write ELF and page map | its page map is what the manager sends |
| Header generator | `kernel_cgd/kerne_type/vkso_gen_types.py` | closure over BTF types | collect, print | `vkso build` |
| Shim | `make_dll/shim.c`, `shim.txt` | none | user-mode stand-ins | linked by the DSO |

Hard behaviours, and what makes each component correct:

- Kernel module: handlers of several senders interleave without a lock over the
  table; page faults bring a page back between its deletion and the insertion of
  the kernel page; reclaim leaves shadow entries; batches fail half way; the unload
  walks a table that restores clear. Correct: `nrpages` and the references stay
  exact, every grafted page can be found again, restore takes away only what was
  grafted, and after the unload no file shows kernel code.
- `vkso` and manager: two processes coordinated by files, polling and a signal, with
  a trap that must restore whatever happened. Correct: the program runs on grafted,
  immutable pages; `exec` leaves nothing behind and always returns; one workspace
  does not disturb another; what is grafted can be named.
- Graph, checker, builder: pure algorithms over what several files say, with tables that
  are computed once and used later. Correct: each name means the definition it should,
  nothing unsafe has its dependencies listed, a query prints all a safe root needs and
  nothing else; the checker visits all that its target leads to and says PASS only
  without a reason against it; every page in the page map lies where the kernel page
  lies, and file offsets and addresses agree.
- Header generator: types with ids of two number spaces, names that several sources
  define, and hints that contradict each other. Correct: the source of a function is
  never guessed, the header has each type its functions reach, once and of the right source.

`PROJECT.json` lists the hazards line by line with the properties that cover them.

## 2. Modules

| Module | Models |
| --- | --- |
| `GraftService` | abstract specification: what the kernel module promises its users |
| `PageCacheGraft` | the kernel module in full: both handlers, the table, load and unload |
| `PageCacheGraft_proofs` | type invariant, `nrpages`, references and owners of the kernel pages, for any number of senders |
| `PageCacheUnload_proofs` | the unload invariant, the refinement of `GraftService`, and what the records of a session stand for |
| `MCPageCacheGraft` | messages for TLC |
| `GuardedSession` | `vkso exec`, `replace`, `restore`, the EXIT trap, signals, and the manager; it uses the kernel module through an instance of `GraftService` |
| `GuardedSession_proofs` | type invariant for any number of overlapping commands; what serial commands do and leave behind |
| `MCGuardedSession` | commands for TLC |
| `SafeSubgraph` | `krg build` and `krg query`: merging of symbols, edges, pruning, saved graph, closure |
| `SafeSubgraph_proofs` | settled symbol tables, choice of definitions, exact closure, types, for any input; what the graph says against what the files say |
| `MCSafeSubgraph` | symbol tables, relocations and instructions for TLC |
| `FunctionChecker` | the admission checker: worklist, what each instruction does to it, verdict |
| `FunctionChecker_proofs` | worklist, closure and verdict, for any files; calls followed to the byte, for any code |
| `MCFunctionChecker` | functions of a module and of vmlinux for TLC |
| `DsoLayout` | `ManualElfBuilder`: from symbols to regions, hash table, sections, headers and page map |
| `DsoLayout_proofs` | page map, hash table, loadable file and segments, for any symbols |
| `DsoBuild` | the rest of `build_PIC_so.py`: graph, lists, the `.ko`, resolution, slots, thunk pages; it hands its symbols to `DsoLayout`, which it extends |
| `DsoKernel` | what the inputs of `DsoBuild` have in common when they come from one kernel: its graph and names, and its module loader |
| `DsoBuild_proofs` | what the builder is handed, for any graph, lists and module: types, closure, and with `DsoLayout_proofs` the finished library and its slots |
| `MCDsoBuild` | builds for TLC, with the assumptions of `DsoKernel` evaluated for them |
| `HeaderTypes` | `vkso_gen_types.py`: the source of a function, the type closure, the order and contents of the header |
| `HeaderTypes_proofs` | types, choice of the source, exact type closure, the finished header, for any BTF |
| `MCHeaderTypes` | a kernel and two modules for TLC |

`GraftService` sits between the two: `PageCacheGraft` is shown to implement it, and
`GuardedSession` uses an instance of it.

### PageCacheGraft and page_cache_replace.c

A netlink handler runs in the context of its sender, so an *actor* is a sender or the
task in `rmmod`. A message is its file and the pages still to do. One step is the code
between two points at which somebody else can change what it reads:

| Action | Code |
| --- | --- |
| `ModuleInit`, `ModuleExit`, `ExitScan`, `ExitScanPast`, `ExitDone` | `page_replace_init`, `page_replace_exit` with its loop over the table |
| `ReceiveReplace`, `ReceiveRestore` | start of `nl_recv_msg`, `nl_recv_restore_msg` |
| `LookupFails`, `Lookup`, `DeleteExisting`, `DeleteUnmapped` | `batch_process_pages`: resolve the address, `pagecache_get_page`, `delete_from_page_cache`; a page that a restore has erased meanwhile is deleted a second time as long as its `mapping` is set |
| `InsertConflict`, `Insert`, `Record`, `RecordFails` | `add_page_to_cache`; `backup_page_info` reads `backup_count` for its test and again for each use, without a lock |
| `FindBackupFails`, `Find`, `EraseNothing`, `Erase`, `EraseFails`, `Finish` | `restore_page_cache`, for a message or for the unload |
| `PageFault`, `Reclaim` | the kernel around it (external) |

The XArray lock excludes the other steps on the file between `Insert` and `Record`; a
locked page cannot be reclaimed. `oops` is set when a handler uses as a page what is
none; nothing runs after it. `stray` is set when a page that was already erased is deleted
again; the run goes on, and the counts are off from there. Left out: the address translation of
`get_kernel_code_page` (a page or a failure), messages that are refused before any
change, the double close of the global `target_file`; references of the file's own pages
(only kernel pages are counted); records whose fields two senders wrote in part; what the
build puts behind the table, of which only `backup_count` and `is_active` are known.

### GuardedSession and vkso, manager.cpp

A *shell* is one invocation of `vkso`; it has at most one manager. `pc` and `mpc` are
what each does next, a step being one command of the script or one system call of the
manager that the others can see. A library is a path; every build installs a new file
(`gen`) at it, which fails while the old file is immutable, and the kernel grafts
files. `Trap`, `Await`, `Check`, `Send`, `Unprotect`, `Forget`, `Unload` are
`cleanup_session` in its order, and `Send`..`Forget` also `manager restore`. `Ready`
accepts any pid file, as the script does. SIGTERM kills a manager before its handlers
are installed, is remembered afterwards, and wakes it only inside `pause()`.
`program` says whether the program of `exec` is alive. A signal to the script
(`Interrupt`) starts the EXIT trap and leaves the program running; one to the whole
process group (`GroupSignal`) also reaches the manager, which may restore while script and
program go on. `AppOnGraft` speaks of the time before. Neither the manager nor the script
learns whether a restore was made: `"kernel"` in `MayFail` lets it, like a graft, fail.

The limits of the polling loops (10 s for the pid file, 6 s for the state file) are
modelled as: they expire only when the manager is idle or gone (`Idle`). A manager that
is at work sleeps two seconds and sends a few messages.

`serial` says whether commands are given one after the other; properties that assume it
say so.

### SafeSubgraph and krg.cpp

A name stands for its node, as in `name2id`. `symtab` holds the symbols of all files,
vmlinux first; relocations and instructions are read in any order and number up to
`MaxReads`. Decoding is input: an instruction is an address, whether it calls, jumps or
jumps on a condition, through an immediate or memory, and where to; a relocation is an
address, a symbol, an offset (addend plus distance to the end of the instruction) and the
part of that distance that an immediate behind the field takes, which krg knows in
modules only (`Reach`).

| Action | Code |
| --- | --- |
| `collect_symbol`, `build_ranges` | `collect_symbols`: one symbol (`add_symbol`, `should_replace_symbol`), then writable flags, function and data ranges |
| `add_edge_from_reloc` | the body of `add_edges_from_relocs`, with the pseudo GOT (`Imports`) and the target by address (`Target`) |
| `add_edge_from_insn` | the body of `add_edges_from_disasm` for one call or jump |
| `save` | `prune_to_safe_subgraph` (`Safe`), `need` (`Needed`), the edges between saved nodes; fails if a section of a loaded module has no run-time address |
| `query`, `visit` | `krg query`: look up the root, one turn of the loop of `closure_and_print` |

`fun` and `object` are copies of the symbols, as the ranges of the code are: they would
be stale if a symbol changed later. `last` is the choice `std::sort` leaves open between
symbols that start at one address. The properties compare the result with what the files
say (`CodeAt`, `DataAt`, `Meant`, `CodeOf`, `DataOf`), which does not use those tables:
whatever a relocation makes of a section or of a symbol and an offset is looked up by its
address. The tool does less, and the properties say for what they hold: `Followed` are the
relocations whose address it works out. It takes a pointer into a section (not of type
PC32) for the section symbol itself, and a field of vmlinux before an immediate for an
address that is off by the immediate; and no edge is drawn for a conditional jump, such as
one to the cold part of a function. `GraphPointer.cfg` and `GraphCondJump.cfg` show both. Left out: the second
attempt to read an immediate as relative, which can only hit for more than 200 modules; the encoding
of the file and its checks when it is loaded; the run-time addresses themselves.

### FunctionChecker and functions_checker.py

A program is what the checker reads: the files in the order they are given, with their
symbols, sections, relocations and decoded instructions. An instruction is its offset
and length, whether it is privileged, whether and where it transfers control.

| Action | Code |
| --- | --- |
| `NextFunction` | the loop of `analyze`, and the early exits of `_analyze_function` before its own loop: shims, instrumentation, no owner, no section, a slice outside of it |
| `Privileged`, `Instruction` | one turn of the loop over instructions: a privileged one ends the function; any other is followed through its relocation, its own target, or not at all (`Outcome`) |
| `FunctionDone`, `generate_report`, `Exited` | the end of the loop, the verdict, the exit code |

The properties compare with what the bytes say (`Follows`, `Forbidden`,
`Gap`, `Landings`), not with the
lists of the checker. `Landings` is about relocations against functions and sections: of a label that is
no function the checker forgets the value (line 692), so that it goes on at another place than the processor. Left out: the search for the register of a blind jump, which only
words the report; files without a symbol table, which end the program; colours and text.

### DsoLayout, DsoBuild and build_PIC_so.py

The two modules follow the script: `DsoBuild` until it calls the builder
(`StartBuilder`), `DsoLayout` from there. `DsoLayout` has its own specification
(`LayoutSpec`) in which the builder may be given anything (`Builders`); the theorems of
`DsoLayout_proofs` are about that one, those of `DsoBuild_proofs` about the script as a whole
(`BuildSpec`). The closure that the script computes with a stack is the least closed set
here, and its lists in the order of the graph or of the file are made by `InOrder`.

| Action | Code |
| --- | --- |
| `LoadGraph`, `ReadLists` | `KrgGraph._load`, the lists of functions and shims |
| `CheckOwner`, `ResolveName`, `EndResolve` | `resolve_requested_symbols`: names, their closure in the graph, addresses |
| `LoadKo`, `ExtendClosure`, `Classify`, `RebuildSlots` | reading the `.ko`, `compute_core_layout`, slots of `.data`, the callees behind them, text or rodata |
| `BuildThunkPages` | pages of synthetic thunks |
| `prepare_symbol_virtual_addresses`, `MergeInterval`, `EndRegions`, `AssignSections` | virtual addresses, merged regions of whole pages |
| `EmitSymbol`, `EndEmit` | `.dynstr`, `.dynsym`, `.gnu.hash`, one symbol at a time |
| `PlaceRegion`, `EndRegionsPlaced`, `PlaceRw`, `Finish` | offsets and addresses, relocations, program headers |
| `MapRegion`, `EndMap` | the page map, an error if it is empty or two regions claim a page |

Bytes are counted and not written. `TableTaken` and `LinkerFinds` are the lookup of ld.so
(external), so `HashLookup` is about the table as its reader uses it: ld.so finds the word of
the Bloom filter with a mask and needs a power of two of them, but the script makes one for
each 64 symbols, so 129 to 192 symbols give three. `HashLookup` says that the search succeeds
for a number that ld.so takes; the number of bits of a word is a constant (`WordBits`), so
that a few symbols fill several words. The page size is 4096 and all arithmetic is exact.

`Read` is the test by which `compute_core_layout` takes relocations: those for a writable
section of the core whose own name starts with a dot. `__jump_table`, `__bug_table` and
`__dyndbg` have none, and their slots keep what the `.ko` has in them; `SlotsInPlace` is
about what is read. `ClosurePaged` says what is *linked*: all that a request reaches in the
graph, `ReachedFrom`, a symbol each, imports of the shim excepted as ends of the way.
Pages are claimed for functions and for data that the script takes as read-only (of the
module, or called `.rodata`); other data of the kernel is a symbol without a page. Left out: `.strtab`, `.symtab` and section headers, encoding of ELF
structures, `module_deps.txt`. `ApartInMemory` assumes that the module has nothing
mapped behind its data (`SomethingBehind`). The model also shows four limits of the
script that no property is about: the callees of an internal slot target are not linked
for its sake (`SlotNames`); a slot in `.init` or `.exit` is counted from the base of the core; a slot to data
of vmlinux has an address without a segment; a library is left on disk when the page
map fails.

### HeaderTypes and vkso_gen_types.py

A source is its label, a type its source and id. A definition that bpftool prints has a
tag, a name and the number that bpftool appends to the second type of a name (`___2`).

| Action | Code |
| --- | --- |
| `ReadRequests`, `AddCandidate`, `LoadBase` | arguments and lists, `resolve_module_btf_path`, `list_module_btf_candidates`, the kernel's BTF |
| `ReadKallsyms`, `DropDuplicates` | `load_kallsyms_owner_hints`, one line at a time |
| `LoadSource`, `ResolveRequest` | `discover_sources_for_func`, `ensure_source_loaded`, `filter_matches_by_owner_hints`, the body of the request loop |
| `add_type_closure`, `EndClosure` | one call of `add_type_closure`: `stack` holds the calls to come, with their depth |
| `EndRequests`, `EmitDecl`, `EndSource` | missing requests, `emit_order`, the keys already emitted, the slices of `dump_c_for_ids` |
| `render_function_decl` | the declarations, by the names that `render_c_decl` ends at |

The slicer knows a definition by the name that its patterns find in the text. For structs,
unions and enums that is the name. `extract_typedef_name` finds none in a typedef of a
function type, of an array of arrays or of a pointer to an array, and in one of a struct
with a pointer to a function as a member it finds the name of that member: `reads` of a
definition, an input like the text itself. A typedef that is not read, or read as
something nobody asks for, is left out of the header; one that is read as another typedef
that is wanted is written under that name, and the true one then skipped. So `HeaderClosed` and
`RightLayout` are about names with `ReadRight`, whatever else is misread beside them;
`HeaderMisread.cfg` has a header without a typedef that a function needs.

Python's limit of nested calls is `RecursionLimit`. bpftool is external: its dump is
input, and the first attempt of `dump_c_for_ids`, single types by id, always fails, as
no released bpftool has that syntax. `ENUM64` and `FLOAT` count as `ENUM` and `INT`.
`TYPE_TAG`, which clang writes, is left out; it would end the closure of
`add_type_closure`, which does not know it. The branch for requests with a source of
their own is dead: nothing sets `source_id`. `/proc/kallsyms` is read to its end or not
there; of a read that fails half way the code keeps duplicates, and so hints that
`SourceChosen` would not allow.
`HeaderClosed` and `RightLayout` are under `TagsApart`: `prefer_suffixed` is shared by
all kinds, so a typedef that has the name of two structs loses its definition. The
instance `Named` is such a module. `RightLayout` speaks of types that the dump can tell
apart (`Alone`).

## 3. Runs

| Run | Instance | Shows |
| --- | --- | --- |
| `GraftSession` | 1 sender, 2 DSOs, 3 pages, 4 backups; a message of two pages and one that fails at its second page | table and cache agree, restore erases kernel pages only, the unload restores all, handlers return, `GraftService` is implemented |
| `GraftRepeated` | 1 sender, 1 DSO, 2 pages, 3 kernel pages, 3 backups; pages grafted again without restore; insertion may fail | no graft loses its record, references exact, `mapping`/`index` right |
| `GraftSenders` | 2 senders, 2 DSOs, 2 backups; leaking restores (`LeakBound`) | `nrpages` exact, no cached kernel page without its reference, until a deletion meets a page that restore has erased |
| `GraftSameIndex` (violation) | 2 DSOs with the same page index | the unload leaves a page grafted |
| `SessionRuns` | 3 commands in sequence, one perhaps twice, out of exec (sudo, root), replace, restore, of 2 workspaces; pairs that overlap; signals before the manager starts and while the program runs; insmod, ioctl and state file may fail, the kernel module does not | the program of exec has its pages grafted while the script waits and no signal has reached the manager, and exec cleans up; what is grafted can be named; exec with sudo always returns |
| `SessionLostSignal` (violation) | 1 exec | SIGTERM between test and `pause()` is lost |
| `graph_closures` | 3 sets of files (aliases, a dotted part, static functions of one name; a module with an import slot; a second module with clashing names), 3 export tables, any 3 relocations and instructions of 22, every query | names mean the right definition and never change later; no function with listed dependencies does what is forbidden and the answer for a safe root is complete, conditional jumps and relocations that krg does not follow apart; the answer is the least closed set |
| `checker_runs` | 2045 programs: any two instructions of the target, with and without relocation; callees in the same section, in another one and in vmlinux; a second module with clashing names before or after the first | no name is analysed twice; closure, landing addresses and verdict are what the bytes say; the tool ends |
| `checker_pass` (violation) | jumps between functions of vmlinux | PASS although a conditional jump leads to code that was never looked at |
| `dso_builds` | 502 builds: functions at the offsets that matter to pages, thunk pages with and without neighbours, lists with shims and unknown names, a module with every kind of section and relocation | the page map is exact, segments and hash table are right (the latter for a number of words that ld.so takes), all that a request reaches is linked, the slots that are read are in place |
| `header_builds` | 753 runs: functions of one name in the kernel and in two modules with every order of hints, graphs of types across split BTF, names that two sources define, typedefs that are misread, each way to fail | the source is never guessed, the closure exact, each name that is read rightly defined once and as the function means it |
| `header_order` (violation) | a struct of a module with a struct of the kernel as a member | the inner struct is written after the outer one |

More configurations lie beside these. Each is a counterexample to a property that the
runs above check under a condition, or to a limit of the script, and is started by hand
with the same modules:

| Configuration | Property | What TLC shows |
| --- | --- | --- |
| `GraftOverflow.cfg` | `UnloadRestores` | `clear_backup_info` frees no entry: after `MaxBackups` grafts in the life of the module, never more than two live, a graft is not recorded and survives the unload |
| `GraftRaced.cfg` | `PagesCounted` | two senders: restore erases a page that a replace is about to delete; its `mapping` is still set, `delete_from_page_cache` takes it off `nrpages` a second time |
| `GraftTwice.cfg` | `NoOops` | one page replaced twice and restored twice: `test_page_lru` uses the entry before the test that it is there |
| `SessionEarlySignal.cfg` | `ExecRestores` | a signal before the pid file: the manager outlives `exec` and goes on to graft |
| `SessionSignalled.cfg` | `AliveOnGraft` | a signal while the program runs: its pages are taken away under it |
| `SessionKernelFails.cfg` | `ExecRestores` | the kernel module has no record of the page and does not make the restore: `exec` ends and the page stays grafted |
| `SessionUnprotected.cfg` | `AlwaysByName` | a build of the same workspace while the manager has replaced the pages and not yet set the flag |
| `SessionOverlap.cfg` | `ReplaceKept` | an `exec` beside a `replace`: its `rmmod` restores the pages of the other |
| `GraphUnsafeLeaf.cfg` | `ClosureSafe` | a safe function's closure has an unsafe function as a leaf |
| `GraphCondJump.cfg` | `JumpsListed` | a conditional jump to another function is not among the dependencies of a safe root |
| `GraphPointer.cfg` | `PointersListed` | a pointer to a function, made of a section symbol and an offset, is not among them either |
| `DsoSlots.cfg` | `SlotsLead` | a slot against a section with an addend: the page of the target is not in the library |
| `DsoBloom.cfg` | `TablesTaken` | a number of dynamic symbols that makes a Bloom filter of a size that ld.so does not take |
| `DsoSkipped.cfg` | `EverySlotFilled` | the slots of `__jump_table` are not filled |
| `DsoExit.cfg` | `SlotsInPlace` | a kernel that keeps `.exit.text`: all behind it is looked for at the wrong place |
| `HeaderMisread.cfg` | `NamesDefined` | a typedef of a function type, or of a struct with a pointer to a function, is not in the header of a function that needs it |
| `DsoStraddle.cfg` | `NoCodeOnSyntheticPage` | a function that reaches into a page of thunks is cut there without an error |

Bounds. Two files, two senders and messages of two pages are where the table can
confuse files, senders can meet at every point, and a batch can fail half way; a third
of each repeats these. The table is as small as the scenario allows, so that it can be
full. `LeakBound` caps the references that a failing `xas_store(NULL)` leaks, and so the
state space. Three commands reach the sequences replace, restore, exec and exec, exec,
exec; two workspaces are what it takes to disturb another. Three facts read are a call,
a forbidden reference and one that hides it (an alias, a relocated instruction); two
modules and vmlinux reach every clause of `should_replace_symbol`.
The checker needs two instructions because the first decides what is still read of the
function, and three files because names are looked up in order. The builds put functions
at the start, the end and across the end of pages, one page apart, adjacent and far
apart, since regions merge by pages; one module has each section that counts as core or
not. The headers need two modules beside the kernel: one hides what another has. Types
nest as deep as `RecursionLimit` allows, and one deeper.
`CHECK_DEADLOCK FALSE` stands where the model may stop: sessions end, an oops stops
the kernel, and a build that cannot save is over.

Fairness. A handler and the unload are ordinary kernel code that waits for nothing but
two locks, so weak fairness of each actor (`FairSpec`) is what the scheduler gives.
In `GuardedSession` each shell and each manager is a process with weak fairness;
this includes the program that `exec` runs, which is assumed to end. Nothing is assumed
of users: commands and signals may never come. The checker is one process that runs
until it ends (`WF_vars(Next)`).

Violations. Each is a disagreement between a statement of the repository and the code;
`PROJECT.json` quotes both. The passing properties are the same ones under the condition
that excludes the disagreement: `UnloadRestoresRecorded` for a table that never
overflowed and pages of different index, `SerialReplaceKept` for commands one at a time,
`ExecReturns` for sudo, signals in `SessionRuns` only while the program runs. For
`PassIsComplete` and `DefinedBeforeUse` there is no such condition short of naming the
case, so nothing passing corresponds to them.

## 4. Proofs

The assumptions on constants (`GraftConstants`, `SessionConstants`, `SymbolConstants`,
`InputConstants`, `HeaderConstants`, `HeaderInputs` and those of the checker and of the
builder) are evaluated by TLC in every run. Each module with state has its type invariant proved (for
`DsoBuild` it is `Typed`, a part of `BuildInv`), so only `HeaderTypes` repeats it in a run, where it also says
that no request is dropped.

- `PageCacheGraft_proofs!TypeCorrect`: `Spec => []TypeOK`. Not inductive by itself: the
  strengthening `Typed` adds that a busy actor has a message whose pages are slots of its
  file (`WorkOK`), what each stage holds (`StageOK`), and that live records name slots
  (`TableOK`).
- `PageCacheGraft_proofs!NrpagesCorrect`: `Spec => []PageAccounting`, for any number of
  senders. `nrpages` changes in other steps than those that read the slot; the invariant
  `Locks` says what the XArray lock and the page lock keep true in between.
- In the same module, about `refs`, `mapping` and `index` of kernel pages:
  `RefsNeverShort` (`RefsCover`) has no hypothesis: any number of senders, on the same
  pages, whichever store fails. All three, like `NrpagesCorrect`, hold until `stray`: a
  replace has locked a page, a restore erases it without the page lock, and before it
  resets `mapping` `delete_from_page_cache` removes the page again. What is then counted
  twice is `GraftRaced.cfg`. `RefsBalanced` (`RefsExact`) asks that `xas_store(NULL)`
  does not fail (`LeakBound = 0`), `OwnersReset` (`OwnerReset`) that `xas_store(new_page)`
  does not. What is counted is a cardinality over slots and one over actors, so a step is
  judged by the change of `Balance`, the references less what is counted
  (`BalanceStep`). `OwnerKnown` adds to `OwnerReset` the two moments at which a page names
  a slot it is not in: before its store, and between erasure and reset.
  `OwnersCoherent` (`OwnerCoherent`) is for one sender and one place per kernel page
  (`OnePlace`): with two, the second graft moves `mapping` and `index` of the first.
  `Coherent` says where pages on their way, and pages just erased, belong.
- `PageCacheUnload_proofs!CountBounded`: with one sender the three reads of
  `backup_count` in `backup_page_info` agree, so the table is never passed. With two they
  need not, and the model lets the count pass it.
- `PageCacheUnload_proofs!GraftsRecorded` (`GraftRecorded`) and `UnloadCorrect`
  (`UnloadRestoresRecorded`): with one sender (`OneSender`), an index that tells pages
  apart (`NamedPages`) and no leak. Inductive invariant
  `UnloadInv`: the unload runs alone; the record is appended at the end that was read;
  what a restore has erased stays erased until its record is cleared; and every grafted
  page has a record the loop of the unload has still to reach. `GraftSameIndex` and
  `GraftOverflow` are the counterexamples without the hypotheses.
- `BackupsAreGrafts` (`BackupIsGraft`), `ErasesOnlyCode` (`RestoreErasesCode`) and
  `NeverOops` (`NoOops`) of the same module are about sessions as the manager runs them: a
  page is replaced again only after it was restored (`ReplaceOnlyRestored`, a constant of
  the model; without it `GraftTwice` is the counterexample), each page once in a message
  (`DistinctPages`), each kernel page in one place (`OnePlace`), and the store of the
  kernel page does not fail (else the record
  precedes a graft that never comes). `SessionInv` needs all three at once: a page about
  to be deleted is still cached only because it had no record, and a record is still of a
  graft only because nothing replaced or erased it.
- `PageCacheUnload_proofs!ImplementsService`: under the assumptions of `UnloadCorrect`
  `PageCacheGraft` implements `GraftService`, with `grafted <- Grafted`, `lost <- dropped`.
- `GuardedSession_proofs!TypeCorrect`: for any number of shells, libraries and commands,
  overlapping or not, the state is well typed, and what is grafted or immutable was
  installed.
- `ProgramOnGraft` (`AppOnGraft`), `GraftsReachable` (`GraftReachable`), `ExecsRestore`
  (`ExecRestores`), `ModuleLeftAsFound` (`ModuleAsFound`) and `ReplaceStays`
  (`SerialReplaceKept`), the last three about steps: for any number of commands given one
  at a time. `Uninterrupted` keeps signals out of the start of a manager
  (`SessionEarlySignal` shows why); they may come while the program runs, to the
  script and to the manager. `KernelWorks` says that the kernel module makes the grafts and
  restores it is asked for (`SessionKernelFails`); every other step may fail. `AppOnGraft`
  ends with the first signal the manager receives. The invariant `SerialInv` says that at most one shell is at work,
  and of that one, step by step, how far the manager is (`ManagerAt`), what the script
  knows of it (`ShellAt`), who loaded the module (`ModuleAt`) and which files are grafted,
  immutable and named in the state file (`FilesAt`); of all others, that they have not
  begun or are done, with a manager that is gone or waits for a signal. None of the five properties is inductive alone: what `exec` leaves
  behind depends on how far its manager got when the signal reached it.
- `SafeSubgraph_proofs`, for any files, symbols, relocations, instructions and queries.
  `NothingReplaced` (`SymbolsSettled`) and `OwnerChosen` (`OwnerPreferred`) rest on
  `should_replace_symbol` being a strict weak order (`Irreflexive`, `Transitive`) and on
  the invariant `Settled`: no symbol read so far would still replace the one that has its
  name. `ClosureCorrect` (`ClosureLeast`) rests on `Closing`: marked nodes off the stack
  have their successors marked, and every closed set with the root has all marked nodes.
  `TypeCorrect` uses both and `IType`, which adds that no edge is older than the ranges.
- `SafeSubgraph_proofs!OnlySafeExpanded` (`SafeExpanded`) and `NothingMissed`
  (`ClosureComplete`) relate the graph to the calls, unconditional jumps and `Followed`
  relocations in the bodies of the functions (`FollowedReach`: the address krg looks up is
  then that of the bytes). `Ranged` says what
  the tables of ranges were made of, `Judged` that every relocation and instruction
  read so far has marked each function whose body has it if what it leads to is
  forbidden, `Listed` that it has added the edges. Their hypotheses are on the inputs
  alone, hold in `graph_closures`, and were found by failing to do without them:
  sections do not overlap (`SectionsApart`; a symbol placed at the end of a section stands
  before the first one of the next, and the search for the address ends at it); a name of
  the hard blacklist has one function (`HardOnce`; `name2id` keeps one of two functions of a
  name, and the body of the other is in no range, so calls of it are not seen); a relative
  reference to data stays in the section of its symbol (`OwnSection`), as what it refers to
  is judged by the symbol; and data symbols that overlap have the same start
  (`DataApart`).
- `FunctionChecker_proofs`, for any files and code: `AnalysedOnce` (`QueueFresh`),
  `ClosureCorrect` (`ClosureExact`), `VerdictCorrect` (`VerdictExact`). The invariant
  `IInv` says, beside types, that what the visited functions lead to is visited, waits or
  is still to be read (`Reach`), that every closed set with the target has all names seen
  (`Minimal`), and that every reason against PASS met so far is in a list and every list
  entry has a reason (`FailsNoted`, `GapsNoted`). That the worklist is least cannot be
  read off the final state: it needs `Minimal` at every step.
- `FunctionChecker_proofs!PassFollowsCalls` (`CallsFollowed`): `Assembled` says that the
  lookup tables are those of `ELFObj`, that functions have names, and that the relocation
  of a call or jump leads to code inside of the function it names. `Readable`, the first
  relocation field of an instruction, the search by offset and the last definition of a
  name are each shown to give what the bytes say. The recursion of `disasm` is proved to
  have a solution, as the least set closed under it (`StartsExist`); without that nothing
  would follow from its `CHOOSE`.
- `DsoLayout_proofs`, for any symbols, relocations and hash function: `TypesHold`,
  `MapIsFaithful` (`MapFaithful`), `MapIsExact` (`MapExact`), `LookupsSucceed`
  (`HashLookup`), `FileIsLoadable` (`Loadable`). `IInv` follows the phases: sizes
  (`SizesSet`), merged regions that are disjoint, sorted and made of whole pages that
  symbols touch (`RegionsRight`), a table sorted by bucket (`HashRight`), places that agree
  modulo the page size (`PlacedRight`), and a map of the regions done so far (`MapRight`).
- `DsoLayout_proofs!SegmentsApart` (`ApartInMemory`): `InMemory` says that the private
  sections start behind all regions or at the data of the module, `Origin` that symbols
  with an address keep it. Text and read-only regions share no page because the map would
  then name it twice, which `IInv` excludes; this is no argument for pages of synthetic
  thunks, which the map leaves out, so the theorem needs `DataOffThunks`: read-only
  objects have addresses and none lies on such a page. `build_builtin_thunk_pages` looks
  only at the page on which an object starts. The symbols of all builds of `dso_builds`
  satisfy it.
- `DsoBuild_proofs!ClosureIsPaged` (`ClosurePaged`) and `BuildKeepsLayout`, about a whole
  build. The invariant `BuildInv` puts the invariants of `DsoLayout_proofs` beside those of
  the steps before: each request is missing, still to do, or an export (`Asked`) with all
  that it reaches (`Complete`); a symbol
  is an import exactly if the shim has its name (`Judged`); what a symbol from the graph
  refers to is there (`CalleesThere`); the target of each slot is there or still to do
  (`Targets`); and the builder runs on what it was handed (`HandedOver`). All steps only let
  the list of symbols grow (`Grown`), by a closure or by the target of one slot, and each
  part follows from that. `HandedType` shows that what is handed over is an `Argument`
  of `DsoLayout`, so that its invariant holds whatever `Builders` are. That each part of the
  core has a layout rests on a recursive function, which is shown to exist
  (`PlacesExist`). The hypothesis `OneKernel` is about the input files and true of all
  builds of `dso_builds`: a name has one node (`NodesNamed`; with two, the closure takes
  the first and `lookup` the last), no kernel module is called shim (`NoShimModule`; its
  functions would be taken for imports), libshim.so has no name that the `.ko` defines
  (`OwnNames`; such a slot target is resolved as a symbol of the module although the shim
  stands in for it elsewhere), and a symbol lies in the kernel no lower than in the core
  (`AboveCore`).
- `DsoBuild_proofs!SlotsAreInPlace` (`SlotsInPlace`), which relates the layout that
  `compute_core_layout` works out a second time, the base that is guessed from one request,
  the private segment of the builder and the order of `.dynsym` after its sort.
  The invariant `SlotInv` adds four parts to `BuildInv`. `BaseKnown`: from `LoadKo` on, `base` is
  the page where the loader has put the core, and every section is at `base` plus its offset
  in the layout. `SymbolsHome`: a defined symbol has the address of its node in the graph or
  the one that the kernel gave the target of a slot (`AtHome`); this is needed because
  `ExtendClosure` makes up symbols that the graph does not know. `SlotsKept`: each relocation
  of `.data` has its slot, with the symbol of the name of its target. `SlotTables`, of
  `DsoLayout_proofs`: `.dynsym` has each symbol that a relocation names, so that the search
  for its index in the sorted table finds it, and `.rela.dyn` has the entries. At the end `DataStart` adds these
  up: the private segment starts at the data of the module, as the data of the core begins on a page.
  Beside `OneKernel` it needs `InThatKernel`, that the files are of the kernel that runs:
  the loader has placed the module (`ModuleLoaded`), symbols of the `.ko` that share a name are
  one (`OneTarget`; slots are matched by name, so the slots of two static objects that share
  one would all lead to the first), a node has the address that the loader gave the symbol of that
  name (`NodesLoaded`), and no node is at zero (`AddressesKnown`). Of the two parts
  of `ModuleLoaded`, `LoaderPlaces` does not speak of the script: it is the loader's own rule (code, read-only and
  writable sections by their flags, each at the next place that fits its alignment, each
  kind from a page on), and that it yields the same offsets is a lemma (`LoaderLayout`).
  What has to be assumed of the script is the other, `CoreKept`: the sections that `is_core_section`
  keeps by name are those that the loader keeps. That holds or fails with a kernel: one
  that can unload modules keeps `.exit.text`, which the script leaves out, so the theorem
  is about modules without it (`DsoExit.cfg` is one with it); a section that the loader drops and the list of prefixes does not know moves all
  behind it, and neither a kernel that gives each kind of section an area of its own nor a module with
  sections that become read-only after its start, which the loader puts between the two kinds
  of data, satisfies `LoaderPlaces`. A section that is both code and writable would be placed twice by the
  script; a kernel with strict module memory refuses such a module. TLC evaluates `OneKernel` and
  `InThatKernel` for the jobs of each run (`OfOneKernel` of `MCDsoBuild`).
- `HeaderTypes_proofs`, for any BTF, kallsyms and arguments: `TypeCorrect`,
  `SourceNeverGuessed` (`SourceChosen`), `ClosureOfTypes` (`TypesExact`). `IInv` says
  what the lines of kallsyms read so far amount to (`HintsSoFar`, `HintsKnown`), that what
  a marked type refers to is marked or on the stack (`Reach`), and that every closed set
  with the prototypes has all marked types and all calls to come (`Minimal`).
- `HeaderTypes_proofs!HeaderComplete` (`HeaderClosed`) and `LayoutsRight`
  (`RightLayout`) go on to the written header. `EInv` says that only loaded sources have
  marked types (`Loads`), so that the first source of the emit loop really is the first;
  that each definition is a canonical one of a source that needs its name (`Written`) and
  none is there twice (`Once`); that the names of finished sources are written (`Done`), and
  those of the source at work as far as its dump is read (`Sliced`), both but for names
without `ReadRight`; and that a declaration
  ends at marked types (`Rendered`). The hypotheses are about bpftool, the external part:
  its dump of a source has each named type, and of the types that share a name one without
  a suffix (`DumpsComplete`); and it prints a type under its own tag and name
  (`DumpsTrue`). Both hold for the jobs of `MCHeaderTypes`. `prefer_suffixed` is where
  `Sliced` needs `TagsApart`: it passes over the plain definition for one with a suffix,
  which must then be of the same tag. `ReadRight` is part of the properties: a name that is
read rightly everywhere can neither be left out nor taken by another definition. The recursion of `Through` is proved to have a solution
  (`ChainExists`), as that of `disasm` is.

Only model-checked: liveness (`HandlersReturn`, `ExecReturns`, `Answers`), which is out of
the provers' reach, with `ENABLED` behind fairness. `DefinedBeforeUse` and the other properties that the code violates have counterexamples.

## 5. Not modelled

- `build_LKM_so.py`, the older builder for one module: `vkso` does not call it.
- The build steps of `vkso`, the cache key of the KRG and the installed files: one shell
  script that runs the tools in order. `GuardedSession` has its visible effect, a new
  library at the path. The cache key has the boot id and the files but not the load
  addresses of modules.
- The shim library (stateless), the helpers `user_replace.c` and `test_mapping.c` that
  `vkso` does not use, benchmarks (`test/`), figures and documents (`paper/`).
- Within modelled parts: ELF and instruction decoding, the file format of the graph, the
  text of reports and of C declarations.

Limits of the graph that no property covers: functions that share a name within or
across files, aliases of which only one is on a list, calls of undefined blacklisted
symbols, jumps through memory to blacklisted functions. Limits of the user side:
`replace` A, `exec` B, `restore` A leaves A immutable, as `manager.state` no longer names
it; the manager reports success whatever the kernel module did.
