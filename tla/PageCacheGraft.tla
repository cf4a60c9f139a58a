--------------------------- MODULE PageCacheGraft ---------------------------
(***************************************************************************)
(* The kernel module page_cache_replace.c: it replaces pages of a file's   *)
(* page cache by pages of kernel code ("grafts" them), records every       *)
(* graft in a fixed table of backups, removes grafts on request, and       *)
(* removes whatever the table still records when the module is unloaded.   *)
(*                                                                         *)
(* Netlink calls the two input handlers in the context of the sender, and  *)
(* no lock covers the backup table, so handlers of several senders         *)
(* interleave.  A step of this module is the code between two points where *)
(* another handler, a page fault or reclaim can change what it looks at:   *)
(* the XArray lock of the file (xas_lock) and the lock of a page are       *)
(* modelled, everything else is not excluded.                              *)
(***************************************************************************)
EXTENDS Integers, Sequences, FiniteSets

CONSTANTS
  Files,               \* the DSOs whose pages are replaced (address_space)
  Slots,               \* their pages, << file, index >>
  KernelPages,         \* struct page of kernel code
  Threads,             \* senders: one netlink handler runs in each
  Batches,             \* the messages a sender may send: [file, pages]
  MaxBackups,          \* MAX_PAGES_PER_OPERATION, the size of the table
  InsertMayFail,       \* may xas_store(new_page) run out of memory
  LeakBound,           \* xas_store(NULL) may fail below this many references
  ReplaceOnlyRestored  \* do senders replace only pages with no live backup

NoSlot == << >>
NoPage == "nopage"     \* an address get_kernel_code_page cannot resolve
Rmmod  == "rmmod"      \* the task that runs page_replace_exit
Actors == Threads \cup {Rmmod}

\* What the XArray holds at an index.
Content == {"hole", "shadow", "original"} \cup KernelPages
IsPage(c) == c = "original" \/ c \in KernelPages

\* What a handler may hold: nothing, a page in its place, or a page of the file that
\* has left it: erased by a restore that has yet to reset its mapping (the actor), a
\* page without a mapping, or one that a deletion meant for another page took out.
Holdings == {"none", "original", "orphan", "stale"} \cup KernelPages \cup Actors

PageRequest == [index : Nat, page : KernelPages \cup {NoPage}]
Backup      == [slot : Slots \cup {NoSlot}, live : BOOLEAN]
NoBackup    == [slot |-> NoSlot, live |-> FALSE]

ASSUME GraftConstants ==
  /\ Files # {}
  /\ Slots \subseteq Files \X Nat
  /\ IsFiniteSet(Slots) /\ IsFiniteSet(Threads)
  /\ MaxBackups \in Nat \ {0}
  /\ KernelPages \cap {"hole", "shadow", "original", "none", "orphan", "stale", NoPage} = {}
  /\ Rmmod \notin Threads
  /\ Actors \cap (Content \cup {"none", "orphan", "stale"}) = {}
  /\ Batches \subseteq [file : Files, pages : Seq(PageRequest)]
  /\ \A b \in Batches :
       /\ b.pages # << >>
       /\ \A n \in 1..Len(b.pages) : << b.file, b.pages[n].index >> \in Slots
  /\ LeakBound \in Nat
  /\ {InsertMayFail, ReplaceOnlyRestored} \subseteq BOOLEAN

VARIABLES
  module,   \* is page_cache_replace out, loaded or leaving
  cache,    \* i_pages of every file
  nrpages,  \* address_space.nrpages
  refs,     \* references to a kernel page beyond the kernel's own
  owner,    \* where page->mapping and page->index of a kernel page point
  table,    \* page_backup_manager.backup_array
  count,    \* page_backup_manager.backup_count
  active,   \* page_backup_manager.is_active
  pc,       \* what every actor does next
  file,     \* the file its message names
  todo,     \* the pages of the message it has not finished
  held,     \* the page it took from the cache
  seen,     \* the values backup_count has had since it passed line 476
  cursor,   \* i of the loop of page_replace_exit
  dropped,  \* history: was a page grafted without a backup in the table
  stray,    \* history: did delete_from_page_cache get a page that had left its place
  oops      \* did the kernel dereference what is no cached page or record

tableVars == << table, count, active >>
vars == << module, cache, nrpages, refs, owner, table, count, active,
           pc, file, todo, held, seen, cursor, dropped, stray, oops >>

-----------------------------------------------------------------------------
Slot(a)  == << file[a], Head(todo[a]).index >>
Page(a)  == Head(todo[a]).page

\* After an oops no step of this model runs any more.
At(a, step)    == ~oops /\ pc[a] = step
InState(state) == ~oops /\ module = state

\* A handler inside xas_lock(&file->i_pages) between two of its steps.
XaLocked(f) == \E u \in Threads : pc[u] = "record" /\ file[u] = f

\* A page locked by pagecache_get_page(FGP_LOCK) or by lock_page(new_page).
PageLocked(c, s) ==
  \E u \in Threads :
    \/ pc[u] = "delete" /\ held[u] = c /\ (c = "original" => Slot(u) = s)
    \/ pc[u] = "record" /\ Page(u) = c

\* find_backup_info: the first live backup of the index, of whatever file.
LiveAt(i) == { n \in 1..MaxBackups : n <= count /\ table[n].live /\ table[n].slot[2] = i }
FindBackup(i) ==
  IF LiveAt(i) = {} THEN 0
  ELSE CHOOSE n \in LiveAt(i) : \A m \in LiveAt(i) : n <= m

Grafted    == { s \in Slots : cache[s] \in KernelPages }
LiveFor(s) == { n \in 1..MaxBackups : n <= count /\ table[n].live /\ table[n].slot = s }

\* With two senders backup_count may pass the table: a loop up to it then reads
\* what lies behind the array, which may look like any record.
PastTable == count > MaxBackups

\* clear_backup_info; no code reads the other fields of a cleared record.  What
\* find_backup_info takes for a record behind the array is in no table.
\* Mutants: nothing is cleared; the newest record is cleared.
ClearNothing(i) == table
ClearNewest(i)  == [n \in 1..MaxBackups |-> IF n = count THEN NoBackup ELSE table[n]]
ClearBackup(i)  ==
  IF FindBackup(i) = 0 THEN table ELSE [table EXCEPT ![FindBackup(i)] = NoBackup]

\* get_page and put_page of a kernel page, n of them.
\* Mutants: one of two puts is forgotten; a single put is done twice.
ForgetPut(c, n) ==
  IF c \in KernelPages THEN [refs EXCEPT ![c] = IF n = -2 THEN @ - 1 ELSE @ + n] ELSE refs
PutTwice(c, n) ==
  IF c \in KernelPages THEN [refs EXCEPT ![c] = IF n = -1 THEN @ - 2 ELSE @ + n] ELSE refs
AddRef(c, n) == IF c \in KernelPages THEN [refs EXCEPT ![c] = @ + n] ELSE refs

\* page->mapping and page->index of a kernel page; NoSlot is a mapping of NULL,
\* with which the index says nothing (delete_from_page_cache leaves it).
\* Mutants: they are never set; they are never reset.
NeverOwned(c, s) == owner
NeverReset(c, s) ==
  IF c \in KernelPages /\ s # NoSlot THEN [owner EXCEPT ![c] = s] ELSE owner
SetOwner(c, s) == IF c \in KernelPages THEN [owner EXCEPT ![c] = s] ELSE owner

\* The message is abandoned; page_replace_exit goes on with its next backup.
Abort(a) ==
  /\ pc' = [pc EXCEPT ![a] = IF a = Rmmod THEN "scan" ELSE "idle"]
  /\ todo' = [todo EXCEPT ![a] = << >>]

\* The page is done: the loop over the message continues at step "head".
Advance(a, head) ==
  /\ pc' = [pc EXCEPT ![a] = IF a = Rmmod THEN "scan"
                             ELSE IF Tail(todo[a]) = << >> THEN "idle" ELSE head]
  /\ todo' = [todo EXCEPT ![a] = Tail(@)]

Init ==
  /\ module = "out"
  /\ cache \in [Slots -> {"hole", "original"}]
  /\ nrpages = [f \in Files |->
                  Cardinality({ s \in Slots : s[1] = f /\ IsPage(cache[s]) })]
  /\ refs = [k \in KernelPages |-> 0]
  /\ owner = [k \in KernelPages |-> NoSlot]
  /\ table = [n \in 1..MaxBackups |-> NoBackup]
  /\ count = 0
  /\ active = FALSE
  /\ pc = [a \in Actors |-> "idle"]
  /\ file = [a \in Actors |-> CHOOSE f \in Files : TRUE]
  /\ todo = [a \in Actors |-> << >>]
  /\ held = [a \in Actors |-> "none"]
  /\ seen = [t \in Threads |-> {}]
  /\ cursor = 1
  /\ dropped = FALSE
  /\ stray = FALSE
  /\ oops = FALSE

-----------------------------------------------------------------------------
(* Loading, and the arrival of messages.                                   *)

\* page_replace_init with init_multi_page_backup.  When one of the two sockets
\* cannot be created the module stays out and nothing has changed.
ModuleInit ==
  /\ InState("out")
  /\ module' = "loaded"
  /\ table' = [n \in 1..MaxBackups |-> NoBackup]
  /\ count' = 0
  /\ active' = FALSE
  /\ UNCHANGED << cache, nrpages, refs, owner, pc, file, todo, held, seen,
                  cursor, dropped, stray, oops >>

\* nl_recv_msg: a valid message, its file opened.  A message that fails the
\* validation, or whose file cannot be opened, changes nothing here.
ReceiveReplace(t, b) ==
  /\ InState("loaded")
  /\ At(t, "idle")
  /\ ReplaceOnlyRestored =>
       \A n \in 1..Len(b.pages) : LiveFor(<< b.file, b.pages[n].index >>) = {}
  /\ pc' = [pc EXCEPT ![t] = "lookup"]
  /\ file' = [file EXCEPT ![t] = b.file]
  /\ todo' = [todo EXCEPT ![t] = b.pages]
  /\ UNCHANGED << module, cache, nrpages, refs, owner, tableVars, held, seen,
                  cursor, dropped, stray, oops >>

\* nl_recv_restore_msg: without an active backup the message is refused.
ReceiveRestore(t, b) ==
  /\ InState("loaded")
  /\ At(t, "idle")
  /\ active
  /\ pc' = [pc EXCEPT ![t] = "find"]
  /\ file' = [file EXCEPT ![t] = b.file]
  /\ todo' = [todo EXCEPT ![t] = b.pages]
  /\ UNCHANGED << module, cache, nrpages, refs, owner, tableVars, held, seen,
                  cursor, dropped, stray, oops >>

-----------------------------------------------------------------------------
(* batch_process_pages: one page of a replace message.                     *)

\* Mutant: the loop tries the same page again instead of giving up.
LookupRetries(t) ==
  /\ At(t, "lookup")
  /\ Page(t) = NoPage
  /\ UNCHANGED vars

\* get_kernel_code_page fails: the pages grafted so far stay grafted.
LookupFails(t) ==
  /\ At(t, "lookup")
  /\ Page(t) = NoPage
  /\ Abort(t)
  /\ UNCHANGED << module, cache, nrpages, refs, owner, tableVars, file, held,
                  seen, cursor, dropped, stray, oops >>

\* pagecache_get_page(FGP_LOCK): waits for the page lock, retries until
\* page->mapping is the file, and returns the page locked with a reference.  The
\* index is not compared: the page may name another place of the same file.
Lookup(t) ==
  LET c == cache[Slot(t)] IN
  /\ At(t, "lookup")
  /\ Page(t) # NoPage
  /\ \/ /\ IsPage(c)
        /\ ~PageLocked(c, Slot(t))
        /\ c \in KernelPages => owner[c] # NoSlot /\ owner[c][1] = file[t]
        /\ refs' = AddRef(c, 1)
        /\ held' = [held EXCEPT ![t] = c]
        /\ pc' = [pc EXCEPT ![t] = "delete"]
     \/ /\ ~IsPage(c)
        /\ pc' = [pc EXCEPT ![t] = "insert"]
        /\ UNCHANGED << refs, held >>
  /\ UNCHANGED << module, cache, nrpages, owner, tableVars, file, todo, seen,
                  cursor, dropped, stray, oops >>

\* Where the page a handler took says it is.
Place(t) == IF held[t] \in KernelPages THEN owner[held[t]] ELSE Slot(t)

\* The handlers, but for t, that hold the page of the file at s have lost it.
LosePage(t, s, mark) ==
  [u \in Actors |->
     IF u # t /\ pc[u] = "delete" /\ held[u] = "original" /\ Slot(u) = s
     THEN mark ELSE held[u]]

\* unmap_mapping_range, delete_from_page_cache, unlock_page, put_page.  The page
\* lock does not stop restore: between its xas_store(NULL) and the reset of
\* page->mapping delete_from_page_cache empties the place a second time, whatever
\* is there by now, takes it off nrpages and puts a reference.
DeleteExisting(t) ==
  LET s == Place(t)  c == held[t] IN
  /\ At(t, "delete")
  /\ s # NoSlot /\ c # "orphan"
  /\ ~XaLocked(s[1])
  /\ cache' = [cache EXCEPT ![s] = "hole"]
  /\ nrpages' = [nrpages EXCEPT ![s[1]] = @ - 1]
  /\ refs' = AddRef(c, -2)
  /\ owner' = SetOwner(c, NoSlot)
  /\ held' = [LosePage(t, s, "stale") EXCEPT ![t] = "none"]
  /\ pc' = [pc EXCEPT ![t] = "insert"]
  /\ stray' = (stray \/ cache[s] # c)
  /\ UNCHANGED << module, tableVars, file, todo, seen, cursor, dropped, oops >>

\* Once restore has reset page->mapping it dereferences a mapping of NULL.
DeleteUnmapped(t) ==
  /\ At(t, "delete")
  /\ Place(t) = NoSlot \/ held[t] = "orphan"
  /\ oops' = TRUE
  /\ UNCHANGED << module, cache, nrpages, refs, owner, tableVars, pc, file, todo,
                  held, seen, cursor, dropped, stray >>

\* Under the lock add_page_to_cache looks at the slot again.
\* Mutant: it relies on what pagecache_get_page saw.
SlotTrusted(t) == TRUE
SlotFree(t)    == ~IsPage(cache[Slot(t)])

\* add_page_to_cache under xas_lock, up to the test of backup_count in
\* backup_page_info.  A page that came back since the deletion is -EEXIST.
InsertConflict(t) ==
  /\ At(t, "insert")
  /\ ~XaLocked(file[t])
  /\ ~PageLocked(Page(t), Slot(t))
  /\ ~SlotFree(t)
  /\ Abort(t)
  /\ UNCHANGED << module, cache, nrpages, refs, owner, tableVars, file, held,
                  seen, cursor, dropped, stray, oops >>

Insert(t) ==
  /\ At(t, "insert")
  /\ ~XaLocked(file[t])
  /\ ~PageLocked(Page(t), Slot(t))
  /\ SlotFree(t)
  /\ owner' = SetOwner(Page(t), Slot(t))
  /\ refs' = AddRef(Page(t), 1)
  /\ seen' = [seen EXCEPT ![t] = IF count < MaxBackups THEN {count} ELSE {}]
  /\ pc' = [pc EXCEPT ![t] = "record"]
  /\ UNCHANGED << module, cache, nrpages, tableVars, file, todo, held, cursor,
                  dropped, stray, oops >>

\* The handlers between the test and the end of backup_page_info see the count.
SeeCount(t, n) ==
  seen' = [u \in Threads |-> IF u = t \/ seen[u] = {} THEN {} ELSE seen[u] \cup {n}]

\* The rest of backup_page_info, with no lock on the table: the entry (477) and the
\* increment (491) each read backup_count again, at any time since the test.
AppendRecord(t) ==
  \E n, m \in seen[t] :
    /\ n < MaxBackups
    /\ table' = [table EXCEPT ![n + 1] = [slot |-> Slot(t), live |-> TRUE]]
    /\ count' = m + 1
    /\ active' = TRUE
    /\ SeeCount(t, m + 1)
    /\ UNCHANGED << dropped, oops >>

\* The entry is one past the array: its first field is written over backup_count
\* and is_active, the others over what the build puts behind them.
WritePastTable(t) ==
  \E n, m \in seen[t] :
    /\ n >= MaxBackups
    /\ count' \in {1, m + 1}
    /\ active' = TRUE
    /\ dropped' = TRUE
    /\ oops' \in BOOLEAN
    /\ SeeCount(t, count')
    /\ UNCHANGED table

\* The table was full at the test: there is no record.
DropRecord(t) ==
  /\ seen[t] = {}
  /\ dropped' = TRUE
  /\ UNCHANGED << tableVars, seen, oops >>

BackupPageInfo(t) == AppendRecord(t) \/ WritePastTable(t) \/ DropRecord(t)

\* The rest of add_page_to_cache: the record, xas_store, nrpages++.
Record(t) ==
  /\ At(t, "record")
  /\ BackupPageInfo(t)
  /\ cache' = [cache EXCEPT ![Slot(t)] = Page(t)]
  /\ nrpages' = [nrpages EXCEPT ![file[t]] = @ + 1]
  /\ Advance(t, "lookup")
  /\ UNCHANGED << module, refs, owner, file, held, cursor, stray >>

\* xas_store fails: the reference is returned, the record and owner stay.
RecordFails(t) ==
  /\ InsertMayFail
  /\ At(t, "record")
  /\ BackupPageInfo(t)
  /\ refs' = AddRef(Page(t), -1)
  /\ Abort(t)
  /\ UNCHANGED << module, cache, nrpages, owner, file, held, cursor, stray >>

-----------------------------------------------------------------------------
(* restore_page_cache: one page of a restore message or of the unload.     *)

\* Mutant: the page is restored without asking for its backup.
AlwaysRestorable(a) == TRUE
Restorable(a)       == active /\ (FindBackup(Slot(a)[2]) # 0 \/ PastTable)

FindBackupFails(a) ==
  /\ At(a, "find")
  /\ Restorable(a) => FindBackup(Slot(a)[2]) = 0
  /\ Abort(a)
  /\ UNCHANGED << module, cache, nrpages, refs, owner, tableVars, file, held,
                  seen, cursor, dropped, stray, oops >>

Find(a) ==
  /\ At(a, "find")
  /\ Restorable(a)
  /\ pc' = [pc EXCEPT ![a] = "erase"]
  /\ UNCHANGED << module, cache, nrpages, refs, owner, tableVars, file, todo,
                  held, seen, cursor, dropped, stray, oops >>

\* The entry goes to test_page_lru before it is compared with NULL: a hole, like
\* the shadow entry of a reclaimed page, is dereferenced as a struct page.
EraseNothing(a) ==
  /\ At(a, "erase")
  /\ ~XaLocked(file[a])
  /\ ~IsPage(cache[Slot(a)])
  /\ oops' = TRUE
  /\ UNCHANGED << module, cache, nrpages, refs, owner, tableVars, pc, file, todo,
                  held, seen, cursor, dropped, stray >>

\* get_page, xas_store(NULL), nrpages--, put_page: whatever page is there, also one
\* that a replace handler has locked.  page->mapping keeps naming the place.
Erase(a) ==
  LET s == Slot(a)  c == cache[s] IN
  /\ At(a, "erase")
  /\ ~XaLocked(file[a])
  /\ IsPage(c)
  /\ cache' = [cache EXCEPT ![s] = "hole"]
  /\ nrpages' = [nrpages EXCEPT ![file[a]] = IF @ # 0 THEN @ - 1 ELSE @]
  /\ held' = [LosePage(a, s, a) EXCEPT ![a] = c]
  /\ pc' = [pc EXCEPT ![a] = "finish"]
  /\ UNCHANGED << module, refs, owner, tableVars, file, todo, seen, cursor,
                  dropped, stray, oops >>

\* The error branch of xas_store(NULL): the reference of get_page is leaked.
EraseFails(a) ==
  LET c == cache[Slot(a)] IN
  /\ At(a, "erase")
  /\ ~XaLocked(file[a])
  /\ IsPage(c) /\ LeakBound > 0
  /\ c \in KernelPages => refs[c] < LeakBound
  /\ refs' = AddRef(c, 1)
  /\ Abort(a)
  /\ UNCHANGED << module, cache, nrpages, owner, tableVars, file, held, seen,
                  cursor, dropped, stray, oops >>

\* Outside the lock: clear_backup_info, page->mapping = NULL, put_page.  Who holds
\* the erased page is left with an orphan.
Finish(a) ==
  /\ At(a, "finish")
  /\ table' = ClearBackup(Slot(a)[2])
  /\ owner' = SetOwner(held[a], NoSlot)
  /\ refs' = AddRef(held[a], -1)
  /\ held' = [u \in Actors |->
                IF u = a THEN "none" ELSE IF held[u] = a THEN "orphan" ELSE held[u]]
  /\ Advance(a, "find")
  /\ UNCHANGED << module, cache, nrpages, count, active, file, seen, cursor,
                  dropped, stray, oops >>

-----------------------------------------------------------------------------
(* page_replace_exit.  A netlink socket of the protocol holds a reference  *)
(* to the module, so rmmod starts only when no handler runs.               *)

ModuleExit ==
  /\ InState("loaded")
  /\ \A t \in Threads : pc[t] = "idle"
  /\ module' = "leaving"
  /\ cursor' = 1
  /\ pc' = [pc EXCEPT ![Rmmod] = "scan"]
  /\ UNCHANGED << cache, nrpages, refs, owner, tableVars, file, todo, held, seen,
                  dropped, stray, oops >>

\* Mutant: the loop ends one backup early.
ScanDoneEarly == ~(active /\ cursor < count)
ScanDone      == ~(active /\ cursor <= count)

\* The next live backup is restored through a temporary struct file.
ExitScan ==
  LET e == table[cursor] IN
  /\ At(Rmmod, "scan")
  /\ ~ScanDone
  /\ cursor <= MaxBackups
  /\ cursor' = cursor + 1
  /\ IF e.live
     THEN /\ pc' = [pc EXCEPT ![Rmmod] = "find"]
          /\ file' = [file EXCEPT ![Rmmod] = e.slot[1]]
          /\ todo' = [todo EXCEPT ![Rmmod] = << [index |-> e.slot[2], page |-> NoPage] >>]
     ELSE UNCHANGED << pc, file, todo >>
  /\ UNCHANGED << module, cache, nrpages, refs, owner, tableVars, held, seen,
                  dropped, stray, oops >>

\* Behind the array the loop skips what does not look like a live record and uses
\* as an address_space what does.
ExitScanPast ==
  /\ At(Rmmod, "scan")
  /\ ~ScanDone
  /\ cursor > MaxBackups
  /\ cursor' = cursor + 1
  /\ oops' \in BOOLEAN
  /\ UNCHANGED << module, cache, nrpages, refs, owner, tableVars, pc, file, todo,
                  held, seen, dropped, stray >>

\* The memory of the module is freed with it.
ExitDone ==
  /\ At(Rmmod, "scan")
  /\ ScanDone
  /\ module' = "out"
  /\ table' = [n \in 1..MaxBackups |-> NoBackup]
  /\ cursor' = 1
  /\ count' = 0
  /\ active' = FALSE
  /\ pc' = [pc EXCEPT ![Rmmod] = "idle"]
  /\ UNCHANGED << cache, nrpages, refs, owner, file, todo, held, seen, dropped, stray,
                  oops >>

-----------------------------------------------------------------------------
(* The kernel around the module: a page is read from disk when a process   *)
(* touches it, and an original page that nobody locks may be reclaimed.    *)
(* Kernel pages are on no LRU list, so reclaim never sees them.            *)

PageFault(s) ==
  /\ ~oops
  /\ ~XaLocked(s[1])
  /\ ~IsPage(cache[s])
  /\ cache' = [cache EXCEPT ![s] = "original"]
  /\ nrpages' = [nrpages EXCEPT ![s[1]] = @ + 1]
  /\ UNCHANGED << module, refs, owner, tableVars, pc, file, todo, held, seen,
                  cursor, dropped, stray, oops >>

Reclaim(s) ==
  /\ ~oops
  /\ ~XaLocked(s[1])
  /\ cache[s] = "original"
  /\ ~PageLocked("original", s)
  /\ \E c \in {"hole", "shadow"} : cache' = [cache EXCEPT ![s] = c]
  /\ nrpages' = [nrpages EXCEPT ![s[1]] = @ - 1]
  /\ UNCHANGED << module, refs, owner, tableVars, pc, file, todo, held, seen,
                  cursor, dropped, stray, oops >>

-----------------------------------------------------------------------------
ReplaceStep(t) ==
  \/ LookupFails(t) \/ Lookup(t) \/ DeleteExisting(t) \/ DeleteUnmapped(t)
  \/ InsertConflict(t) \/ Insert(t) \/ Record(t) \/ RecordFails(t)

RestoreStep(a) ==
  \/ FindBackupFails(a) \/ Find(a) \/ EraseNothing(a)
  \/ Erase(a) \/ EraseFails(a) \/ Finish(a)

Next ==
  \/ ModuleInit \/ ModuleExit \/ ExitScan \/ ExitScanPast \/ ExitDone
  \/ \E t \in Threads, b \in Batches : ReceiveReplace(t, b) \/ ReceiveRestore(t, b)
  \/ \E t \in Threads : ReplaceStep(t)
  \/ \E a \in Actors : RestoreStep(a)
  \/ \E s \in Slots : PageFault(s) \/ Reclaim(s)

Spec == Init /\ [][Next]_vars

\* A handler and the unload run to their end once started: nothing but the two
\* locks makes them wait.
FairSpec ==
  /\ Spec
  /\ \A t \in Threads : WF_vars(ReplaceStep(t) \/ RestoreStep(t))
  /\ WF_vars(RestoreStep(Rmmod) \/ ExitScan \/ ExitScanPast \/ ExitDone)

-----------------------------------------------------------------------------
(* Properties.                                                             *)

TypeOK ==
  /\ module \in {"out", "loaded", "leaving"}
  /\ cache \in [Slots -> Content]
  /\ nrpages \in [Files -> Int]
  /\ refs \in [KernelPages -> Int]
  /\ owner \in [KernelPages -> Slots \cup {NoSlot}]
  /\ table \in [1..MaxBackups -> Backup]
  /\ count \in Nat
  /\ active \in BOOLEAN
  /\ pc \in [Actors -> {"idle", "scan", "lookup", "delete", "insert", "record",
                        "find", "erase", "finish"}]
  /\ file \in [Actors -> Files]
  /\ todo \in [Actors -> Seq(PageRequest)]
  /\ held \in [Actors -> Holdings]
  /\ seen \in [Threads -> SUBSET Nat]
  /\ cursor \in Nat \ {0}
  /\ dropped \in BOOLEAN
  /\ stray \in BOOLEAN
  /\ oops \in BOOLEAN

Busy(a) == pc[a] \notin {"idle", "scan"}

\* mapping->nrpages++ and -- "keep the mapping's statistics consistent" (the
\* comment in restore_page_cache): nrpages of a file is the number of pages its
\* XArray holds, shadow entries not counted.  GraftRaced.cfg shows that two senders
\* break it.
PagesCounted ==
  \A f \in Files :
    nrpages[f] = Cardinality({ s \in Slots : s[1] = f /\ IsPage(cache[s]) })

\* Page accounting: nrpages is right whatever interleaves, until a restore has
\* taken a page away from under a replace that was about to delete it.
PageAccounting == ~stray => PagesCounted

\* An actor that owns one reference to kernel page k in the middle of a step.
HoldsRef(a, k) ==
  \/ pc[a] \in {"delete", "finish"} /\ held[a] = k
  \/ pc[a] = "record" /\ Page(a) = k

\* add takes one reference and restore returns it (the analysis document's net
\* effect of zero): beyond the kernel's own there is one reference for every slot
\* the page sits in and one for every handler in the middle of an operation.
RefsExact ==
  ~stray => \A k \in KernelPages :
    refs[k] = Cardinality({ s \in Slots : cache[s] = k })
              + Cardinality({ a \in Actors : HoldsRef(a, k) })

\* The same without the leak of the error branch: a kernel page in a page cache
\* is never left without the reference of the cache, with the same exception.
RefsCover ==
  ~stray => \A k \in KernelPages :
    refs[k] >= Cardinality({ s \in Slots : cache[s] = k })
               + Cardinality({ a \in Actors : HoldsRef(a, k) })

\* Unless the table overflowed, a grafted page has a live backup: what restore
\* and the unload can find (backup_page_info, clear_backup_info).
GraftRecorded ==
  ~dropped => \A s \in Grafted : LiveFor(s) # {}

\* page_replace_exit restores the page cache: once the module is out no file
\* shows kernel code any more.
UnloadRestores == module = "out" => Grafted = {}

\* The same for a module whose table never overflowed.
UnloadRestoresRecorded == ~dropped => UnloadRestores

\* A live backup stands for a page that is grafted, or for one whose restore has
\* erased it and not yet cleared the record.
BackupIsGraft ==
  \A n \in 1..MaxBackups :
    module # "out" /\ n <= count /\ table[n].live =>
      \/ table[n].slot \in Grafted
      \/ \E a \in Actors : pc[a] = "finish" /\ Slot(a) = table[n].slot

\* restore_page_cache erases a kernel page, never a page of the file itself.
RestoreErasesCode ==
  \A a \in Actors : pc[a] = "finish" => held[a] \in KernelPages

\* No handler uses as a cached page what is not one.
NoOops == ~oops

\* A grafted page says where it is: rmap, truncation and delete_from_page_cache
\* find a page's XArray slot through page->mapping and page->index.
OwnerCoherent == \A s \in Grafted : owner[cache[s]] = s

\* A kernel page that is in no page cache and in no handler's hands is a bare
\* page again: its mapping is reset.  The exception is that of PageAccounting.
OwnerReset ==
  ~stray => \A k \in KernelPages :
    owner[k] # NoSlot =>
      \/ cache[owner[k]] = k
      \/ \E a \in Actors : Busy(a) /\ (held[a] = k \/ Page(a) = k)

\* Every handler returns to its sender, and a started unload ends.
HandlersReturn ==
  \A a \in Actors : pc[a] # "idle" ~> (pc[a] = "idle" \/ oops)

\* The module keeps the promise of GraftService: nothing is grafted before it is
\* loaded or once it is leaving, and it is out only when all grafts it has not
\* lost track of are gone (page_replace_exit).
Service == INSTANCE GraftService WITH Places <- Slots, grafted <- Grafted, lost <- dropped
KeepsService == Service!Spec

=============================================================================
