------------------------ MODULE PageCacheGraft_proofs ------------------------
(***************************************************************************)
(* Theorems about PageCacheGraft, for any number of files, senders,        *)
(* messages and backups.                                                   *)
(***************************************************************************)
EXTENDS PageCacheGraft, TLAPS, FiniteSetTheorems

\* An actor in the middle of a message still has a page to do, and all the pages
\* it has to do exist.
WorkOK ==
  \A a \in Actors : Busy(a) =>
    /\ todo[a] # << >>
    /\ \A n \in 1..Len(todo[a]) : << file[a], todo[a][n].index >> \in Slots

\* What every stage of a message knows about the page it handles.
StageOK ==
  /\ \A t \in Threads : pc[t] # "scan"
  /\ pc[Rmmod] \in {"idle", "scan", "find", "erase", "finish"}
  /\ \A t \in Threads : pc[t] \in {"delete", "insert", "record"} => Page(t) \in KernelPages
  /\ \A a \in Actors : pc[a] = "finish" => IsPage(held[a])

\* A live backup names a page of a file.
TableOK == \A n \in 1..MaxBackups : table[n].live => table[n].slot \in Slots

Typed == TypeOK /\ WorkOK /\ StageOK /\ TableOK

-----------------------------------------------------------------------------
LEMMA WorkFacts ==
  ASSUME Typed, NEW a \in Actors, Busy(a)
  PROVE  /\ Slot(a) \in Slots
         /\ file[a] \in Files
         /\ Slot(a)[1] = file[a]
         /\ Page(a) \in KernelPages \cup {NoPage}
         /\ Tail(todo[a]) \in Seq(PageRequest)
         /\ \A n \in 1..Len(Tail(todo[a])) : << file[a], Tail(todo[a])[n].index >> \in Slots
<1>1. /\ todo[a] \in Seq(PageRequest) /\ todo[a] # << >>
      /\ \A n \in 1..Len(todo[a]) : << file[a], todo[a][n].index >> \in Slots
  BY DEF Typed, TypeOK, WorkOK
<1>2. Len(todo[a]) \in Nat \ {0} /\ Head(todo[a]) = todo[a][1] /\ Head(todo[a]) \in PageRequest
  BY <1>1
<1>3. Tail(todo[a]) \in Seq(PageRequest) /\ Len(Tail(todo[a])) = Len(todo[a]) - 1
      /\ \A n \in 1..Len(Tail(todo[a])) : Tail(todo[a])[n] = todo[a][n + 1]
  BY <1>1
<1>4. \A n \in 1..Len(Tail(todo[a])) : << file[a], Tail(todo[a])[n].index >> \in Slots
  <2> SUFFICES ASSUME NEW n \in 1..Len(Tail(todo[a]))
               PROVE  << file[a], Tail(todo[a])[n].index >> \in Slots
    OBVIOUS
  <2>1. n + 1 \in 1..Len(todo[a])
    BY <1>2, <1>3
  <2> QED BY <1>1, <1>3, <2>1
<1> QED BY <1>1, <1>2, <1>3, <1>4 DEF Slot, Page, PageRequest, Typed, TypeOK

LEMMA CountedPages ==
  ASSUME NEW f, NEW c
  PROVE  /\ IsFiniteSet({ s \in Slots : s[1] = f /\ IsPage(c[s]) })
         /\ Cardinality({ s \in Slots : s[1] = f /\ IsPage(c[s]) }) \in Nat
<1>1. { s \in Slots : s[1] = f /\ IsPage(c[s]) } \subseteq Slots
  OBVIOUS
<1> QED BY <1>1, FS_Subset, FS_CardinalityType, GraftConstants

LEMMA InitTyped == Init => Typed
<1> SUFFICES ASSUME Init PROVE Typed
  OBVIOUS
<1>1. nrpages \in [Files -> Int]
  <2>1. \A f \in Files : Cardinality({ s \in Slots : s[1] = f /\ IsPage(cache[s]) }) \in Int
    BY CountedPages
  <2> QED BY <2>1 DEF Init
<1>2. file \in [Actors -> Files]
  <2>1. (CHOOSE f \in Files : TRUE) \in Files
    BY GraftConstants
  <2> QED BY <2>1 DEF Init
<1>3. todo \in [Actors -> Seq(PageRequest)]
  BY DEF Init
<1>4. cache \in [Slots -> Content]
  BY DEF Init, Content
<1>5. table \in [1..MaxBackups -> Backup]
  BY DEF Init, Backup, NoBackup
<1>6. /\ count \in Nat
      /\ seen \in [Threads -> SUBSET Nat]
      /\ cursor \in Nat \ {0}
  BY DEF Init
<1>7. TypeOK
  <2>1. module \in {"out", "loaded", "leaving"} /\ {active, dropped, stray, oops} \subseteq BOOLEAN
    BY DEF Init
  <2>2. refs \in [KernelPages -> Int] /\ owner \in [KernelPages -> Slots \cup {NoSlot}]
    BY DEF Init
  <2>3. /\ pc \in [Actors -> {"idle", "scan", "lookup", "delete", "insert", "record",
                              "find", "erase", "finish"}]
        /\ held \in [Actors -> Holdings]
    BY DEF Init, Holdings
  <2> QED BY <1>1, <1>2, <1>3, <1>4, <1>5, <1>6, <2>1, <2>2, <2>3 DEF TypeOK
<1>8. WorkOK
  BY DEF Init, WorkOK, Busy
<1>9. StageOK
  BY DEF Init, StageOK, Actors
<1>10. TableOK
  BY DEF Init, TableOK, NoBackup
<1> QED BY <1>7, <1>8, <1>9, <1>10 DEF Typed

-----------------------------------------------------------------------------
(* Abort and Advance, shared by most steps.                                *)

LEMMA AbortTyped ==
  ASSUME Typed, NEW a \in Actors, Busy(a), Abort(a), UNCHANGED << file, held >>
  PROVE  /\ pc' \in [Actors -> {"idle", "scan", "lookup", "delete", "insert", "record",
                                "find", "erase", "finish"}]
         /\ todo' \in [Actors -> Seq(PageRequest)]
         /\ WorkOK' /\ StageOK'
<1>1. /\ pc \in [Actors -> {"idle", "scan", "lookup", "delete", "insert", "record",
                            "find", "erase", "finish"}]
      /\ todo \in [Actors -> Seq(PageRequest)]
      /\ WorkOK /\ StageOK
  BY DEF Typed, TypeOK
<1>2. << >> \in Seq(PageRequest)
  OBVIOUS
<1> QED BY <1>1, <1>2, GraftConstants DEF Abort, WorkOK, StageOK, Busy, Actors, Page

LEMMA AdvanceTyped ==
  ASSUME Typed, NEW a \in Actors, Busy(a), NEW head, Advance(a, head),
         head = "find" \/ (a \in Threads /\ head = "lookup"),
         UNCHANGED file,
         \A u \in Actors \ {a} : held'[u] = held[u] \/ held[u] = a
  PROVE  /\ pc' \in [Actors -> {"idle", "scan", "lookup", "delete", "insert", "record",
                                "find", "erase", "finish"}]
         /\ todo' \in [Actors -> Seq(PageRequest)]
         /\ WorkOK' /\ StageOK'
<1>1. /\ pc \in [Actors -> {"idle", "scan", "lookup", "delete", "insert", "record",
                            "find", "erase", "finish"}]
      /\ todo \in [Actors -> Seq(PageRequest)]
      /\ WorkOK /\ StageOK
  BY DEF Typed, TypeOK
<1>2. /\ Tail(todo[a]) \in Seq(PageRequest)
      /\ \A n \in 1..Len(Tail(todo[a])) : << file[a], Tail(todo[a])[n].index >> \in Slots
  BY WorkFacts
<1>3. /\ pc' \in [Actors -> {"idle", "scan", "lookup", "delete", "insert", "record",
                             "find", "erase", "finish"}]
      /\ todo' \in [Actors -> Seq(PageRequest)]
  BY <1>1, <1>2 DEF Advance
<1>4. /\ \A u \in Actors \ {a} : pc'[u] = pc[u] /\ todo'[u] = todo[u]
      /\ todo'[a] = Tail(todo[a])
      /\ pc'[a] \in {"idle", "scan", head}
      /\ pc'[a] = head => a # Rmmod /\ Tail(todo[a]) # << >>
      /\ pc'[a] = "scan" => a = Rmmod
  BY <1>1, <1>2 DEF Advance
<1>5. WorkOK'
  BY <1>1, <1>2, <1>4 DEF WorkOK, Busy
<1>6. StageOK'
  <2>1. \A u \in Actors : pc'[u] = "finish" => u # a /\ pc[u] = "finish"
    BY <1>4
  <2>2. \A u \in Actors : pc'[u] = "finish" => IsPage(held[u]) /\ held[u] # a
    BY <1>1, <2>1, GraftConstants DEF StageOK, IsPage, Content
  <2>3. \A u \in Actors : pc'[u] = "finish" => IsPage(held'[u])
    BY <2>1, <2>2
  <2> QED BY <1>1, <1>4, <2>3, GraftConstants DEF StageOK, Page, Actors
<1> QED BY <1>3, <1>5, <1>6

LEMMA RefsTyped ==
  ASSUME refs \in [KernelPages -> Int], NEW c, NEW n \in Int
  PROVE  AddRef(c, n) \in [KernelPages -> Int]
BY DEF AddRef

LEMMA OwnerTyped ==
  ASSUME owner \in [KernelPages -> Slots \cup {NoSlot}], NEW c, NEW s \in Slots \cup {NoSlot}
  PROVE  SetOwner(c, s) \in [KernelPages -> Slots \cup {NoSlot}]
BY DEF SetOwner

\* Clearing a backup leaves every other record as it is.
LEMMA ClearFacts ==
  ASSUME Typed, NEW i
  PROVE  /\ ClearBackup(i) \in [1..MaxBackups -> Backup]
         /\ \A n \in 1..MaxBackups :
              ClearBackup(i)[n].live => table[n].live /\ ClearBackup(i)[n] = table[n]
<1>1. table \in [1..MaxBackups -> Backup] /\ NoBackup \in Backup /\ ~NoBackup.live
  BY DEF Typed, TypeOK, Backup, NoBackup
<1> QED BY <1>1 DEF ClearBackup

\* The record that backup_page_info appends, whatever values of backup_count it read.
LEMMA BackupTyped ==
  ASSUME Typed, NEW t \in Threads, pc[t] = "record", BackupPageInfo(t)
  PROVE  /\ table' \in [1..MaxBackups -> Backup] /\ TableOK'
         /\ count' \in Nat /\ seen' \in [Threads -> SUBSET Nat]
         /\ active' \in BOOLEAN /\ dropped' \in BOOLEAN /\ oops' \in BOOLEAN
<1>1. /\ table \in [1..MaxBackups -> Backup] /\ count \in Nat
      /\ active \in BOOLEAN /\ dropped \in BOOLEAN /\ oops \in BOOLEAN
      /\ seen \in [Threads -> SUBSET Nat]
      /\ MaxBackups \in Nat \ {0}
      /\ TableOK
  BY GraftConstants DEF Typed, TypeOK
<1>2. Slot(t) \in Slots
  BY WorkFacts DEF Busy, Actors
<1>3. [slot |-> Slot(t), live |-> TRUE] \in Backup
  BY <1>2 DEF Backup
<1>4. ASSUME NEW n \in Nat, SeeCount(t, n)
      PROVE  seen' \in [Threads -> SUBSET Nat]
  BY <1>1, <1>4 DEF SeeCount
<1>5. CASE AppendRecord(t)
  <2>1. PICK n \in seen[t], m \in seen[t] :
          /\ n < MaxBackups
          /\ table' = [table EXCEPT ![n + 1] = [slot |-> Slot(t), live |-> TRUE]]
          /\ count' = m + 1 /\ active' = TRUE /\ SeeCount(t, m + 1)
          /\ UNCHANGED << dropped, oops >>
    BY <1>5 DEF AppendRecord
  <2>2. n + 1 \in 1..MaxBackups /\ m + 1 \in Nat
    BY <1>1, <2>1
  <2>3. TableOK'
    BY <1>1, <1>2, <2>1, <2>2 DEF TableOK
  <2>4. table' \in [1..MaxBackups -> Backup]
    BY <1>1, <1>3, <2>1, <2>2
  <2> QED BY <1>1, <1>4, <2>1, <2>2, <2>3, <2>4
<1>6. CASE WritePastTable(t)
  <2>1. PICK m \in seen[t] : count' \in {1, m + 1}
    BY <1>6 DEF WritePastTable
  <2>2. count' \in Nat
    BY <1>1, <2>1
  <2>3. SeeCount(t, count') /\ table' = table
        /\ {active', dropped', oops'} \subseteq BOOLEAN
    BY <1>6 DEF WritePastTable
  <2> QED BY <1>1, <1>4, <2>2, <2>3 DEF TableOK
<1>7. CASE DropRecord(t)
  BY <1>1, <1>7 DEF DropRecord, tableVars, TableOK
<1> QED BY <1>5, <1>6, <1>7 DEF BackupPageInfo

-----------------------------------------------------------------------------
(* Every step keeps the types.                                             *)

LEMMA ModuleInitTyped == Typed /\ ModuleInit => Typed'
<1> SUFFICES ASSUME Typed, ModuleInit PROVE Typed'
  OBVIOUS
<1>1. table' \in [1..MaxBackups -> Backup] /\ TableOK' /\ count' \in Nat
  BY GraftConstants DEF ModuleInit, NoBackup, Backup, TableOK
<1>2. WorkOK' /\ StageOK'
  BY DEF Typed, ModuleInit, WorkOK, StageOK, Busy, Page
<1>3. module' \in {"out", "loaded", "leaving"} /\ active' \in BOOLEAN
  BY DEF ModuleInit
<1> QED BY <1>1, <1>2, <1>3 DEF ModuleInit, Typed, TypeOK

\* A message arrives: its pages are pages of the file.
LEMMA ReceiveTyped ==
  ASSUME Typed, NEW t \in Threads, NEW b \in Batches,
         ReceiveReplace(t, b) \/ ReceiveRestore(t, b)
  PROVE  Typed'
<1>1. /\ b.file \in Files /\ b.pages \in Seq(PageRequest) /\ b.pages # << >>
      /\ \A n \in 1..Len(b.pages) : << b.file, b.pages[n].index >> \in Slots
  BY GraftConstants
<1>2. PICK step \in {"lookup", "find"} :
        /\ pc' = [pc EXCEPT ![t] = step]
        /\ file' = [file EXCEPT ![t] = b.file]
        /\ todo' = [todo EXCEPT ![t] = b.pages]
        /\ UNCHANGED << module, cache, nrpages, refs, owner, tableVars, held, seen,
                        cursor, dropped, stray, oops >>
  BY DEF ReceiveReplace, ReceiveRestore
<1>3. t \in Actors /\ t # Rmmod
  BY GraftConstants DEF Actors
<1>4. TypeOK'
  BY <1>1, <1>2, <1>3 DEF Typed, TypeOK, tableVars
<1>5. WorkOK'
  BY <1>1, <1>2, <1>3 DEF Typed, TypeOK, WorkOK, Busy
<1>6. StageOK'
  BY <1>2, <1>3 DEF Typed, TypeOK, StageOK, Page, Actors
<1> QED BY <1>2, <1>4, <1>5, <1>6 DEF Typed, TableOK, tableVars

LEMMA LookupFailsTyped ==
  ASSUME Typed, NEW t \in Threads, LookupFails(t)
  PROVE  Typed'
<1>1. Busy(t) /\ t \in Actors
  BY DEF LookupFails, At, Busy, Actors
<1>2. Abort(t) /\ UNCHANGED << file, held >>
  BY DEF LookupFails
<1> QED BY <1>1, <1>2, AbortTyped DEF LookupFails, tableVars, Typed, TypeOK, TableOK

LEMMA InsertConflictTyped ==
  ASSUME Typed, NEW t \in Threads, InsertConflict(t)
  PROVE  Typed'
<1>1. Busy(t) /\ t \in Actors
  BY DEF InsertConflict, At, Busy, Actors
<1>2. Abort(t) /\ UNCHANGED << file, held >>
  BY DEF InsertConflict
<1> QED BY <1>1, <1>2, AbortTyped DEF InsertConflict, tableVars, Typed, TypeOK, TableOK

LEMMA LookupTyped ==
  ASSUME Typed, NEW t \in Threads, Lookup(t)
  PROVE  Typed'
<1>1. Busy(t) /\ t \in Actors /\ t # Rmmod
  BY GraftConstants DEF Lookup, At, Busy, Actors
<1>2. Page(t) \in KernelPages /\ Slot(t) \in Slots
  BY <1>1, WorkFacts DEF Lookup
<1>3. PICK step \in {"delete", "insert"} : pc' = [pc EXCEPT ![t] = step]
  BY DEF Lookup
<1>4. held' \in [Actors -> Holdings]
      /\ \A u \in Actors \ {t} : held'[u] = held[u]
  <2>1. held \in [Actors -> Holdings]
    BY DEF Typed, TypeOK
  <2>2. held' = held \/ \E c \in {"original"} \cup KernelPages : held' = [held EXCEPT ![t] = c]
    BY DEF Lookup, IsPage
  <2>3. {"original"} \cup KernelPages \subseteq Holdings
    BY DEF Holdings
  <2> QED BY <1>1, <2>1, <2>2, <2>3
<1>5. refs' \in [KernelPages -> Int]
  BY RefsTyped DEF Lookup, Typed, TypeOK
<1>6. TypeOK'
  BY <1>1, <1>3, <1>4, <1>5 DEF Lookup, Typed, TypeOK, tableVars
<1>7. WorkOK'
  BY <1>1, <1>3 DEF Lookup, Typed, TypeOK, WorkOK, Busy
<1>8. StageOK'
  BY <1>1, <1>2, <1>3, <1>4 DEF Lookup, Typed, TypeOK, StageOK, Page, Actors
<1> QED BY <1>6, <1>7, <1>8 DEF Lookup, Typed, TableOK, tableVars

\* A handler that has lost its page, or whose page has, holds a marker.
LEMMA LoseTyped ==
  ASSUME Typed, NEW t \in Actors, NEW s, NEW mark \in {"stale"} \cup Actors
  PROVE  /\ LosePage(t, s, mark) \in [Actors -> Holdings]
         /\ LosePage(t, s, mark)[t] = held[t]
         /\ \A u \in Actors : LosePage(t, s, mark)[u] = held[u] \/ pc[u] = "delete"
BY DEF LosePage, Typed, TypeOK, Holdings

LEMMA DeleteExistingTyped ==
  ASSUME Typed, NEW t \in Threads, DeleteExisting(t)
  PROVE  Typed'
<1>1. Busy(t) /\ t \in Actors /\ t # Rmmod /\ pc[t] = "delete"
  BY GraftConstants DEF DeleteExisting, At, Busy, Actors
<1>2. Page(t) \in KernelPages /\ Slot(t) \in Slots
  BY <1>1, WorkFacts DEF Typed, StageOK
<1>3. Place(t) \in Slots /\ Place(t)[1] \in Files
  <2>1. Place(t) \in Slots
    BY <1>1, <1>2 DEF DeleteExisting, Place, Typed, TypeOK
  <2>2. \A s \in Slots : s[1] \in Files
    BY GraftConstants
  <2> QED BY <2>1, <2>2
<1>4. refs' \in [KernelPages -> Int] /\ owner' \in [KernelPages -> Slots \cup {NoSlot}]
  BY RefsTyped, OwnerTyped DEF DeleteExisting, Typed, TypeOK
<1>5. cache' \in [Slots -> Content] /\ nrpages' \in [Files -> Int]
  BY <1>3 DEF DeleteExisting, Typed, TypeOK, Content
<1>6. /\ held' \in [Actors -> Holdings]
      /\ \A u \in Actors \ {t} : held'[u] = held[u] \/ pc[u] = "delete"
  <2>1. held' = [LosePage(t, Place(t), "stale") EXCEPT ![t] = "none"]
    BY DEF DeleteExisting
  <2>2. LosePage(t, Place(t), "stale") \in [Actors -> Holdings] /\ "none" \in Holdings
    BY <1>1, LoseTyped DEF Holdings
  <2>3. \A u \in Actors : LosePage(t, Place(t), "stale")[u] = held[u] \/ pc[u] = "delete"
    BY <1>1, LoseTyped
  <2> QED BY <2>1, <2>2, <2>3
<1>7. /\ pc' = [pc EXCEPT ![t] = "insert"] /\ stray' \in BOOLEAN
      /\ UNCHANGED << module, table, count, active, file, todo, seen, cursor, dropped, oops >>
  BY DEF DeleteExisting, tableVars, Typed, TypeOK
<1>8. TypeOK'
  BY <1>1, <1>4, <1>5, <1>6, <1>7 DEF Typed, TypeOK
<1>9. WorkOK'
  BY <1>1, <1>7 DEF Typed, TypeOK, WorkOK, Busy
<1>10. StageOK'
  BY <1>1, <1>2, <1>6, <1>7 DEF Typed, TypeOK, StageOK, Page, Actors
<1> QED BY <1>7, <1>8, <1>9, <1>10 DEF Typed, TableOK

LEMMA DeleteUnmappedTyped ==
  ASSUME Typed, NEW t \in Threads, DeleteUnmapped(t)
  PROVE  Typed'
<1>1. TypeOK'
  BY DEF DeleteUnmapped, Typed, TypeOK, tableVars
<1>2. WorkOK' /\ StageOK' /\ TableOK'
  BY DEF DeleteUnmapped, Typed, WorkOK, StageOK, TableOK, Busy, Page, tableVars
<1> QED BY <1>1, <1>2 DEF Typed

LEMMA InsertTyped ==
  ASSUME Typed, NEW t \in Threads, Insert(t)
  PROVE  Typed'
<1>1. Busy(t) /\ t \in Actors /\ t # Rmmod /\ pc[t] = "insert"
  BY GraftConstants DEF Insert, At, Busy, Actors
<1>2. Page(t) \in KernelPages /\ Slot(t) \in Slots
  BY <1>1, WorkFacts DEF Typed, StageOK
<1>3. refs' \in [KernelPages -> Int] /\ owner' \in [KernelPages -> Slots \cup {NoSlot}]
  BY <1>2, RefsTyped, OwnerTyped DEF Insert, Typed, TypeOK
<1>4. TypeOK'
  BY <1>1, <1>3 DEF Insert, Typed, TypeOK, tableVars
<1>5. WorkOK'
  BY <1>1 DEF Insert, Typed, TypeOK, WorkOK, Busy
<1>6. StageOK'
  BY <1>1, <1>2 DEF Insert, Typed, TypeOK, StageOK, Page, Actors
<1> QED BY <1>4, <1>5, <1>6 DEF Insert, Typed, TableOK, tableVars

LEMMA RecordTyped ==
  ASSUME Typed, NEW t \in Threads, Record(t)
  PROVE  Typed'
<1>1. Busy(t) /\ t \in Actors /\ pc[t] = "record"
  BY DEF Record, At, Busy, Actors
<1>2. Page(t) \in KernelPages /\ Slot(t) \in Slots /\ file[t] \in Files
  BY <1>1, WorkFacts DEF Typed, StageOK
<1>3. /\ pc' \in [Actors -> {"idle", "scan", "lookup", "delete", "insert", "record",
                             "find", "erase", "finish"}]
      /\ todo' \in [Actors -> Seq(PageRequest)]
      /\ WorkOK' /\ StageOK'
  BY <1>1, AdvanceTyped DEF Record
<1>4. /\ table' \in [1..MaxBackups -> Backup] /\ TableOK'
      /\ count' \in Nat /\ seen' \in [Threads -> SUBSET Nat]
      /\ active' \in BOOLEAN /\ dropped' \in BOOLEAN /\ oops' \in BOOLEAN
  BY <1>1, BackupTyped DEF Record
<1>5. cache' \in [Slots -> Content] /\ nrpages' \in [Files -> Int]
  BY <1>2, GraftConstants DEF Record, Typed, TypeOK, Content
<1> QED BY <1>3, <1>4, <1>5 DEF Record, Typed, TypeOK

LEMMA RecordFailsTyped ==
  ASSUME Typed, NEW t \in Threads, RecordFails(t)
  PROVE  Typed'
<1>1. Busy(t) /\ t \in Actors /\ pc[t] = "record"
  BY DEF RecordFails, At, Busy, Actors
<1>2. /\ pc' \in [Actors -> {"idle", "scan", "lookup", "delete", "insert", "record",
                             "find", "erase", "finish"}]
      /\ todo' \in [Actors -> Seq(PageRequest)]
      /\ WorkOK' /\ StageOK'
  BY <1>1, AbortTyped DEF RecordFails
<1>3. /\ table' \in [1..MaxBackups -> Backup] /\ TableOK'
      /\ count' \in Nat /\ seen' \in [Threads -> SUBSET Nat]
      /\ active' \in BOOLEAN /\ dropped' \in BOOLEAN /\ oops' \in BOOLEAN
  BY <1>1, BackupTyped DEF RecordFails
<1>4. refs' \in [KernelPages -> Int]
  BY RefsTyped, GraftConstants DEF RecordFails, Typed, TypeOK
<1> QED BY <1>2, <1>3, <1>4 DEF RecordFails, Typed, TypeOK

LEMMA FindBackupFailsTyped ==
  ASSUME Typed, NEW a \in Actors, FindBackupFails(a)
  PROVE  Typed'
<1>1. Busy(a) /\ a \in Actors
  BY DEF FindBackupFails, At, Busy, Actors
<1>2. Abort(a) /\ UNCHANGED << file, held >>
  BY DEF FindBackupFails
<1> QED BY <1>1, <1>2, AbortTyped DEF FindBackupFails, tableVars, Typed, TypeOK, TableOK

LEMMA FindTyped ==
  ASSUME Typed, NEW a \in Actors, Find(a)
  PROVE  Typed'
<1>1. pc[a] = "find" /\ Busy(a) /\ pc' = [pc EXCEPT ![a] = "erase"]
  BY DEF Find, At, Busy
<1>2. TypeOK'
  BY <1>1 DEF Find, Typed, TypeOK, tableVars
<1>3. WorkOK'
  BY <1>1 DEF Find, Typed, TypeOK, WorkOK, Busy
<1>4. StageOK'
  BY <1>1, GraftConstants DEF Find, Typed, TypeOK, StageOK, Page, Actors
<1> QED BY <1>2, <1>3, <1>4 DEF Find, Typed, TableOK, tableVars

LEMMA EraseNothingTyped ==
  ASSUME Typed, NEW a \in Actors, EraseNothing(a)
  PROVE  Typed'
<1>1. TypeOK'
  BY DEF EraseNothing, Typed, TypeOK, tableVars
<1>2. WorkOK' /\ StageOK' /\ TableOK'
  BY DEF EraseNothing, Typed, WorkOK, StageOK, TableOK, Busy, Page, tableVars
<1> QED BY <1>1, <1>2 DEF Typed

LEMMA EraseTyped ==
  ASSUME Typed, NEW a \in Actors, Erase(a)
  PROVE  Typed'
<1>1. pc[a] = "erase" /\ Busy(a) /\ pc' = [pc EXCEPT ![a] = "finish"]
  BY DEF Erase, At, Busy
<1>2. Slot(a) \in Slots /\ file[a] \in Files
  BY <1>1, WorkFacts
<1>3. cache' \in [Slots -> Content] /\ nrpages' \in [Files -> Int]
  BY <1>2 DEF Erase, Typed, TypeOK, Content
<1>4. /\ held' \in [Actors -> Holdings]
      /\ IsPage(held'[a])
      /\ \A u \in Actors \ {a} : held'[u] = held[u] \/ pc[u] = "delete"
  <2>1. /\ held' = [LosePage(a, Slot(a), a) EXCEPT ![a] = cache[Slot(a)]]
        /\ IsPage(cache[Slot(a)])
    BY DEF Erase
  <2>2. cache[Slot(a)] \in {"original"} \cup KernelPages
    BY <2>1 DEF IsPage
  <2>3. /\ LosePage(a, Slot(a), a) \in [Actors -> Holdings]
        /\ \A u \in Actors : LosePage(a, Slot(a), a)[u] = held[u] \/ pc[u] = "delete"
    BY LoseTyped
  <2>4. cache[Slot(a)] \in Holdings
    BY <2>2 DEF Holdings
  <2>5. held' \in [Actors -> Holdings] /\ held'[a] = cache[Slot(a)]
    BY <2>1, <2>3, <2>4
  <2>6. \A u \in Actors \ {a} : held'[u] = LosePage(a, Slot(a), a)[u]
    BY <2>1, <2>3
  <2> QED BY <2>1, <2>3, <2>5, <2>6
<1>5. TypeOK'
  BY <1>1, <1>3, <1>4 DEF Erase, Typed, TypeOK, tableVars
<1>6. WorkOK'
  BY <1>1 DEF Erase, Typed, TypeOK, WorkOK, Busy
<1>7. StageOK'
  BY <1>1, <1>4, GraftConstants DEF Erase, Typed, TypeOK, StageOK, Page, Actors
<1> QED BY <1>5, <1>6, <1>7 DEF Erase, Typed, TableOK, tableVars

LEMMA EraseFailsTyped ==
  ASSUME Typed, NEW a \in Actors, EraseFails(a)
  PROVE  Typed'
<1>1. Busy(a)
  BY DEF EraseFails, At, Busy
<1>2. Abort(a) /\ UNCHANGED << file, held >>
  BY DEF EraseFails
<1>3. refs' \in [KernelPages -> Int]
  BY RefsTyped DEF EraseFails, Typed, TypeOK
<1> QED BY <1>1, <1>2, <1>3, AbortTyped DEF EraseFails, tableVars, Typed, TypeOK, TableOK

LEMMA FinishTyped ==
  ASSUME Typed, NEW a \in Actors, Finish(a)
  PROVE  Typed'
<1>1. Busy(a) /\ pc[a] = "finish"
  BY DEF Finish, At, Busy
<1>2. held' \in [Actors -> Holdings]
      /\ \A u \in Actors \ {a} : held'[u] = held[u] \/ held[u] = a
  BY DEF Finish, Typed, TypeOK, Holdings
<1>3. /\ pc' \in [Actors -> {"idle", "scan", "lookup", "delete", "insert", "record",
                             "find", "erase", "finish"}]
      /\ todo' \in [Actors -> Seq(PageRequest)]
      /\ WorkOK' /\ StageOK'
  BY <1>1, <1>2, AdvanceTyped DEF Finish
<1>4. table' \in [1..MaxBackups -> Backup] /\ TableOK'
  BY ClearFacts DEF Finish, Typed, TableOK
<1>5. refs' \in [KernelPages -> Int] /\ owner' \in [KernelPages -> Slots \cup {NoSlot}]
  BY RefsTyped, OwnerTyped DEF Finish, Typed, TypeOK
<1> QED BY <1>2, <1>3, <1>4, <1>5 DEF Finish, Typed, TypeOK

LEMMA ModuleExitTyped == Typed /\ ModuleExit => Typed'
<1> SUFFICES ASSUME Typed, ModuleExit PROVE Typed'
  OBVIOUS
<1>1. Rmmod \in Actors /\ Rmmod \notin Threads /\ cursor' \in Nat \ {0}
  BY GraftConstants DEF Actors, ModuleExit
<1>2. TypeOK'
  BY <1>1 DEF ModuleExit, Typed, TypeOK, tableVars
<1>3. WorkOK'
  BY <1>1 DEF ModuleExit, Typed, TypeOK, WorkOK, Busy
<1>4. StageOK'
  BY <1>1 DEF ModuleExit, Typed, TypeOK, StageOK, Page, Actors
<1> QED BY <1>2, <1>3, <1>4 DEF ModuleExit, Typed, TableOK, tableVars

LEMMA ExitScanTyped == Typed /\ ExitScan => Typed'
<1> SUFFICES ASSUME Typed, ExitScan PROVE Typed'
  OBVIOUS
<1>1. Rmmod \in Actors /\ Rmmod \notin Threads /\ pc[Rmmod] = "scan"
  BY GraftConstants DEF Actors, ExitScan, At
<1>2. cursor \in 1..MaxBackups /\ cursor' \in Nat \ {0}
  BY GraftConstants DEF ExitScan, Typed, TypeOK
<1>3. CASE table[cursor].live
  <2> DEFINE e    == table[cursor]
             work == << [index |-> e.slot[2], page |-> NoPage] >>
  <2>1. e.slot \in Slots
    BY <1>2, <1>3 DEF Typed, TableOK
  <2>2. e.slot[1] \in Files /\ e.slot[2] \in Nat /\ e.slot = << e.slot[1], e.slot[2] >>
    BY <2>1, GraftConstants
  <2>3. work \in Seq(PageRequest) /\ work # << >> /\ Len(work) = 1
        /\ work[1] = [index |-> e.slot[2], page |-> NoPage]
    BY <2>2 DEF PageRequest
  <2>4. /\ pc' = [pc EXCEPT ![Rmmod] = "find"]
        /\ file' = [file EXCEPT ![Rmmod] = e.slot[1]]
        /\ todo' = [todo EXCEPT ![Rmmod] = work]
    BY <1>3 DEF ExitScan
  <2> HIDE DEF work
  <2>5. TypeOK'
    BY <1>1, <1>2, <2>2, <2>3, <2>4 DEF ExitScan, Typed, TypeOK, tableVars
  <2>6. \A n \in 1..Len(work) : << e.slot[1], work[n].index >> \in Slots
    BY <2>1, <2>2, <2>3
  <2>7. WorkOK'
    BY <1>1, <2>3, <2>4, <2>6 DEF ExitScan, Typed, TypeOK, WorkOK, Busy
  <2>8. StageOK'
    BY <1>1, <2>4 DEF ExitScan, Typed, TypeOK, StageOK, Page, Actors
  <2> QED BY <2>5, <2>7, <2>8 DEF ExitScan, Typed, TableOK, tableVars
<1>4. CASE ~table[cursor].live
  <2>1. UNCHANGED << pc, file, todo >>
    BY <1>4 DEF ExitScan
  <2>2. TypeOK'
    BY <1>2, <2>1 DEF ExitScan, Typed, TypeOK, tableVars
  <2>3. WorkOK' /\ StageOK' /\ TableOK'
    BY <2>1 DEF ExitScan, Typed, WorkOK, StageOK, TableOK, Busy, Page, tableVars
  <2> QED BY <2>2, <2>3 DEF Typed
<1> QED BY <1>3, <1>4

LEMMA ExitScanPastTyped == Typed /\ ExitScanPast => Typed'
<1> SUFFICES ASSUME Typed, ExitScanPast PROVE Typed'
  OBVIOUS
<1>1. TypeOK'
  BY DEF ExitScanPast, Typed, TypeOK, tableVars
<1>2. WorkOK' /\ StageOK' /\ TableOK'
  BY DEF ExitScanPast, Typed, WorkOK, StageOK, TableOK, Busy, Page, tableVars
<1> QED BY <1>1, <1>2 DEF Typed

LEMMA ExitDoneTyped == Typed /\ ExitDone => Typed'
<1> SUFFICES ASSUME Typed, ExitDone PROVE Typed'
  OBVIOUS
<1>1. Rmmod \in Actors /\ Rmmod \notin Threads
  BY GraftConstants DEF Actors
<1>2. /\ table' \in [1..MaxBackups -> Backup] /\ TableOK' /\ count' \in Nat
      /\ cursor' \in Nat \ {0}
  BY GraftConstants DEF ExitDone, NoBackup, Backup, TableOK
<1>3. module' \in {"out", "loaded", "leaving"} /\ active' \in BOOLEAN
  BY DEF ExitDone
<1>4. TypeOK'
  BY <1>1, <1>2, <1>3 DEF ExitDone, Typed, TypeOK
<1>5. WorkOK'
  BY <1>1 DEF ExitDone, Typed, TypeOK, WorkOK, Busy
<1>6. StageOK'
  BY <1>1 DEF ExitDone, Typed, TypeOK, StageOK, Page, Actors
<1> QED BY <1>2, <1>4, <1>5, <1>6 DEF Typed

LEMMA KernelTyped ==
  ASSUME Typed, NEW s \in Slots, PageFault(s) \/ Reclaim(s)
  PROVE  Typed'
<1>1. s[1] \in Files
  BY GraftConstants
<1>2. cache' \in [Slots -> Content] /\ nrpages' \in [Files -> Int]
  <2>1. PICK c \in Content, n \in {1, -1} :
          /\ cache' = [cache EXCEPT ![s] = c]
          /\ nrpages' = [nrpages EXCEPT ![s[1]] = @ + n]
    <3>1. CASE PageFault(s)
      BY <3>1 DEF PageFault, Content
    <3>2. CASE Reclaim(s)
      BY <1>1, <3>2 DEF Reclaim, Content, Typed, TypeOK
    <3> QED BY <3>1, <3>2
  <2> QED BY <1>1, <2>1 DEF Typed, TypeOK
<1>3. UNCHANGED << module, refs, owner, table, count, active, pc, file, todo, held,
                   seen, cursor, dropped, stray, oops >>
  BY DEF PageFault, Reclaim, tableVars
<1>4. TypeOK'
  BY <1>2, <1>3 DEF Typed, TypeOK
<1>5. WorkOK' /\ StageOK' /\ TableOK'
  BY <1>3 DEF Typed, WorkOK, StageOK, TableOK, Busy, Page
<1> QED BY <1>4, <1>5 DEF Typed

LEMMA NextTyped == Typed /\ [Next]_vars => Typed'
<1> SUFFICES ASSUME Typed, [Next]_vars PROVE Typed'
  OBVIOUS
<1>1. CASE ModuleInit \/ ModuleExit \/ ExitScan \/ ExitScanPast \/ ExitDone
  BY <1>1, ModuleInitTyped, ModuleExitTyped, ExitScanTyped, ExitScanPastTyped, ExitDoneTyped
<1>2. CASE \E t \in Threads, b \in Batches : ReceiveReplace(t, b) \/ ReceiveRestore(t, b)
  BY <1>2, ReceiveTyped
<1>3. CASE \E t \in Threads : ReplaceStep(t)
  BY <1>3, LookupFailsTyped, LookupTyped, DeleteExistingTyped, DeleteUnmappedTyped,
     InsertConflictTyped, InsertTyped, RecordTyped, RecordFailsTyped DEF ReplaceStep
<1>4. CASE \E a \in Actors : RestoreStep(a)
  BY <1>4, FindBackupFailsTyped, FindTyped, EraseNothingTyped, EraseTyped, EraseFailsTyped, FinishTyped DEF RestoreStep
<1>5. CASE \E s \in Slots : PageFault(s) \/ Reclaim(s)
  BY <1>5, KernelTyped
<1>6. CASE UNCHANGED vars
  BY <1>6 DEF vars, Typed, TypeOK, WorkOK, StageOK, TableOK, Busy, Page
<1> QED BY <1>1, <1>2, <1>3, <1>4, <1>5, <1>6 DEF Next

\* Every variable keeps its type, whatever values of backup_count a handler reads
\* (backup_page_info) and however far it has passed the table, for any number of
\* senders and messages.
THEOREM TypeCorrect == Spec => []TypeOK
<1>1. Typed => TypeOK
  BY DEF Typed
<1> QED BY InitTyped, NextTyped, <1>1, PTL DEF Spec

-----------------------------------------------------------------------------
(* nrpages is the number of cached pages, for any number of senders.       *)

\* What xas_lock guarantees to the handler that stores a page: the slot it
\* found free is still free, and no other handler stores into the file.
Locks ==
  /\ \A t \in Threads : pc[t] = "record" => ~IsPage(cache[Slot(t)])
  /\ \A t, u \in Threads :
       pc[t] = "record" /\ pc[u] = "record" /\ file[t] = file[u] => t = u

PagesOf(f, c) == { s \in Slots : s[1] = f /\ IsPage(c[s]) }

LEMMA CountPages ==
  ASSUME NEW f, NEW c
  PROVE  IsFiniteSet(PagesOf(f, c)) /\ Cardinality(PagesOf(f, c)) \in Nat
BY CountedPages DEF PagesOf

LEMMA PageAdded ==
  ASSUME cache \in [Slots -> Content], NEW s \in Slots, NEW x,
         cache' = [cache EXCEPT ![s] = x], IsPage(x), ~IsPage(cache[s]), NEW f
  PROVE  /\ s[1] = f => Cardinality(PagesOf(f, cache')) = Cardinality(PagesOf(f, cache)) + 1
         /\ s[1] # f => PagesOf(f, cache') = PagesOf(f, cache)
<1>1. CASE s[1] = f
  <2>1. PagesOf(f, cache') = PagesOf(f, cache) \cup {s} /\ s \notin PagesOf(f, cache)
    BY <1>1 DEF PagesOf
  <2> QED BY ZenonT(60), <1>1, <2>1, CountPages, FS_AddElement
<1>2. s[1] # f => PagesOf(f, cache') = PagesOf(f, cache)
  BY DEF PagesOf
<1> QED BY <1>1, <1>2

LEMMA PageRemoved ==
  ASSUME cache \in [Slots -> Content], NEW s \in Slots, NEW x,
         cache' = [cache EXCEPT ![s] = x], ~IsPage(x), IsPage(cache[s]), NEW f
  PROVE  /\ s[1] = f => /\ Cardinality(PagesOf(f, cache')) = Cardinality(PagesOf(f, cache)) - 1
                        /\ Cardinality(PagesOf(f, cache)) > 0
         /\ s[1] # f => PagesOf(f, cache') = PagesOf(f, cache)
<1>1. CASE s[1] = f
  <2>1. PagesOf(f, cache') = PagesOf(f, cache) \ {s} /\ s \in PagesOf(f, cache)
    BY <1>1 DEF PagesOf
  <2>2. Cardinality(PagesOf(f, cache)) # 0
    BY <2>1, CountPages, FS_EmptySet
  <2>3. Cardinality(PagesOf(f, cache)) > 0
    BY <2>2, CountPages
  <2>4. Cardinality(PagesOf(f, cache')) = Cardinality(PagesOf(f, cache)) - 1
    BY <2>1, CountPages, FS_RemoveElement
  <2> QED BY <1>1, <2>3, <2>4
<1>2. s[1] # f => PagesOf(f, cache') = PagesOf(f, cache)
  BY DEF PagesOf
<1> QED BY <1>1, <1>2

\* A step that takes no lock keeps what the holders of locks know.
LEMMA LocksKept ==
  ASSUME Locks,
         \A u \in Threads : pc'[u] = "record" =>
           /\ pc[u] = "record" /\ file'[u] = file[u] /\ todo'[u] = todo[u]
           /\ IsPage(cache'[Slot(u)]) => IsPage(cache[Slot(u)])
  PROVE  Locks'
BY ZenonT(60) DEF Locks, Slot

\* A step that changes one slot of a page cache and the nrpages of its file.
LEMMA CacheSteps ==
  ASSUME Typed, PageAccounting, stray => stray', NEW s \in Slots, NEW x \in Content,
         cache' = [cache EXCEPT ![s] = x],
         \/ IsPage(x) /\ ~IsPage(cache[s]) /\ nrpages' = [nrpages EXCEPT ![s[1]] = @ + 1]
         \/ /\ ~IsPage(x) /\ IsPage(cache[s])
            /\ \/ nrpages' = [nrpages EXCEPT ![s[1]] = @ - 1]
               \/ nrpages' = [nrpages EXCEPT ![s[1]] = IF @ # 0 THEN @ - 1 ELSE @]
  PROVE  PageAccounting'
<1> SUFFICES ASSUME ~stray' PROVE PagesCounted'
  BY DEF PageAccounting, PagesCounted
<1>1. /\ s[1] \in Files
      /\ cache \in [Slots -> Content] /\ nrpages \in [Files -> Int]
      /\ \A f \in Files : nrpages[f] = Cardinality(PagesOf(f, cache))
  BY GraftConstants DEF Typed, TypeOK, PageAccounting, PagesCounted, PagesOf
<1>2. SUFFICES ASSUME NEW f \in Files
               PROVE  nrpages'[f] = Cardinality(PagesOf(f, cache'))
  BY DEF PagesCounted, PagesOf
<1>3. CASE IsPage(x) /\ ~IsPage(cache[s]) /\ nrpages' = [nrpages EXCEPT ![s[1]] = @ + 1]
  <2>1. /\ s[1] = f => Cardinality(PagesOf(f, cache')) = Cardinality(PagesOf(f, cache)) + 1
        /\ s[1] # f => PagesOf(f, cache') = PagesOf(f, cache)
    BY <1>1, <1>3, PageAdded
  <2> QED BY <1>1, <1>3, <2>1
<1>4. CASE /\ ~IsPage(x) /\ IsPage(cache[s])
           /\ \/ nrpages' = [nrpages EXCEPT ![s[1]] = @ - 1]
              \/ nrpages' = [nrpages EXCEPT ![s[1]] = IF @ # 0 THEN @ - 1 ELSE @]
  <2>1. /\ s[1] = f => /\ Cardinality(PagesOf(f, cache')) = Cardinality(PagesOf(f, cache)) - 1
                       /\ Cardinality(PagesOf(f, cache)) > 0
        /\ s[1] # f => PagesOf(f, cache') = PagesOf(f, cache)
    BY <1>1, <1>4, PageRemoved
  <2> QED BY <1>1, <1>4, <2>1
<1> QED BY <1>3, <1>4

LEMMA InitAccounting == Init => Locks /\ PageAccounting
BY DEF Init, Locks, PageAccounting, PagesCounted, Actors

LEMMA ReplaceAccounting ==
  ASSUME Typed, Locks, PageAccounting, NEW t \in Threads, ReplaceStep(t)
  PROVE  Locks' /\ PageAccounting'
<1>0. t \in Actors /\ Threads \subseteq Actors /\ pc \in [Actors -> {"idle", "scan", "lookup", "delete", "insert", "record",
                              "find", "erase", "finish"}]
  BY DEF Actors, Typed, TypeOK
<1>1. ASSUME LookupFails(t) \/ InsertConflict(t) \/ RecordFails(t)
      PROVE  Locks' /\ PageAccounting'
  <2>1. Abort(t) /\ UNCHANGED << file, cache, nrpages, stray >>
    BY <1>1 DEF LookupFails, InsertConflict, RecordFails
  <2>2. todo \in [Actors -> Seq(PageRequest)] /\ t # Rmmod
    BY GraftConstants DEF Typed, TypeOK
  <2>3. Locks'
    BY <1>0, <2>1, <2>2, LocksKept DEF Abort, Slot
  <2> QED BY <2>1, <2>3 DEF PageAccounting, PagesCounted
<1>2. ASSUME Lookup(t)
      PROVE  Locks' /\ PageAccounting'
  <2>1. Locks'
    BY <1>0, <1>2, LocksKept DEF Lookup, Slot
  <2> QED BY <1>2, <2>1 DEF Lookup, PageAccounting, PagesCounted
<1>3. ASSUME DeleteExisting(t)
      PROVE  Locks' /\ PageAccounting'
  <2> DEFINE s == Place(t)
  <2>1. s \in Slots /\ cache \in [Slots -> Content]
    BY <1>0, <1>3, WorkFacts DEF DeleteExisting, At, Busy, Place, Typed, TypeOK
  <2>2. /\ cache' = [cache EXCEPT ![s] = "hole"]
        /\ nrpages' = [nrpages EXCEPT ![s[1]] = @ - 1]
        /\ pc' = [pc EXCEPT ![t] = "insert"]
        /\ stray' = (stray \/ cache[s] # held[t])
        /\ UNCHANGED << file, todo >>
    BY <1>3 DEF DeleteExisting
  <2>3. ~IsPage("hole") /\ "hole" \in Content
    BY GraftConstants DEF Content, IsPage
  <2> HIDE DEF s
  <2>4. PageAccounting'
    <3>1. CASE cache[s] = held[t]
      <4>1. held[t] \in Holdings
        BY <1>0 DEF Typed, TypeOK
      <4>2. IsPage(cache[s])
        BY <2>1, <3>1, <4>1, GraftConstants DEF Holdings, Content, IsPage
      <4> QED BY <2>1, <2>2, <2>3, <4>2, CacheSteps
    <3>2. CASE cache[s] # held[t]
      BY <2>2, <3>2 DEF PageAccounting
    <3> QED BY <3>1, <3>2
  <2>5. \A u \in Threads : pc'[u] = "record" =>
          /\ pc[u] = "record" /\ file'[u] = file[u] /\ todo'[u] = todo[u]
          /\ IsPage(cache'[Slot(u)]) => IsPage(cache[Slot(u)])
    <3> SUFFICES ASSUME NEW u \in Threads, pc'[u] = "record"
                 PROVE  /\ pc[u] = "record" /\ file'[u] = file[u] /\ todo'[u] = todo[u]
                        /\ IsPage(cache'[Slot(u)]) => IsPage(cache[Slot(u)])
      OBVIOUS
    <3>1. pc[u] = "record" /\ file'[u] = file[u] /\ todo'[u] = todo[u]
      BY <1>0, <2>2
    <3>2. Slot(u) \in Slots
      BY <1>0, <3>1, WorkFacts DEF Busy
    <3> QED BY <2>1, <2>2, <2>3, <3>1, <3>2
  <2> QED BY <2>4, <2>5, LocksKept
<1>3a. ASSUME DeleteUnmapped(t)
       PROVE  Locks' /\ PageAccounting'
  BY <1>3a, LocksKept DEF DeleteUnmapped, PageAccounting, PagesCounted, Slot
<1>4. ASSUME Insert(t)
      PROVE  Locks' /\ PageAccounting'
  <2>1. /\ pc' = [pc EXCEPT ![t] = "record"] /\ UNCHANGED << file, todo, cache, nrpages, stray >>
        /\ ~IsPage(cache[Slot(t)])
        /\ \A u \in Threads : pc[u] = "record" => file[u] # file[t]
    BY <1>4 DEF Insert, SlotFree, XaLocked
  <2>2. Locks'
    BY <1>0, <2>1 DEF Locks, Slot
  <2> QED BY <2>1, <2>2 DEF PageAccounting, PagesCounted
<1>5. ASSUME Record(t)
      PROVE  Locks' /\ PageAccounting'
  <2>1. /\ pc[t] = "record" /\ Slot(t) \in Slots /\ Slot(t)[1] = file[t]
        /\ Page(t) \in KernelPages
        /\ ~IsPage(cache[Slot(t)]) /\ IsPage(Page(t)) /\ Page(t) \in Content
    BY <1>0, <1>5, WorkFacts DEF Record, At, Busy, Typed, StageOK, Locks, IsPage, Content
  <2>2. PageAccounting'
    BY <1>5, <2>1, CacheSteps DEF Record
  <2>3. \A u \in Threads : pc'[u] = "record" =>
          /\ pc[u] = "record" /\ file'[u] = file[u] /\ todo'[u] = todo[u]
          /\ IsPage(cache'[Slot(u)]) => IsPage(cache[Slot(u)])
    <3> SUFFICES ASSUME NEW u \in Threads, pc'[u] = "record"
                 PROVE  /\ pc[u] = "record" /\ file'[u] = file[u] /\ todo'[u] = todo[u]
                        /\ IsPage(cache'[Slot(u)]) => IsPage(cache[Slot(u)])
      OBVIOUS
    <3>1. t # Rmmod /\ pc'[t] \in {"idle", "lookup"}
      BY <1>0, <1>5, GraftConstants DEF Record, Advance
    <3>2. u # t /\ pc[u] = "record" /\ todo'[u] = todo[u] /\ file'[u] = file[u]
      BY <1>0, <1>5, <3>1 DEF Record, Advance, Typed, TypeOK
    <3>3. file[u] # file[t]
      BY <2>1, <3>2 DEF Locks
    <3>4. Slot(u) \in Slots /\ Slot(u)[1] = file[u]
      BY <1>0, <3>2, WorkFacts DEF Busy
    <3> QED BY <1>5, <2>1, <3>2, <3>3, <3>4 DEF Record, Typed, TypeOK
  <2> QED BY <2>2, <2>3, LocksKept
<1> QED BY <1>1, <1>2, <1>3, <1>3a, <1>4, <1>5 DEF ReplaceStep

LEMMA RestoreAccounting ==
  ASSUME Typed, Locks, PageAccounting, NEW a \in Actors, RestoreStep(a)
  PROVE  Locks' /\ PageAccounting'
<1>0. /\ Threads \subseteq Actors
      /\ pc \in [Actors -> {"idle", "scan", "lookup", "delete", "insert", "record",
                            "find", "erase", "finish"}]
      /\ todo \in [Actors -> Seq(PageRequest)] /\ file \in [Actors -> Files]
      /\ cache \in [Slots -> Content]
  BY DEF Actors, Typed, TypeOK
<1>1. ASSUME FindBackupFails(a) \/ EraseFails(a)
      PROVE  Locks' /\ PageAccounting'
  <2>1. Abort(a) /\ UNCHANGED << file, cache, nrpages, stray >>
    BY <1>1 DEF FindBackupFails, EraseFails
  <2>2. Locks'
    BY <1>0, <2>1, LocksKept DEF Abort, Slot
  <2> QED BY <2>1, <2>2 DEF PageAccounting, PagesCounted
<1>2. ASSUME Find(a) \/ EraseNothing(a)
      PROVE  Locks' /\ PageAccounting'
  <2>1. /\ UNCHANGED << cache, nrpages, file, todo, stray >>
        /\ pc' = pc \/ pc' = [pc EXCEPT ![a] = "erase"]
    BY <1>2 DEF Find, EraseNothing
  <2>2. Locks'
    BY <1>0, <2>1, LocksKept DEF Slot
  <2> QED BY <2>1, <2>2 DEF PageAccounting, PagesCounted
<1>3. ASSUME Erase(a)
      PROVE  Locks' /\ PageAccounting'
  <2>1. /\ Slot(a) \in Slots /\ Slot(a)[1] = file[a]
        /\ IsPage(cache[Slot(a)]) /\ ~IsPage("hole") /\ "hole" \in Content
    BY <1>3, WorkFacts, GraftConstants DEF Erase, At, Busy, IsPage, Content
  <2>2. PageAccounting'
    BY <1>3, <2>1, CacheSteps DEF Erase
  <2>3. \A u \in Threads : pc'[u] = "record" =>
          /\ pc[u] = "record" /\ file'[u] = file[u] /\ todo'[u] = todo[u]
          /\ IsPage(cache'[Slot(u)]) => IsPage(cache[Slot(u)])
    <3> SUFFICES ASSUME NEW u \in Threads, pc'[u] = "record"
                 PROVE  /\ pc[u] = "record" /\ file'[u] = file[u] /\ todo'[u] = todo[u]
                        /\ IsPage(cache'[Slot(u)]) => IsPage(cache[Slot(u)])
      OBVIOUS
    <3>1. pc[u] = "record" /\ file'[u] = file[u] /\ todo'[u] = todo[u]
      BY <1>0, <1>3 DEF Erase
    <3>2. Slot(u) \in Slots
      BY <1>0, <3>1, WorkFacts DEF Busy
    <3> QED BY <1>0, <1>3, <2>1, <3>1, <3>2 DEF Erase
  <2> QED BY <2>2, <2>3, LocksKept
<1>4. ASSUME Finish(a)
      PROVE  Locks' /\ PageAccounting'
  <2>1. \A u \in Threads : pc'[u] = "record" =>
          pc[u] = "record" /\ file'[u] = file[u] /\ todo'[u] = todo[u]
    BY <1>0, <1>4 DEF Finish, Advance
  <2>2. Locks'
    BY <1>4, <2>1, LocksKept DEF Finish
  <2> QED BY <1>4, <2>2 DEF Finish, PageAccounting, PagesCounted
<1> QED BY <1>1, <1>2, <1>3, <1>4 DEF RestoreStep

LEMMA ModuleAccounting ==
  ASSUME Typed, Locks, PageAccounting,
         \/ ModuleInit \/ ModuleExit \/ ExitScan \/ ExitScanPast \/ ExitDone
         \/ \E t \in Threads, b \in Batches : ReceiveReplace(t, b) \/ ReceiveRestore(t, b)
  PROVE  Locks' /\ PageAccounting'
<1>0. /\ Threads \subseteq Actors /\ Rmmod \notin Threads
      /\ pc \in [Actors -> {"idle", "scan", "lookup", "delete", "insert", "record",
                            "find", "erase", "finish"}]
      /\ todo \in [Actors -> Seq(PageRequest)] /\ file \in [Actors -> Files]
  BY GraftConstants DEF Actors, Typed, TypeOK
<1>1. UNCHANGED << cache, nrpages, stray >>
  BY DEF ModuleInit, ModuleExit, ExitScan, ExitScanPast, ExitDone, ReceiveReplace, ReceiveRestore
<1>2. \A u \in Threads : pc'[u] = "record" =>
        pc[u] = "record" /\ file'[u] = file[u] /\ todo'[u] = todo[u]
  <2>1. CASE ModuleInit \/ ModuleExit \/ ExitDone
    BY <1>0, <2>1 DEF ModuleInit, ModuleExit, ExitDone
  <2>2. CASE ExitScan \/ ExitScanPast
    BY <1>0, <2>2 DEF ExitScan, ExitScanPast
  <2>3. CASE \E t \in Threads, b \in Batches : ReceiveReplace(t, b) \/ ReceiveRestore(t, b)
    BY <1>0, <2>3 DEF ReceiveReplace, ReceiveRestore
  <2> QED BY <2>1, <2>2, <2>3
<1> QED BY <1>1, <1>2, LocksKept DEF PageAccounting, PagesCounted

LEMMA KernelAccounting ==
  ASSUME Typed, Locks, PageAccounting, NEW s \in Slots, PageFault(s) \/ Reclaim(s)
  PROVE  Locks' /\ PageAccounting'
<1>0. Threads \subseteq Actors /\ cache \in [Slots -> Content]
  BY DEF Actors, Typed, TypeOK
<1>1. PICK x \in Content :
        /\ cache' = [cache EXCEPT ![s] = x]
        /\ \/ IsPage(x) /\ ~IsPage(cache[s]) /\ nrpages' = [nrpages EXCEPT ![s[1]] = @ + 1]
           \/ ~IsPage(x) /\ IsPage(cache[s]) /\ nrpages' = [nrpages EXCEPT ![s[1]] = @ - 1]
  <2>1. CASE PageFault(s)
    BY <2>1 DEF PageFault, Content, IsPage
  <2>2. CASE Reclaim(s)
    <3>1. PICK x \in {"hole", "shadow"} : cache' = [cache EXCEPT ![s] = x]
      BY <2>2 DEF Reclaim
    <3>2. ~IsPage(x) /\ x \in Content
      BY <3>1, GraftConstants DEF IsPage, Content
    <3> QED BY <2>2, <3>1, <3>2 DEF Reclaim, IsPage
  <2> QED BY <2>1, <2>2
<1>2. PageAccounting'
  <2>1. stray' = stray
    BY DEF PageFault, Reclaim
  <2> QED BY <1>1, <2>1, CacheSteps
<1>3. UNCHANGED << pc, file, todo >> /\ \A u \in Threads : pc[u] = "record" => file[u] # s[1]
  BY DEF PageFault, Reclaim, XaLocked
<1>4. \A u \in Threads : pc[u] = "record" => Slot(u) # s /\ Slot(u) \in Slots
  BY <1>0, <1>3, WorkFacts DEF Busy
<1>5. Locks'
  BY <1>0, <1>1, <1>3, <1>4, LocksKept
<1> QED BY <1>2, <1>5

\* mapping->nrpages counts the cached pages of its file, for any number of
\* senders, until delete_from_page_cache is given a page that is no longer where it
\* says: what add, delete, restore, page faults and reclaim do to it agrees with
\* what they do to the XArray, because each does both under xas_lock and
\* add_page_to_cache looks at the slot again under that lock.
THEOREM NrpagesCorrect == Spec => []PageAccounting
<1>1. Init => Typed /\ Locks /\ PageAccounting
  BY InitTyped, InitAccounting
<1>2. Typed /\ Locks /\ PageAccounting /\ [Next]_vars => (Typed /\ Locks /\ PageAccounting)'
  <2> SUFFICES ASSUME Typed, Locks, PageAccounting, [Next]_vars
               PROVE  Typed' /\ Locks' /\ PageAccounting'
    OBVIOUS
  <2>1. Typed'
    BY NextTyped
  <2>2. CASE UNCHANGED vars
    BY <2>1, <2>2 DEF vars, Locks, PageAccounting, PagesCounted, Slot
  <2> QED BY <2>1, <2>2, ReplaceAccounting, RestoreAccounting, ModuleAccounting,
             KernelAccounting DEF Next
<1> QED BY <1>1, <1>2, PTL DEF Spec

-----------------------------------------------------------------------------
(* References and owners of the kernel pages: get_page and put_page balance,  *)
(* page->mapping and page->index of a bare page are reset and, for one sender, *)
(* name the place of a grafted page.                                           *)


\* What RefsExact counts: the slots page k sits in, the actors that hold it.
CachedAt(k) == { s \in Slots : cache[s] = k }
Holders(k)  == { a \in Actors : HoldsRef(a, k) }
Counted(k)  == Cardinality(CachedAt(k)) + Cardinality(Holders(k))

One(b) == IF b THEN 1 ELSE 0
Same(x, y) == IF x = y THEN 1 ELSE 0

-----------------------------------------------------------------------------
(* How the two counts follow a change of one slot or one actor.            *)

\* A set that changes in one element only changes its size accordingly.
LEMMA OneElement ==
  ASSUME NEW S, NEW T, NEW x, IsFiniteSet(S), T \ {x} = S \ {x}
  PROVE  /\ Cardinality(S) \in Nat /\ Cardinality(T) \in Nat
         /\ Cardinality(T) = Cardinality(S) + One(x \in T) - One(x \in S)
<1>1. IsFiniteSet(S \ {x}) /\ Cardinality(S \ {x}) \in Nat
  <2>1. IsFiniteSet(S \ {x})
    BY FS_Subset
  <2> QED BY <2>1, FS_CardinalityType
<1>2. ASSUME NEW U, U \ {x} = S \ {x}
      PROVE  Cardinality(U) = Cardinality(S \ {x}) + One(x \in U) /\ Cardinality(U) \in Nat
  <2>1. CASE x \in U
    <3>1. U = (S \ {x}) \cup {x} /\ x \notin S \ {x}
      BY <1>2, <2>1
    <3>2. Cardinality(U) = Cardinality(S \ {x}) + 1
      BY <1>1, <3>1, FS_AddElement
    <3> QED BY <1>1, <2>1, <3>2 DEF One, Same
  <2>2. CASE x \notin U
    <3>1. U = S \ {x}
      BY <1>2, <2>2
    <3> QED BY <1>1, <2>2, <3>1 DEF One, Same
  <2> QED BY <2>1, <2>2
<1>3. /\ Cardinality(S) = Cardinality(S \ {x}) + One(x \in S) /\ Cardinality(S) \in Nat
      /\ Cardinality(T) = Cardinality(S \ {x}) + One(x \in T) /\ Cardinality(T) \in Nat
  BY <1>2
<1>4. One(x \in S) \in {0, 1} /\ One(x \in T) \in {0, 1}
  BY DEF One, Same
<1> QED BY <1>1, <1>3, <1>4

LEMMA ActorsFinite == IsFiniteSet(Actors)
BY GraftConstants, FS_AddElement DEF Actors

LEMMA CountedNat ==
  ASSUME NEW k
  PROVE  /\ IsFiniteSet(CachedAt(k)) /\ Cardinality(CachedAt(k)) \in Nat
         /\ IsFiniteSet(Holders(k)) /\ Cardinality(Holders(k)) \in Nat
         /\ Counted(k) \in Nat /\ Counted(k)' \in Nat
<1>1. ASSUME NEW S, S \subseteq Slots \/ S \subseteq Actors
      PROVE  IsFiniteSet(S) /\ Cardinality(S) \in Nat
  <2>1. IsFiniteSet(S)
    BY <1>1, ActorsFinite, GraftConstants, FS_Subset
  <2> QED BY <2>1, FS_CardinalityType
<1>2. /\ CachedAt(k) \subseteq Slots /\ Holders(k) \subseteq Actors
      /\ CachedAt(k)' \subseteq Slots /\ Holders(k)' \subseteq Actors
  BY DEF CachedAt, Holders
<1> QED BY <1>1, <1>2 DEF Counted

LEMMA CachedChange ==
  ASSUME NEW s \in Slots, NEW k, \A r \in Slots \ {s} : cache'[r] = cache[r]
  PROVE  Cardinality(CachedAt(k)')
           = Cardinality(CachedAt(k)) + Same(cache'[s], k) - Same(cache[s], k)
<1>1. CachedAt(k)' \ {s} = CachedAt(k) \ {s}
  BY DEF CachedAt
<1>2. (s \in CachedAt(k)' <=> cache'[s] = k) /\ (s \in CachedAt(k) <=> cache[s] = k)
  BY DEF CachedAt
<1>3. Cardinality(CachedAt(k)')
        = Cardinality(CachedAt(k)) + One(s \in CachedAt(k)') - One(s \in CachedAt(k))
  BY <1>1, CountedNat, OneElement
<1> QED BY <1>2, <1>3 DEF One, Same

LEMMA HoldersChange ==
  ASSUME NEW a \in Actors, NEW k,
         \A u \in Actors \ {a} : HoldsRef(u, k)' <=> HoldsRef(u, k)
  PROVE  Cardinality(Holders(k)')
           = Cardinality(Holders(k)) + One(HoldsRef(a, k)') - One(HoldsRef(a, k))
<1>1. Holders(k)' \ {a} = Holders(k) \ {a}
  BY DEF Holders
<1>2. (a \in Holders(k)' <=> HoldsRef(a, k)') /\ (a \in Holders(k) <=> HoldsRef(a, k))
  BY DEF Holders
<1>3. Cardinality(Holders(k)')
        = Cardinality(Holders(k)) + One(a \in Holders(k)') - One(a \in Holders(k))
  BY <1>1, CountedNat, OneElement
<1> QED BY <1>2, <1>3 DEF One, Same

LEMMA AddRefAt ==
  ASSUME refs \in [KernelPages -> Int], NEW c, NEW n \in Int, NEW k \in KernelPages
  PROVE  AddRef(c, n)[k] = IF c = k THEN refs[k] + n ELSE refs[k]
BY DEF AddRef

-----------------------------------------------------------------------------
(* Every step but a failing xas_store(NULL) takes as many references as it *)
(* accounts for.                                                           *)

\* The unload runs alone, and handlers run only while the module is loaded.
Alone ==
  /\ module # "leaving" => pc[Rmmod] = "idle"
  /\ module # "loaded" => \A t \in Threads : pc[t] = "idle"

Balance(k) == refs[k] - Counted(k)

\* A step of actor a that changes no slot but s.
LEMMA BalanceStep ==
  ASSUME Typed, NEW k \in KernelPages, NEW a \in Actors, NEW s \in Slots, NEW d \in Int,
         \A r \in Slots \ {s} : cache'[r] = cache[r],
         \A u \in Actors \ {a} : HoldsRef(u, k)' <=> HoldsRef(u, k),
         refs'[k] = refs[k] + d
  PROVE  /\ Balance(k) \in Int
         /\ Balance(k)' = Balance(k) + d - (Same(cache'[s], k) - Same(cache[s], k))
                            - (One(HoldsRef(a, k)') - One(HoldsRef(a, k)))
<1>1. refs[k] \in Int
  BY DEF Typed, TypeOK
<1>2. Cardinality(CachedAt(k)')
        = Cardinality(CachedAt(k)) + Same(cache'[s], k) - Same(cache[s], k)
  BY CachedChange
<1>3. Cardinality(Holders(k)')
        = Cardinality(Holders(k)) + One(HoldsRef(a, k)') - One(HoldsRef(a, k))
  BY HoldersChange
<1>4. Cardinality(CachedAt(k)) \in Nat /\ Cardinality(Holders(k)) \in Nat
  BY CountedNat
<1>5. /\ Same(cache'[s], k) \in Int /\ Same(cache[s], k) \in Int
      /\ One(HoldsRef(a, k)') \in Int /\ One(HoldsRef(a, k)) \in Int
  BY DEF One, Same
<1>6. Counted(k)' = Cardinality(CachedAt(k)') + Cardinality(Holders(k)')
  BY DEF Counted
<1>7. Counted(k) = Cardinality(CachedAt(k)) + Cardinality(Holders(k))
  BY DEF Counted
<1>8. Balance(k)' = refs'[k] - Counted(k)' /\ Balance(k) = refs[k] - Counted(k)
  BY DEF Balance
<1> QED BY <1>1, <1>2, <1>3, <1>4, <1>5, <1>6, <1>7, <1>8

\* The other actors keep what they hold when their stage and page do not change.
LEMMA OthersHold ==
  ASSUME NEW a \in Actors, NEW k,
         \A u \in Actors \ {a} : pc'[u] = pc[u] /\ todo'[u] = todo[u] /\ held'[u] = held[u]
  PROVE  \A u \in Actors \ {a} : HoldsRef(u, k)' <=> HoldsRef(u, k)
BY DEF HoldsRef, Page

\* A step that leaves the page caches alone.
LEMMA BalanceSameCache ==
  ASSUME Typed, NEW k \in KernelPages, NEW a \in Actors, NEW d \in Int, cache' = cache,
         \A u \in Actors \ {a} : HoldsRef(u, k)' <=> HoldsRef(u, k),
         refs'[k] = refs[k] + d
  PROVE  /\ Balance(k) \in Int
         /\ Balance(k)' = Balance(k) + d - (One(HoldsRef(a, k)') - One(HoldsRef(a, k)))
<1>1. refs[k] \in Int
  BY DEF Typed, TypeOK
<1>2. CachedAt(k)' = CachedAt(k)
  BY DEF CachedAt
<1>3. Cardinality(Holders(k)')
        = Cardinality(Holders(k)) + One(HoldsRef(a, k)') - One(HoldsRef(a, k))
  BY HoldersChange
<1>4. Cardinality(CachedAt(k)) \in Nat /\ Cardinality(Holders(k)) \in Nat
  BY CountedNat
<1>5. One(HoldsRef(a, k)') \in Int /\ One(HoldsRef(a, k)) \in Int
  BY DEF One, Same
<1>6. Counted(k)' = Cardinality(CachedAt(k)) + Cardinality(Holders(k)')
  BY <1>2 DEF Counted
<1>7. Counted(k) = Cardinality(CachedAt(k)) + Cardinality(Holders(k))
  BY DEF Counted
<1>8. Balance(k)' = refs'[k] - Counted(k)' /\ Balance(k) = refs[k] - Counted(k)
  BY DEF Balance
<1> QED BY <1>1, <1>3, <1>4, <1>5, <1>6, <1>7, <1>8

\* A kernel page in hands is neither lost by a restore nor by a stray deletion.
LEMMA LoseKeeps ==
  ASSUME NEW t \in Actors, NEW s, NEW mark, mark \notin KernelPages,
         NEW k \in KernelPages, NEW u \in Actors
  PROVE  LosePage(t, s, mark)[u] = k <=> held[u] = k
<1>1. k # "original" /\ k # mark
  BY GraftConstants
<1> QED BY <1>1 DEF LosePage

LEMMA ReplaceBalance ==
  ASSUME Typed, Locks, ~stray', NEW t \in Threads, ReplaceStep(t), NEW k \in KernelPages
  PROVE  Balance(k)' = Balance(k)
<1>0. /\ t \in Actors /\ t # Rmmod
      /\ refs \in [KernelPages -> Int] /\ cache \in [Slots -> Content]
      /\ pc \in [Actors -> {"idle", "scan", "lookup", "delete", "insert", "record",
                            "find", "erase", "finish"}]
      /\ todo \in [Actors -> Seq(PageRequest)]
      /\ held \in [Actors -> Holdings]
  BY GraftConstants DEF Actors, Typed, TypeOK
<1>1. CASE LookupFails(t) \/ InsertConflict(t)
  <2>1. /\ pc[t] \in {"lookup", "insert"} /\ Abort(t) /\ UNCHANGED << cache, refs, held >>
    BY <1>1 DEF LookupFails, InsertConflict, At
  <2>2. \A u \in Actors \ {t} : pc'[u] = pc[u] /\ todo'[u] = todo[u] /\ held'[u] = held[u]
    BY <1>0, <2>1 DEF Abort
  <2>3. pc'[t] = "idle"
    BY <1>0, <2>1 DEF Abort
  <2>4. ~HoldsRef(t, k) /\ ~HoldsRef(t, k)'
    BY <2>1, <2>3 DEF HoldsRef
  <2>5. refs'[k] = refs[k] + 0
    BY <1>0, <2>1
  <2>6. /\ Balance(k) \in Int
        /\ Balance(k)' = Balance(k) + 0 - (One(HoldsRef(t, k)') - One(HoldsRef(t, k)))
    BY <1>0, <2>1, <2>2, <2>5, OthersHold, BalanceSameCache
  <2> QED BY <2>4, <2>6 DEF One, Same
<1>2. CASE Lookup(t)
  <2>1. pc[t] = "lookup" /\ cache' = cache /\ UNCHANGED todo
    BY <1>2 DEF Lookup, At
  <2>2. CASE /\ IsPage(cache[Slot(t)])
             /\ refs' = AddRef(cache[Slot(t)], 1)
             /\ held' = [held EXCEPT ![t] = cache[Slot(t)]]
             /\ pc' = [pc EXCEPT ![t] = "delete"]
    <3> DEFINE c == cache[Slot(t)]
    <3>1. pc'[t] = "delete" /\ held'[t] = c
      BY <1>0, <2>2
    <3>2. ~HoldsRef(t, k) /\ (HoldsRef(t, k)' <=> c = k)
      BY <2>1, <3>1 DEF HoldsRef
    <3>3. refs'[k] = refs[k] + Same(c, k) /\ Same(c, k) \in Int
      BY <1>0, <2>2, AddRefAt DEF One, Same
    <3>4. \A u \in Actors \ {t} : pc'[u] = pc[u] /\ todo'[u] = todo[u] /\ held'[u] = held[u]
      BY <1>0, <2>1, <2>2
    <3> HIDE DEF c
    <3>5. /\ Balance(k) \in Int
          /\ Balance(k)' = Balance(k) + Same(c, k) - (One(HoldsRef(t, k)') - One(HoldsRef(t, k)))
      BY <1>0, <2>1, <3>3, <3>4, OthersHold, BalanceSameCache
    <3> QED BY <3>2, <3>5 DEF One, Same
  <2>3. CASE UNCHANGED << refs, held >> /\ pc' = [pc EXCEPT ![t] = "insert"]
    <3>1. ~HoldsRef(t, k) /\ ~HoldsRef(t, k)'
      BY <1>0, <2>1, <2>3 DEF HoldsRef
    <3>2. \A u \in Actors \ {t} : pc'[u] = pc[u] /\ todo'[u] = todo[u] /\ held'[u] = held[u]
      BY <1>0, <2>1, <2>3
    <3>3. refs'[k] = refs[k] + 0
      BY <1>0, <2>3
    <3>4. /\ Balance(k) \in Int
          /\ Balance(k)' = Balance(k) + 0 - (One(HoldsRef(t, k)') - One(HoldsRef(t, k)))
      BY <1>0, <2>1, <3>2, <3>3, OthersHold, BalanceSameCache
    <3> QED BY <3>1, <3>4 DEF One, Same
  <2> QED BY <1>2, <2>2, <2>3 DEF Lookup
<1>3. CASE DeleteExisting(t)
  <2> DEFINE s == Place(t)
  <2>1. pc[t] = "delete" /\ s \in Slots /\ UNCHANGED todo
    BY <1>0, <1>3, WorkFacts DEF DeleteExisting, At, Busy, Place, Typed, TypeOK
  <2>2. /\ cache[s] = held[t]
        /\ cache' = [cache EXCEPT ![s] = "hole"]
        /\ refs' = AddRef(held[t], -2)
        /\ held' = [LosePage(t, s, "stale") EXCEPT ![t] = "none"]
        /\ pc' = [pc EXCEPT ![t] = "insert"]
    BY <1>3 DEF DeleteExisting
  <2> HIDE DEF s
  <2>3. (HoldsRef(t, k) <=> held[t] = k) /\ ~HoldsRef(t, k)'
    BY <1>0, <2>1, <2>2 DEF HoldsRef
  <2>4. refs'[k] = refs[k] + (IF held[t] = k THEN -2 ELSE 0)
    BY <1>0, <2>2, AddRefAt
  <2>5. \A u \in Actors \ {t} : HoldsRef(u, k)' <=> HoldsRef(u, k)
    <3> SUFFICES ASSUME NEW u \in Actors \ {t}
                 PROVE  HoldsRef(u, k)' <=> HoldsRef(u, k)
      OBVIOUS
    <3>1. pc'[u] = pc[u] /\ todo'[u] = todo[u]
      BY <1>0, <2>1, <2>2
    <3>2. held'[u] = LosePage(t, s, "stale")[u]
      BY <1>0, <2>2 DEF LosePage
    <3>3. held'[u] = k <=> held[u] = k
      <4>1. "stale" \notin KernelPages
        BY GraftConstants
      <4> QED BY <1>0, <3>2, <4>1, LoseKeeps
    <3> QED BY <3>1, <3>3 DEF HoldsRef, Page
  <2>6. /\ cache'[s] = "hole" /\ "hole" # k
        /\ \A r \in Slots \ {s} : cache'[r] = cache[r]
    BY <1>0, <2>1, <2>2, GraftConstants
  <2>7. /\ Balance(k) \in Int
        /\ Balance(k)' = Balance(k) + (IF held[t] = k THEN -2 ELSE 0)
                           - (Same(cache'[s], k) - Same(cache[s], k))
                           - (One(HoldsRef(t, k)') - One(HoldsRef(t, k)))
    BY SMTT(60), <1>0, <2>1, <2>4, <2>5, <2>6, BalanceStep
  <2> QED BY <2>2, <2>3, <2>6, <2>7 DEF One, Same
<1>3a. CASE DeleteUnmapped(t)
  BY <1>3a DEF DeleteUnmapped, Balance, Counted, CachedAt, Holders, HoldsRef, Page
<1>4. CASE Insert(t)
  <2>1. /\ pc[t] = "insert" /\ pc' = [pc EXCEPT ![t] = "record"]
        /\ UNCHANGED << cache, held, todo >> /\ refs' = AddRef(Page(t), 1)
    BY <1>4 DEF Insert, At
  <2>2. ~HoldsRef(t, k) /\ (HoldsRef(t, k)' <=> Page(t) = k)
    BY <1>0, <2>1 DEF HoldsRef, Page
  <2>3. refs'[k] = refs[k] + Same(Page(t), k) /\ Same(Page(t), k) \in Int
    BY <1>0, <2>1, AddRefAt DEF One, Same
  <2>4. \A u \in Actors \ {t} : pc'[u] = pc[u] /\ todo'[u] = todo[u] /\ held'[u] = held[u]
    BY <1>0, <2>1
  <2>5. /\ Balance(k) \in Int
        /\ Balance(k)' = Balance(k) + Same(Page(t), k)
                           - (One(HoldsRef(t, k)') - One(HoldsRef(t, k)))
    BY <1>0, <2>1, <2>3, <2>4, OthersHold, BalanceSameCache
  <2> QED BY <2>2, <2>5 DEF One, Same
<1>5. CASE Record(t)
  <2>1. /\ pc[t] = "record" /\ Slot(t) \in Slots /\ ~IsPage(cache[Slot(t)])
        /\ cache' = [cache EXCEPT ![Slot(t)] = Page(t)] /\ UNCHANGED << refs, held >>
    BY <1>0, <1>5, WorkFacts DEF Record, At, Busy, Locks
  <2>2. /\ cache[Slot(t)] # k /\ cache'[Slot(t)] = Page(t)
        /\ \A r \in Slots \ {Slot(t)} : cache'[r] = cache[r]
    BY <1>0, <2>1 DEF IsPage
  <2>3. /\ pc'[t] \in {"idle", "lookup"}
        /\ \A u \in Actors \ {t} : pc'[u] = pc[u] /\ todo'[u] = todo[u] /\ held'[u] = held[u]
    BY <1>0, <1>5, <2>1 DEF Record, Advance
  <2>4. ~HoldsRef(t, k)' /\ (HoldsRef(t, k) <=> Page(t) = k)
    BY <2>1, <2>3 DEF HoldsRef
  <2>5. refs'[k] = refs[k] + 0
    BY <1>0, <2>1
  <2>6. /\ Balance(k) \in Int
        /\ Balance(k)' = Balance(k) + 0 - (Same(cache'[Slot(t)], k) - Same(cache[Slot(t)], k))
                           - (One(HoldsRef(t, k)') - One(HoldsRef(t, k)))
    <3>1. \A u \in Actors \ {t} : HoldsRef(u, k)' <=> HoldsRef(u, k)
      BY <1>0, <2>3, OthersHold
    <3> QED BY <1>0, <2>1, <2>2, <2>5, <3>1, BalanceStep
  <2> QED BY <2>2, <2>4, <2>6 DEF One, Same
<1>6. CASE RecordFails(t)
  <2>1. /\ pc[t] = "record" /\ Abort(t) /\ UNCHANGED << cache, held >>
        /\ refs' = AddRef(Page(t), -1)
    BY <1>6 DEF RecordFails, At
  <2>2. /\ pc'[t] = "idle"
        /\ \A u \in Actors \ {t} : pc'[u] = pc[u] /\ todo'[u] = todo[u] /\ held'[u] = held[u]
    BY <1>0, <2>1 DEF Abort
  <2>3. ~HoldsRef(t, k)' /\ (HoldsRef(t, k) <=> Page(t) = k)
    BY <2>1, <2>2 DEF HoldsRef
  <2>4. refs'[k] = refs[k] + (IF Page(t) = k THEN -1 ELSE 0)
    BY <1>0, <2>1, AddRefAt
  <2>5. /\ Balance(k) \in Int
        /\ Balance(k)' = Balance(k) + (IF Page(t) = k THEN -1 ELSE 0)
                           - (One(HoldsRef(t, k)') - One(HoldsRef(t, k)))
    BY <1>0, <2>1, <2>2, <2>4, OthersHold, BalanceSameCache
  <2> QED BY <2>3, <2>5 DEF One, Same
<1> QED BY <1>1, <1>2, <1>3, <1>3a, <1>4, <1>5, <1>6 DEF ReplaceStep

LEMMA RestoreBalance ==
  ASSUME Typed, NEW a \in Actors, RestoreStep(a), NEW k \in KernelPages
  PROVE  /\ Balance(k) \in Int /\ Balance(k)' \in Int
         /\ Balance(k)' >= Balance(k)
         /\ LeakBound = 0 => Balance(k)' = Balance(k)
<1>0. /\ refs \in [KernelPages -> Int] /\ cache \in [Slots -> Content]
      /\ pc \in [Actors -> {"idle", "scan", "lookup", "delete", "insert", "record",
                            "find", "erase", "finish"}]
      /\ todo \in [Actors -> Seq(PageRequest)]
      /\ held \in [Actors -> Holdings]
  BY DEF Typed, TypeOK
<1>1. CASE FindBackupFails(a)
  <2>1. pc[a] = "find" /\ Abort(a) /\ UNCHANGED << cache, refs, held >>
    BY <1>1 DEF FindBackupFails, At
  <2>2. /\ pc'[a] \in {"idle", "scan"}
        /\ \A u \in Actors \ {a} : pc'[u] = pc[u] /\ todo'[u] = todo[u] /\ held'[u] = held[u]
    BY <1>0, <2>1 DEF Abort
  <2>3. ~HoldsRef(a, k) /\ ~HoldsRef(a, k)' /\ refs'[k] = refs[k] + 0
    BY <1>0, <2>1, <2>2 DEF HoldsRef
  <2>4. /\ Balance(k) \in Int
        /\ Balance(k)' = Balance(k) + 0 - (One(HoldsRef(a, k)') - One(HoldsRef(a, k)))
    BY <1>0, <2>1, <2>2, <2>3, OthersHold, BalanceSameCache
  <2> QED BY <2>3, <2>4 DEF One, Same
<1>2. CASE Find(a) \/ EraseNothing(a)
  <2>1. /\ pc[a] \in {"find", "erase"} /\ UNCHANGED << cache, refs, held, todo >>
        /\ pc' = pc \/ pc' = [pc EXCEPT ![a] = "erase"]
    BY <1>2 DEF Find, EraseNothing, At
  <2>2. /\ pc'[a] \in {"find", "erase"}
        /\ \A u \in Actors \ {a} : pc'[u] = pc[u] /\ todo'[u] = todo[u] /\ held'[u] = held[u]
    BY <1>0, <2>1
  <2>3. ~HoldsRef(a, k) /\ ~HoldsRef(a, k)' /\ refs'[k] = refs[k] + 0
    BY <1>0, <2>1, <2>2 DEF HoldsRef
  <2>4. /\ Balance(k) \in Int
        /\ Balance(k)' = Balance(k) + 0 - (One(HoldsRef(a, k)') - One(HoldsRef(a, k)))
    BY <1>0, <2>1, <2>2, <2>3, OthersHold, BalanceSameCache
  <2> QED BY <2>3, <2>4 DEF One, Same
<1>3. CASE Erase(a)
  <2> DEFINE c == cache[Slot(a)]
  <2>1. /\ pc[a] = "erase" /\ Slot(a) \in Slots /\ UNCHANGED << todo, refs >>
        /\ cache' = [cache EXCEPT ![Slot(a)] = "hole"]
        /\ pc' = [pc EXCEPT ![a] = "finish"]
    BY <1>3, WorkFacts DEF Erase, At, Busy
  <2>1a. held' = [LosePage(a, Slot(a), a) EXCEPT ![a] = c]
    BY <1>3 DEF Erase
  <2>1b. /\ held'[a] = c
         /\ \A u \in Actors \ {a} : held'[u] = LosePage(a, Slot(a), a)[u]
    BY <2>1a DEF LosePage
  <2>2. pc'[a] = "finish" /\ held'[a] = c
    BY <1>0, <2>1, <2>1b
  <2>3. \A u \in Actors \ {a} : HoldsRef(u, k)' <=> HoldsRef(u, k)
    <3> SUFFICES ASSUME NEW u \in Actors \ {a}
                 PROVE  HoldsRef(u, k)' <=> HoldsRef(u, k)
      OBVIOUS
    <3>1. pc'[u] = pc[u] /\ todo'[u] = todo[u]
      BY <1>0, <2>1
    <3>2. held'[u] = LosePage(a, Slot(a), a)[u]
      BY <2>1b
    <3>3. LosePage(a, Slot(a), a)[u] = k <=> held[u] = k
      <4>1. a \notin KernelPages
        BY GraftConstants DEF Content
      <4> QED BY <4>1, LoseKeeps
    <3>4. held'[u] = k <=> held[u] = k
      BY <3>2, <3>3
    <3> QED BY <3>1, <3>4 DEF HoldsRef, Page
  <2>4. ~HoldsRef(a, k) /\ (HoldsRef(a, k)' <=> c = k)
    BY <2>1, <2>2 DEF HoldsRef
  <2>5. /\ refs'[k] = refs[k] + 0
        /\ cache'[Slot(a)] = "hole" /\ "hole" # k
        /\ \A r \in Slots \ {Slot(a)} : cache'[r] = cache[r]
    BY <1>0, <2>1, GraftConstants
  <2> HIDE DEF c
  <2>6. /\ Balance(k) \in Int
        /\ Balance(k)' = Balance(k) + 0 - (Same(cache'[Slot(a)], k) - Same(cache[Slot(a)], k))
                           - (One(HoldsRef(a, k)') - One(HoldsRef(a, k)))
    <3>1. Slot(a) \in Slots
      BY <2>1
    <3> QED BY <2>3, <2>5, <3>1, BalanceStep
  <2> QED BY <2>4, <2>5, <2>6 DEF One, Same, c
<1>4. CASE EraseFails(a)
  <2> DEFINE c == cache[Slot(a)]
  <2>1. /\ pc[a] = "erase" /\ Abort(a) /\ UNCHANGED << cache, held >>
        /\ refs' = AddRef(c, 1) /\ LeakBound > 0
    BY <1>4 DEF EraseFails, At
  <2>2. /\ pc'[a] \in {"idle", "scan"}
        /\ \A u \in Actors \ {a} : pc'[u] = pc[u] /\ todo'[u] = todo[u] /\ held'[u] = held[u]
    BY <1>0, <2>1 DEF Abort
  <2>3. ~HoldsRef(a, k) /\ ~HoldsRef(a, k)'
    BY <2>1, <2>2 DEF HoldsRef
  <2>4. refs'[k] = refs[k] + Same(c, k) /\ Same(c, k) \in {0, 1}
    BY <1>0, <2>1, AddRefAt DEF One, Same
  <2> HIDE DEF c
  <2>5. /\ Balance(k) \in Int
        /\ Balance(k)' = Balance(k) + Same(c, k) - (One(HoldsRef(a, k)') - One(HoldsRef(a, k)))
    BY <2>1, <2>2, <2>4, OthersHold, BalanceSameCache
  <2> QED BY <2>1, <2>3, <2>4, <2>5, GraftConstants DEF One, Same
<1>5. CASE Finish(a)
  <2>1. pc[a] = "finish" /\ cache' = cache /\ refs' = AddRef(held[a], -1)
    BY <1>5 DEF Finish, At
  <2>2. pc'[a] \in {"idle", "scan", "find"}
    BY <1>0, <1>5 DEF Finish, Advance
  <2>2a. \A u \in Actors \ {a} : HoldsRef(u, k)' <=> HoldsRef(u, k)
    <3> SUFFICES ASSUME NEW u \in Actors \ {a}
                 PROVE  HoldsRef(u, k)' <=> HoldsRef(u, k)
      OBVIOUS
    <3>1. pc'[u] = pc[u] /\ todo'[u] = todo[u]
      BY <1>0, <1>5 DEF Finish, Advance
    <3>2. k # a /\ k # "orphan"
      BY GraftConstants DEF Content
    <3>3. held'[u] = k <=> held[u] = k
      BY <1>5, <3>2 DEF Finish
    <3> QED BY <3>1, <3>3 DEF HoldsRef, Page
  <2>3. ~HoldsRef(a, k)' /\ (HoldsRef(a, k) <=> held[a] = k)
    BY <2>1, <2>2 DEF HoldsRef
  <2>4. refs'[k] = refs[k] + (IF held[a] = k THEN -1 ELSE 0)
    BY <1>0, <2>1, AddRefAt
  <2>5. /\ Balance(k) \in Int
        /\ Balance(k)' = Balance(k) + (IF held[a] = k THEN -1 ELSE 0)
                           - (One(HoldsRef(a, k)') - One(HoldsRef(a, k)))
    BY <2>1, <2>2a, <2>4, BalanceSameCache
  <2> QED BY <2>3, <2>5 DEF One, Same
<1> QED BY <1>1, <1>2, <1>3, <1>4, <1>5 DEF RestoreStep

LEMMA OtherBalance ==
  ASSUME Typed, Alone, NEW k \in KernelPages,
         \/ ModuleInit \/ ModuleExit \/ ExitScan \/ ExitScanPast \/ ExitDone
         \/ \E t \in Threads, b \in Batches : ReceiveReplace(t, b) \/ ReceiveRestore(t, b)
         \/ \E s \in Slots : PageFault(s) \/ Reclaim(s)
         \/ UNCHANGED vars
  PROVE  Balance(k)' = Balance(k)
<1>0. /\ cache \in [Slots -> Content]
      /\ pc \in [Actors -> {"idle", "scan", "lookup", "delete", "insert", "record",
                            "find", "erase", "finish"}]
      /\ Rmmod \in Actors /\ Threads \subseteq Actors
  BY DEF Typed, TypeOK, Actors
<1>1. refs' = refs
  BY DEF ModuleInit, ModuleExit, ExitScan, ExitScanPast, ExitDone, ReceiveReplace,
     ReceiveRestore, PageFault, Reclaim, vars
<1>2. CachedAt(k)' = CachedAt(k)
  <2>1. CASE cache' = cache
    BY <2>1 DEF CachedAt
  <2>2. CASE \E s \in Slots : PageFault(s) \/ Reclaim(s)
    <3>1. PICK s \in Slots : PageFault(s) \/ Reclaim(s)
      BY <2>2
    <3>2. PICK c \in {"original", "hole", "shadow"} : cache' = [cache EXCEPT ![s] = c]
      BY <3>1 DEF PageFault, Reclaim
    <3>3. cache[s] # k /\ c # k
      BY <3>1, GraftConstants DEF PageFault, Reclaim, IsPage
    <3> QED BY <1>0, <3>2, <3>3 DEF CachedAt
  <2> QED BY <2>1, <2>2 DEF ModuleInit, ModuleExit, ExitScan, ExitScanPast, ExitDone,
             ReceiveReplace, ReceiveRestore, vars
<1>3. Holders(k)' = Holders(k)
  <2>1. ASSUME NEW a \in Actors PROVE HoldsRef(a, k)' <=> HoldsRef(a, k)
    <3>1. CASE UNCHANGED << pc, todo, held >>
      BY <3>1 DEF HoldsRef, Page
    <3>2. CASE ModuleExit \/ ExitDone
      <4>1. /\ held' = held /\ todo' = todo /\ pc[Rmmod] \in {"idle", "scan"}
            /\ \E step \in {"idle", "scan"} : pc' = [pc EXCEPT ![Rmmod] = step]
        BY <3>2 DEF ModuleExit, ExitDone, At, InState, Alone
      <4> QED BY <1>0, <4>1 DEF HoldsRef, Page
    <3>3. CASE ExitScan
      <4>1. /\ held' = held /\ pc[Rmmod] = "scan"
            /\ pc' = [pc EXCEPT ![Rmmod] = "find"] \/ pc' = pc
            /\ \A u \in Actors \ {Rmmod} : todo'[u] = todo[u]
        BY <3>3 DEF ExitScan, At, Typed, TypeOK
      <4> QED BY <1>0, <4>1 DEF HoldsRef, Page
    <3>4. CASE \E t \in Threads, b \in Batches : ReceiveReplace(t, b) \/ ReceiveRestore(t, b)
      <4>1. PICK t \in Threads, step \in {"lookup", "find"} :
              /\ pc[t] = "idle" /\ pc' = [pc EXCEPT ![t] = step] /\ held' = held
              /\ \A u \in Actors \ {t} : todo'[u] = todo[u]
        BY <3>4 DEF ReceiveReplace, ReceiveRestore, At, Typed, TypeOK
      <4> QED BY <1>0, <4>1 DEF HoldsRef, Page
    <3> QED BY <3>1, <3>2, <3>3, <3>4 DEF ModuleInit, ExitScanPast, PageFault, Reclaim, vars
  <2> QED BY <2>1 DEF Holders
<1> QED BY <1>1, <1>2, <1>3 DEF Balance, Counted

LEMMA InitBalance == Init => \A k \in KernelPages : Balance(k) = 0
<1> SUFFICES ASSUME Init, NEW k \in KernelPages PROVE Balance(k) = 0
  OBVIOUS
<1>1. CachedAt(k) = {} /\ Holders(k) = {}
  BY GraftConstants DEF Init, CachedAt, Holders, HoldsRef
<1>2. Counted(k) = 0
  BY <1>1, FS_EmptySet DEF Counted
<1> QED BY <1>2 DEF Init, Balance

\* The step of the invariants below: no step takes away a reference it does not
\* account for, and only a failing xas_store(NULL) leaves one behind.
LEMMA BalanceNext ==
  ASSUME Typed, Locks, Alone, ~stray', [Next]_vars, NEW k \in KernelPages
  PROVE  /\ Balance(k) \in Int /\ Balance(k)' \in Int
         /\ Balance(k)' >= Balance(k)
         /\ LeakBound = 0 => Balance(k)' = Balance(k)
<1>1. Balance(k) \in Int
  BY CountedNat DEF Balance, Typed, TypeOK
<1>2. CASE \E a \in Actors : RestoreStep(a)
  BY <1>2, RestoreBalance
<1>3. CASE \E t \in Threads : ReplaceStep(t)
  <2>1. Balance(k)' = Balance(k)
    BY <1>3, ReplaceBalance
  <2> QED BY <1>1, <2>1
<1>4. ASSUME ~(\E a \in Actors : RestoreStep(a)), ~(\E t \in Threads : ReplaceStep(t))
      PROVE  Balance(k)' = Balance(k)
  BY <1>4, OtherBalance DEF Next
<1> QED BY <1>1, <1>2, <1>3, <1>4

LEMMA AloneNext == Typed /\ Alone /\ [Next]_vars => Alone'
<1> SUFFICES ASSUME Typed, Alone, [Next]_vars PROVE Alone'
  OBVIOUS
<1>1. /\ Rmmod \in Actors /\ Rmmod \notin Threads /\ Actors = Threads \cup {Rmmod}
      /\ pc \in [Actors -> {"idle", "scan", "lookup", "delete", "insert", "record",
                            "find", "erase", "finish"}]
  BY GraftConstants DEF Typed, TypeOK, Actors
<1>2. CASE UNCHANGED << module, pc >>
  BY <1>2 DEF Alone
<1>3. CASE ModuleExit \/ ExitDone
  <2>1. /\ module' = "leaving" \/ (module' = "out" /\ pc[Rmmod] = "scan")
        /\ module' = "out" => pc'[Rmmod] = "idle"
        /\ \A t \in Threads : pc'[t] = pc[t]
        /\ ModuleExit => \A t \in Threads : pc[t] = "idle"
    BY <1>1, <1>3 DEF ModuleExit, ExitDone, At
  <2>2. \A t \in Threads : pc[t] = "idle"
    BY <1>3, <2>1 DEF Alone, ModuleExit, ExitDone, At
  <2> QED BY <2>1, <2>2 DEF Alone
<1>4. ASSUME NEW a \in Actors, pc[a] # "idle" \/ module = "loaded", a = Rmmod => pc[a] # "idle",
             module' = module, NEW step, pc' = [pc EXCEPT ![a] = step]
      PROVE  Alone'
  <2>1. CASE a = Rmmod
    BY <1>1, <1>4, <2>1 DEF Alone
  <2>2. CASE a \in Threads
    BY <1>1, <1>4, <2>2 DEF Alone
  <2> QED BY <1>1, <2>1, <2>2
<1>5. CASE ModuleInit
  BY <1>1, <1>5 DEF ModuleInit, InState, Alone
<1>6. ASSUME NEW t \in Threads, NEW b \in Batches, ReceiveReplace(t, b) \/ ReceiveRestore(t, b)
      PROVE  Alone'
  <2>1. /\ module = "loaded" /\ module' = module
        /\ \E step : pc' = [pc EXCEPT ![t] = step]
    BY <1>6 DEF ReceiveReplace, ReceiveRestore, InState
  <2> QED BY <1>1, <1>4, <2>1
<1>7. ASSUME NEW t \in Threads, ReplaceStep(t)
      PROVE  Alone'
  <2>1. module' = module /\ pc[t] # "idle"
    BY <1>7 DEF ReplaceStep, LookupFails, Lookup, DeleteExisting, DeleteUnmapped,
       InsertConflict, Insert, Record, RecordFails, At
  <2>2. \/ UNCHANGED pc
        \/ \E step : pc' = [pc EXCEPT ![t] = step]
    BY <1>7 DEF ReplaceStep, LookupFails, Lookup, DeleteExisting, DeleteUnmapped,
       InsertConflict, Insert, Record, RecordFails, Abort, Advance
  <2> QED BY <1>1, <1>2, <1>4, <2>1, <2>2
<1>8. ASSUME NEW a \in Actors, RestoreStep(a)
      PROVE  Alone'
  <2>1. module' = module /\ pc[a] # "idle"
    BY <1>8 DEF RestoreStep, FindBackupFails, Find, EraseNothing, Erase, EraseFails, Finish, At
  <2>2. \/ UNCHANGED pc
        \/ \E step : pc' = [pc EXCEPT ![a] = step]
    BY <1>8 DEF RestoreStep, FindBackupFails, Find, EraseNothing, Erase, EraseFails, Finish,
       Abort, Advance
  <2> QED BY <1>2, <1>4, <2>1, <2>2
<1>9. CASE ExitScan \/ ExitScanPast
  <2>1. /\ module' = module /\ pc[Rmmod] # "idle"
        /\ UNCHANGED pc \/ \E step : pc' = [pc EXCEPT ![Rmmod] = step]
    BY <1>9 DEF ExitScan, ExitScanPast, At
  <2> QED BY <1>1, <1>2, <1>4, <2>1
<1>10. CASE \E s \in Slots : PageFault(s) \/ Reclaim(s)
  BY <1>2, <1>10 DEF PageFault, Reclaim
<1>11. CASE UNCHANGED vars
  BY <1>2, <1>11 DEF vars
<1> QED BY <1>3, <1>5, <1>6, <1>7, <1>8, <1>9, <1>10, <1>11 DEF Next

Safe == Typed /\ Locks /\ PageAccounting /\ Alone

LEMMA InitSafe == Init => Safe
BY InitTyped, InitAccounting DEF Safe, Init, Alone, Actors

LEMMA SafeNext == Safe /\ [Next]_vars => Safe'
<1> SUFFICES ASSUME Safe, [Next]_vars PROVE Safe'
  OBVIOUS
<1>1. Typed /\ Locks /\ PageAccounting /\ Alone
  BY DEF Safe
<1>2. Typed' /\ Alone'
  BY <1>1, NextTyped, AloneNext
<1>3. CASE UNCHANGED vars
  BY <1>1, <1>2, <1>3 DEF Safe, vars, Locks, PageAccounting, PagesCounted, Slot
<1> QED BY <1>1, <1>2, <1>3, ReplaceAccounting, RestoreAccounting, ModuleAccounting,
           KernelAccounting DEF Next, Safe

\* A deletion that has strayed is not undone.
LEMMA StrayStays == [Next]_vars => (stray => stray')
BY DEF Next, vars, ModuleInit, ModuleExit, ExitScan, ExitScanPast, ExitDone, ReceiveReplace,
   ReceiveRestore, ReplaceStep, LookupFails, Lookup, DeleteExisting, DeleteUnmapped,
   InsertConflict, Insert, Record, RecordFails, RestoreStep, FindBackupFails, Find,
   EraseNothing, Erase, EraseFails, Finish, PageFault, Reclaim

LEMMA CountsDefs ==
  /\ RefsCover <=> (~stray => \A k \in KernelPages : refs[k] >= Counted(k))
  /\ RefsExact <=> (~stray => \A k \in KernelPages : refs[k] = Counted(k))
BY DEF RefsCover, RefsExact, Counted, CachedAt, Holders

\* A kernel page in a page cache, or in the hands of a handler between its
\* get_page and its put_page, is never without the references it needs: for any
\* number of senders that replace and restore the same pages at the same time, and
\* whichever of the stores into the XArray fails, until a restore has taken a page
\* away from under delete_from_page_cache, which then puts its reference again.
THEOREM RefsNeverShort == Spec => []RefsCover
<1>1. Init => Safe /\ RefsCover
  <2> SUFFICES ASSUME Init PROVE Safe /\ RefsCover
    OBVIOUS
  <2>1. ASSUME NEW k \in KernelPages PROVE refs[k] >= Counted(k)
    <3>1. refs[k] - Counted(k) = 0 /\ refs[k] \in Int /\ Counted(k) \in Nat
      BY InitBalance, InitTyped, CountedNat DEF Balance, Typed, TypeOK
    <3> QED BY <3>1
  <2> QED BY <2>1, InitSafe, CountsDefs
<1>2. Safe /\ RefsCover /\ [Next]_vars => (Safe /\ RefsCover)'
  <2> SUFFICES ASSUME Safe, RefsCover, [Next]_vars PROVE Safe' /\ RefsCover'
    OBVIOUS
  <2>1. Safe'
    BY SafeNext
  <2>2. ASSUME ~stray', NEW k \in KernelPages PROVE refs'[k] >= Counted(k)'
    <3>1. /\ refs[k] - Counted(k) \in Int /\ refs'[k] - Counted(k)' \in Int
          /\ refs'[k] - Counted(k)' >= refs[k] - Counted(k)
      BY <2>2, BalanceNext DEF Balance, Safe
    <3>2. refs[k] \in Int /\ refs'[k] \in Int /\ Counted(k) \in Nat /\ refs[k] >= Counted(k)
      BY <2>1, <2>2, StrayStays, CountedNat, CountsDefs DEF Safe, Typed, TypeOK
    <3>3. Counted(k)' \in Nat
      BY CountedNat
    <3> QED BY <3>1, <3>2, <3>3
  <2>3. RefsCover' <=> (~stray' => \A k \in KernelPages : refs'[k] >= Counted(k)')
    BY DEF RefsCover, Counted, CachedAt, Holders
  <2> QED BY <2>1, <2>2, <2>3
<1> QED BY <1>1, <1>2, PTL DEF Spec

\* When xas_store(NULL) does not fail, replace and restore have the net effect of
\* zero that the analysis promises: a kernel page has exactly one reference for
\* every slot it sits in and one for every handler in the middle of a step, for any
\* number of senders and also when add_page_to_cache fails half way, with the same
\* exception.
THEOREM RefsBalanced ==
  ASSUME LeakBound = 0
  PROVE  Spec => []RefsExact
<1>1. Init => Safe /\ RefsExact
  <2> SUFFICES ASSUME Init PROVE Safe /\ RefsExact
    OBVIOUS
  <2>1. ASSUME NEW k \in KernelPages PROVE refs[k] = Counted(k)
    <3>1. refs[k] - Counted(k) = 0 /\ refs[k] \in Int /\ Counted(k) \in Nat
      BY InitBalance, InitTyped, CountedNat DEF Balance, Typed, TypeOK
    <3> QED BY <3>1
  <2> QED BY <2>1, InitSafe, CountsDefs
<1>2. Safe /\ RefsExact /\ [Next]_vars => (Safe /\ RefsExact)'
  <2> SUFFICES ASSUME Safe, RefsExact, [Next]_vars PROVE Safe' /\ RefsExact'
    OBVIOUS
  <2>1. Safe'
    BY SafeNext
  <2>2. ASSUME ~stray', NEW k \in KernelPages PROVE refs'[k] = Counted(k)'
    <3>1. refs'[k] - Counted(k)' = refs[k] - Counted(k)
      BY <2>2, BalanceNext DEF Balance, Safe
    <3>2. refs[k] \in Int /\ refs'[k] \in Int /\ Counted(k) \in Nat /\ refs[k] = Counted(k)
      BY <2>1, <2>2, StrayStays, CountedNat, CountsDefs DEF Safe, Typed, TypeOK
    <3>3. Counted(k)' \in Nat
      BY CountedNat
    <3> QED BY <3>1, <3>2, <3>3
  <2>3. RefsExact' <=> (~stray' => \A k \in KernelPages : refs'[k] = Counted(k)')
    BY DEF RefsExact, Counted, CachedAt, Holders
  <2> QED BY <2>1, <2>2, <2>3
<1> QED BY <1>1, <1>2, PTL DEF Spec

-----------------------------------------------------------------------------
(* page->mapping and page->index of a page that is nowhere.                *)

Finishing(k) == \E a \in Actors : pc[a] = "finish" /\ held[a] = k
Storing(k)   == \E t \in Threads : pc[t] = "record" /\ Page(t) = k /\ Slot(t) = owner[k]

\* A kernel page that says where it is sits there, or the restore that erased it
\* has still to reset it, or the handler that set it has still to store the page.
OwnerKnown ==
  \A k \in KernelPages :
    owner[k] # NoSlot => cache[owner[k]] = k \/ Finishing(k) \/ Storing(k)

\* A step of an actor that is in neither of these two stages and changes no owner.
LEMMA OwnerKeeps ==
  ASSUME Typed, OwnerKnown, NEW a \in Actors, pc[a] \notin {"finish", "record"},
         UNCHANGED << cache, owner >>,
         \A u \in Actors \ {a} : /\ pc'[u] = pc[u] /\ todo'[u] = todo[u]
                                 /\ file'[u] = file[u] /\ held'[u] = held[u]
  PROVE  OwnerKnown'
<1> SUFFICES ASSUME NEW k \in KernelPages, owner'[k] # NoSlot
             PROVE  cache'[owner'[k]] = k \/ Finishing(k)' \/ Storing(k)'
  BY DEF OwnerKnown
<1>1. cache[owner[k]] = k \/ Finishing(k) \/ Storing(k)
  BY DEF OwnerKnown
<1>2. CASE Finishing(k)
  <2>1. PICK u \in Actors : pc[u] = "finish" /\ held[u] = k
    BY <1>2 DEF Finishing
  <2> QED BY <2>1 DEF Finishing
<1>3. CASE Storing(k)
  <2>1. PICK t \in Threads : pc[t] = "record" /\ Page(t) = k /\ Slot(t) = owner[k]
    BY <1>3 DEF Storing
  <2>2. t \in Actors \ {a}
    BY <2>1 DEF Actors
  <2>3. pc'[t] = "record" /\ Page(t)' = k /\ Slot(t)' = owner'[k]
    BY <2>1, <2>2 DEF Page, Slot
  <2> QED BY <2>3 DEF Storing
<1> QED BY <1>1, <1>2, <1>3

LEMMA ReplaceOwner ==
  ASSUME Typed, Locks, OwnerKnown, ~InsertMayFail, ~stray', NEW t \in Threads, ReplaceStep(t)
  PROVE  OwnerKnown'
<1>0. /\ t \in Actors /\ t # Rmmod /\ Threads \subseteq Actors
      /\ owner \in [KernelPages -> Slots \cup {NoSlot}] /\ cache \in [Slots -> Content]
      /\ pc \in [Actors -> {"idle", "scan", "lookup", "delete", "insert", "record",
                            "find", "erase", "finish"}]
      /\ todo \in [Actors -> Seq(PageRequest)]
      /\ held \in [Actors -> Holdings]
  BY GraftConstants DEF Actors, Typed, TypeOK
<1>1. CASE LookupFails(t) \/ InsertConflict(t) \/ Lookup(t)
  <2>1. /\ pc[t] \in {"lookup", "insert"} /\ UNCHANGED << cache, owner, file >>
        /\ \A u \in Actors \ {t} : pc'[u] = pc[u] /\ todo'[u] = todo[u] /\ held'[u] = held[u]
    BY <1>0, <1>1 DEF LookupFails, InsertConflict, Lookup, At, Abort
  <2> QED BY <1>0, <2>1, OwnerKeeps
<1>2. CASE DeleteExisting(t)
  <2>1. /\ pc[t] = "delete" /\ cache[Place(t)] = held[t] /\ UNCHANGED << file, todo >>
        /\ cache' = [cache EXCEPT ![Place(t)] = "hole"]
        /\ owner' = SetOwner(held[t], NoSlot)
        /\ held' = [LosePage(t, Place(t), "stale") EXCEPT ![t] = "none"]
        /\ pc' = [pc EXCEPT ![t] = "insert"]
    BY <1>2 DEF DeleteExisting, At
  <2> SUFFICES ASSUME NEW k \in KernelPages, owner'[k] # NoSlot
               PROVE  cache'[owner'[k]] = k \/ Finishing(k)' \/ Storing(k)'
    BY DEF OwnerKnown
  <2>2. k # held[t] /\ owner'[k] = owner[k]
    BY <1>0, <2>1 DEF SetOwner
  <2>3. cache[owner[k]] = k \/ Finishing(k) \/ Storing(k)
    BY <2>2 DEF OwnerKnown
  <2>4. CASE cache[owner[k]] = k
    <3>1. owner[k] # Place(t) /\ owner[k] \in Slots
      BY <1>0, <2>1, <2>2, <2>4
    <3> QED BY <1>0, <2>1, <2>2, <2>4, <3>1
  <2>5. CASE Finishing(k)
    <3>1. PICK u \in Actors : pc[u] = "finish" /\ held[u] = k
      BY <2>5 DEF Finishing
    <3>2. u # t /\ pc'[u] = "finish"
      BY <1>0, <2>1, <3>1
    <3>3. LosePage(t, Place(t), "stale")[u] = k
      <4>1. "stale" \notin KernelPages
        BY GraftConstants
      <4> QED BY <1>0, <3>1, <4>1, LoseKeeps
    <3>4. held'[u] = k
      BY <2>1, <3>2, <3>3 DEF LosePage
    <3> QED BY <3>2, <3>4 DEF Finishing
  <2>6. CASE Storing(k)
    <3>1. PICK u \in Threads : pc[u] = "record" /\ Page(u) = k /\ Slot(u) = owner[k]
      BY <2>6 DEF Storing
    <3>2. pc'[u] = "record" /\ Page(u)' = k /\ Slot(u)' = owner'[k]
      BY <1>0, <2>1, <2>2, <3>1 DEF Page, Slot
    <3> QED BY <3>2 DEF Storing
  <2> QED BY <2>3, <2>4, <2>5, <2>6
<1>3. CASE Insert(t)
  <2>1. /\ pc[t] = "insert" /\ pc' = [pc EXCEPT ![t] = "record"]
        /\ owner' = SetOwner(Page(t), Slot(t)) /\ ~PageLocked(Page(t), Slot(t))
        /\ UNCHANGED << cache, held, file, todo >>
    BY <1>3 DEF Insert, At
  <2> SUFFICES ASSUME NEW k \in KernelPages, owner'[k] # NoSlot
               PROVE  cache'[owner'[k]] = k \/ Finishing(k)' \/ Storing(k)'
    BY DEF OwnerKnown
  <2>2. CASE k = Page(t)
    <3>1. owner'[k] = Slot(t)
      BY SMTT(60), <1>0, <2>1, <2>2 DEF SetOwner
    <3>2. pc'[t] = "record" /\ Page(t)' = k /\ Slot(t)' = owner'[k]
      BY <1>0, <2>1, <2>2, <3>1 DEF Page, Slot
    <3> QED BY <3>2 DEF Storing
  <2>3. CASE k # Page(t)
    <3>1. owner'[k] = owner[k]
      BY <1>0, <2>1, <2>3 DEF SetOwner
    <3>2. cache[owner[k]] = k \/ Finishing(k) \/ Storing(k)
      BY <3>1 DEF OwnerKnown
    <3>3. CASE Finishing(k)
      BY <1>0, <2>1, <3>3 DEF Finishing
    <3>4. CASE Storing(k)
      <4>1. PICK u \in Threads : pc[u] = "record" /\ Page(u) = k /\ Slot(u) = owner[k]
        BY <3>4 DEF Storing
      <4>2. pc'[u] = "record" /\ Page(u)' = k /\ Slot(u)' = owner'[k]
        BY <1>0, <2>1, <3>1, <4>1 DEF Page, Slot
      <4> QED BY <4>2 DEF Storing
    <3> QED BY <2>1, <3>1, <3>2, <3>3, <3>4
  <2> QED BY <2>2, <2>3
<1>4. CASE Record(t)
  <2>1. /\ pc[t] = "record" /\ Slot(t) \in Slots /\ ~IsPage(cache[Slot(t)])
        /\ cache' = [cache EXCEPT ![Slot(t)] = Page(t)] /\ UNCHANGED << owner, held, file >>
    BY <1>0, <1>4, WorkFacts DEF Record, At, Busy, Locks
  <2>2. /\ pc'[t] \in {"idle", "lookup"}
        /\ \A u \in Actors \ {t} : pc'[u] = pc[u] /\ todo'[u] = todo[u] /\ held'[u] = held[u]
    BY <1>0, <1>4, <2>1 DEF Record, Advance
  <2> SUFFICES ASSUME NEW k \in KernelPages, owner'[k] # NoSlot
               PROVE  cache'[owner'[k]] = k \/ Finishing(k)' \/ Storing(k)'
    BY DEF OwnerKnown
  <2>3. cache[owner[k]] = k \/ Finishing(k) \/ Storing(k)
    BY <2>1 DEF OwnerKnown
  <2>4. CASE cache[owner[k]] = k
    <3>1. owner[k] # Slot(t) /\ owner[k] \in Slots
      BY <1>0, <2>1, <2>4 DEF IsPage
    <3> QED BY <1>0, <2>1, <2>4, <3>1
  <2>5. CASE Finishing(k)
    BY <2>1, <2>2, <2>5 DEF Finishing
  <2>6. CASE Storing(k)
    <3>1. PICK u \in Threads : pc[u] = "record" /\ Page(u) = k /\ Slot(u) = owner[k]
      BY <2>6 DEF Storing
    <3>2. CASE u = t
      BY <1>0, <2>1, <3>1, <3>2
    <3>3. CASE u # t
      <4>1. pc'[u] = "record" /\ Page(u)' = k /\ Slot(u)' = owner'[k]
        BY <1>0, <2>1, <2>2, <3>1, <3>3 DEF Page, Slot
      <4> QED BY <4>1 DEF Storing
    <3> QED BY <3>2, <3>3
  <2> QED BY <2>3, <2>4, <2>5, <2>6
<1>5. ~RecordFails(t)
  BY DEF RecordFails
<1>6. CASE DeleteUnmapped(t)
  <2>1. UNCHANGED << cache, owner, pc, todo, file, held >>
    BY <1>6 DEF DeleteUnmapped
  <2> QED BY <2>1 DEF OwnerKnown, Finishing, Storing, Page, Slot
<1> QED BY <1>1, <1>2, <1>3, <1>4, <1>5, <1>6 DEF ReplaceStep

LEMMA RestoreOwner ==
  ASSUME Typed, OwnerKnown, NEW a \in Actors, RestoreStep(a)
  PROVE  OwnerKnown'
<1>0. /\ Threads \subseteq Actors
      /\ owner \in [KernelPages -> Slots \cup {NoSlot}] /\ cache \in [Slots -> Content]
      /\ pc \in [Actors -> {"idle", "scan", "lookup", "delete", "insert", "record",
                            "find", "erase", "finish"}]
      /\ todo \in [Actors -> Seq(PageRequest)]
      /\ held \in [Actors -> Holdings]
  BY DEF Actors, Typed, TypeOK
<1>1. CASE FindBackupFails(a) \/ Find(a) \/ EraseNothing(a) \/ EraseFails(a)
  <2>1. /\ pc[a] \in {"find", "erase"} /\ UNCHANGED << cache, owner, file >>
        /\ \A u \in Actors \ {a} : pc'[u] = pc[u] /\ todo'[u] = todo[u] /\ held'[u] = held[u]
    BY <1>0, <1>1 DEF FindBackupFails, Find, EraseNothing, EraseFails, At, Abort
  <2> QED BY <1>0, <2>1, OwnerKeeps
<1>2. CASE Erase(a)
  <2>1. /\ pc[a] = "erase" /\ Slot(a) \in Slots
        /\ cache' = [cache EXCEPT ![Slot(a)] = "hole"]
        /\ pc' = [pc EXCEPT ![a] = "finish"] /\ UNCHANGED << owner, file, todo >>
    BY <1>2, WorkFacts DEF Erase, At, Busy
  <2>2. /\ held'[a] = cache[Slot(a)]
        /\ \A u \in Actors \ {a} : \A k \in KernelPages : held'[u] = k <=> held[u] = k
    <3>1. held' = [LosePage(a, Slot(a), a) EXCEPT ![a] = cache[Slot(a)]]
      BY <1>2 DEF Erase
    <3>2. \A u \in Actors, k \in KernelPages : LosePage(a, Slot(a), a)[u] = k <=> held[u] = k
      <4>1. a \notin KernelPages
        BY GraftConstants DEF Content
      <4> QED BY <4>1, LoseKeeps
    <3> QED BY <3>1, <3>2 DEF LosePage
  <2> SUFFICES ASSUME NEW k \in KernelPages, owner'[k] # NoSlot
               PROVE  cache'[owner'[k]] = k \/ Finishing(k)' \/ Storing(k)'
    BY DEF OwnerKnown
  <2>3. cache[owner[k]] = k \/ Finishing(k) \/ Storing(k)
    BY <2>1 DEF OwnerKnown
  <2>4. CASE cache[owner[k]] = k
    <3>1. CASE owner[k] = Slot(a)
      <4>1. pc'[a] = "finish" /\ held'[a] = k
        BY <1>0, <2>1, <2>2, <2>4, <3>1
      <4> QED BY <4>1 DEF Finishing
    <3>2. CASE owner[k] # Slot(a)
      BY <1>0, <2>1, <2>4, <3>2
    <3> QED BY <3>1, <3>2
  <2>5. CASE Finishing(k)
    BY <1>0, <2>1, <2>2, <2>5 DEF Finishing
  <2>6. CASE Storing(k)
    <3>1. PICK u \in Threads : pc[u] = "record" /\ Page(u) = k /\ Slot(u) = owner[k]
      BY <2>6 DEF Storing
    <3>2. pc'[u] = "record" /\ Page(u)' = k /\ Slot(u)' = owner'[k]
      BY <1>0, <2>1, <3>1 DEF Page, Slot
    <3> QED BY <3>2 DEF Storing
  <2> QED BY <2>3, <2>4, <2>5, <2>6
<1>3. CASE Finish(a)
  <2>1. /\ pc[a] = "finish" /\ owner' = SetOwner(held[a], NoSlot)
        /\ UNCHANGED << cache, file >>
        /\ \A u \in Actors \ {a} : pc'[u] = pc[u] /\ todo'[u] = todo[u]
    BY <1>0, <1>3 DEF Finish, At, Advance
  <2>1a. \A u \in Actors \ {a} : held'[u] = IF held[u] = a THEN "orphan" ELSE held[u]
    BY <1>3 DEF Finish
  <2> SUFFICES ASSUME NEW k \in KernelPages, owner'[k] # NoSlot
               PROVE  cache'[owner'[k]] = k \/ Finishing(k)' \/ Storing(k)'
    BY DEF OwnerKnown
  <2>2. k # held[a] /\ owner'[k] = owner[k]
    BY <1>0, <2>1 DEF SetOwner
  <2>3. cache[owner[k]] = k \/ Finishing(k) \/ Storing(k)
    BY <2>2 DEF OwnerKnown
  <2>4. CASE Finishing(k)
    <3>1. k # a
      BY GraftConstants DEF Content
    <3> QED BY <2>1, <2>1a, <2>2, <2>4, <3>1 DEF Finishing
  <2>5. CASE Storing(k)
    <3>1. PICK u \in Threads : pc[u] = "record" /\ Page(u) = k /\ Slot(u) = owner[k]
      BY <2>5 DEF Storing
    <3>2. pc'[u] = "record" /\ Page(u)' = k /\ Slot(u)' = owner'[k]
      BY <1>0, <2>1, <2>2, <3>1 DEF Page, Slot
    <3> QED BY <3>2 DEF Storing
  <2> QED BY <2>1, <2>2, <2>3, <2>4, <2>5
<1> QED BY <1>1, <1>2, <1>3 DEF RestoreStep

LEMMA OtherOwner ==
  ASSUME Typed, Alone, OwnerKnown,
         \/ ModuleInit \/ ModuleExit \/ ExitScan \/ ExitScanPast \/ ExitDone
         \/ \E t \in Threads, b \in Batches : ReceiveReplace(t, b) \/ ReceiveRestore(t, b)
         \/ \E s \in Slots : PageFault(s) \/ Reclaim(s)
         \/ UNCHANGED vars
  PROVE  OwnerKnown'
<1>0. /\ cache \in [Slots -> Content] /\ owner \in [KernelPages -> Slots \cup {NoSlot}]
      /\ pc \in [Actors -> {"idle", "scan", "lookup", "delete", "insert", "record",
                            "find", "erase", "finish"}]
      /\ todo \in [Actors -> Seq(PageRequest)] /\ file \in [Actors -> Files]
      /\ Rmmod \in Actors /\ Threads \subseteq Actors
  BY DEF Typed, TypeOK, Actors
<1>1. CASE ModuleInit \/ UNCHANGED vars
  BY <1>1 DEF ModuleInit, vars, OwnerKnown, Finishing, Storing, Page, Slot
<1>2. CASE ModuleExit \/ ExitScan \/ ExitScanPast \/ ExitDone
  <2>1. /\ pc[Rmmod] \in {"idle", "scan"} /\ UNCHANGED << cache, owner, held >>
        /\ \A u \in Actors \ {Rmmod} : pc'[u] = pc[u] /\ todo'[u] = todo[u]
                                       /\ file'[u] = file[u]
    BY <1>0, <1>2 DEF ModuleExit, ExitScan, ExitScanPast, ExitDone, At, InState, Alone
  <2> QED BY <1>0, <2>1, OwnerKeeps
<1>3. CASE \E t \in Threads, b \in Batches : ReceiveReplace(t, b) \/ ReceiveRestore(t, b)
  <2>1. PICK t \in Threads :
          /\ pc[t] = "idle" /\ UNCHANGED << cache, owner, held >>
          /\ \A u \in Actors \ {t} : pc'[u] = pc[u] /\ todo'[u] = todo[u] /\ file'[u] = file[u]
    BY <1>0, <1>3 DEF ReceiveReplace, ReceiveRestore, At
  <2> QED BY <1>0, <2>1, OwnerKeeps
<1>4. CASE \E s \in Slots : PageFault(s) \/ Reclaim(s)
  <2>1. PICK s \in Slots : PageFault(s) \/ Reclaim(s)
    BY <1>4
  <2>2. PICK c \in {"original", "hole", "shadow"} : cache' = [cache EXCEPT ![s] = c]
    BY <2>1 DEF PageFault, Reclaim
  <2>3. UNCHANGED << owner, pc, todo, file, held >> /\ cache[s] \notin KernelPages
    BY <2>1, GraftConstants DEF PageFault, Reclaim, IsPage
  <2>4. \A k \in KernelPages : Finishing(k)' = Finishing(k) /\ Storing(k)' = Storing(k)
    BY <2>3 DEF Finishing, Storing, Page, Slot
  <2> QED BY <1>0, <2>2, <2>3, <2>4 DEF OwnerKnown
<1> QED BY <1>1, <1>2, <1>3, <1>4

\* A kernel page that is in no page cache and in no handler's hands says nothing
\* of where it is: restore_page_cache and delete_from_page_cache reset its mapping,
\* for any number of senders, until a page is deleted that a restore had already
\* erased.  Only a failing xas_store(new_page) leaves it set (InsertMayFail).
THEOREM OwnersReset ==
  ASSUME ~InsertMayFail
  PROVE  Spec => []OwnerReset
<1>1. Init => Safe /\ (stray \/ OwnerKnown)
  BY InitSafe DEF Init, OwnerKnown
<1>2. Safe /\ (stray \/ OwnerKnown) /\ [Next]_vars => (Safe /\ (stray \/ OwnerKnown))'
  <2> SUFFICES ASSUME Safe, stray \/ OwnerKnown, [Next]_vars
               PROVE  Safe' /\ (stray \/ OwnerKnown)'
    OBVIOUS
  <2>1. Safe' /\ (stray => stray')
    BY SafeNext, StrayStays
  <2>2. ASSUME ~stray' PROVE OwnerKnown'
    <3>1. OwnerKnown
      BY <2>1, <2>2
    <3> QED BY <2>2, <3>1, ReplaceOwner, RestoreOwner, OtherOwner DEF Safe, Next
  <2> QED BY <2>1, <2>2
<1>3. stray \/ OwnerKnown => OwnerReset
  BY DEF OwnerKnown, Finishing, Storing, OwnerReset, Busy, Actors
<1> QED BY <1>1, <1>2, <1>3, PTL DEF Spec

-----------------------------------------------------------------------------
(* page->mapping and page->index of a page that is grafted.                *)

OneSender == \A t, u \in Threads : t = u

\* Where the messages put a kernel page, and that each has one place only.
PlacedAt(k) ==
  { s \in Slots : \E b \in Batches : \E n \in 1..Len(b.pages) :
      b.pages[n].page = k /\ s = << b.file, b.pages[n].index >> }
OnePlace == \A k \in KernelPages : \A r, s \in PlacedAt(k) : r = s

\* What a restore has erased stays erased until its backup is cleared.
StaysErased == \A a \in Actors : pc[a] = "finish" => Slot(a) \notin Grafted

\* Pages are grafted, still to be grafted, or just erased, where messages put them.
Placed     == \A s \in Grafted : s \in PlacedAt(cache[s])
WorkPlaced == \A t \in Threads : \A n \in 1..Len(todo[t]) :
                todo[t][n].page \in KernelPages =>
                  << file[t], todo[t][n].index >> \in PlacedAt(todo[t][n].page)
HeldPlaced == \A a \in Actors : pc[a] = "finish" /\ held[a] \in KernelPages =>
                Slot(a) \in PlacedAt(held[a])

\* add_page_to_cache sets the owner before it stores the page.
OwnedFirst == \A t \in Threads : pc[t] = "record" => owner[Page(t)] = Slot(t)

Coherent == Placed /\ WorkPlaced /\ HeldPlaced /\ StaysErased /\ OwnedFirst /\ OwnerCoherent

LEMMA OthersIdle ==
  ASSUME Typed, Alone, OneSender, NEW a \in Actors, pc[a] # "idle"
  PROVE  \A u \in Actors \ {a} : pc[u] = "idle"
BY GraftConstants DEF Typed, TypeOK, Alone, OneSender, Actors

\* After a step of the one actor that runs only its own stage has to be looked at.
LEMMA CoherentKept ==
  ASSUME NEW a \in Actors,
         \A u \in Actors \ {a} : /\ pc'[u] = "idle"
                                 /\ todo'[u] = todo[u] /\ file'[u] = file[u],
         WorkPlaced,
         Placed', OwnerCoherent',
         a \in Threads => \A n \in 1..Len(todo'[a]) :
           todo'[a][n].page \in KernelPages =>
             << file'[a], todo'[a][n].index >> \in PlacedAt(todo'[a][n].page),
         pc'[a] = "finish" => /\ Slot(a)' \notin Grafted'
                              /\ held'[a] \in KernelPages => Slot(a)' \in PlacedAt(held'[a]),
         a \in Threads /\ pc'[a] = "record" => owner'[Page(a)'] = Slot(a)'
  PROVE  Coherent'
<1>0. Threads \subseteq Actors
  BY DEF Actors
<1>1. WorkPlaced'
  <2>1. ASSUME NEW t \in Threads, NEW n \in 1..Len(todo'[t]), todo'[t][n].page \in KernelPages
        PROVE  << file'[t], todo'[t][n].index >> \in PlacedAt(todo'[t][n].page)
    <3>1. CASE t = a
      BY <2>1, <3>1
    <3>2. CASE t # a
      <4>1. todo'[t] = todo[t] /\ file'[t] = file[t]
        BY <1>0, <3>2
      <4> QED BY <2>1, <4>1 DEF WorkPlaced
    <3> QED BY <3>1, <3>2
  <2> QED BY <2>1 DEF WorkPlaced, PlacedAt
<1>2. HeldPlaced' /\ StaysErased'
  <2>1. \A u \in Actors : pc'[u] = "finish" => u = a
    OBVIOUS
  <2> QED BY <2>1 DEF HeldPlaced, StaysErased, PlacedAt
<1>3. OwnedFirst'
  <2>1. \A u \in Threads : pc'[u] = "record" => u = a
    BY <1>0
  <2> QED BY <2>1 DEF OwnedFirst
<1> QED BY <1>1, <1>2, <1>3 DEF Coherent

LEMMA SameGrafts ==
  ASSUME Placed, OwnerCoherent, UNCHANGED << cache, owner >>
  PROVE  Placed' /\ OwnerCoherent'
BY DEF Placed, OwnerCoherent, Grafted, PlacedAt

\* The page a handler works on, and those after it, go where messages put them.
LEMMA WorkPlaces ==
  ASSUME Typed, WorkPlaced, NEW t \in Threads, Busy(t)
  PROVE  /\ Page(t) \in KernelPages => Slot(t) \in PlacedAt(Page(t))
         /\ \A n \in 1..Len(Tail(todo[t])) : Tail(todo[t])[n].page \in KernelPages =>
              << file[t], Tail(todo[t])[n].index >> \in PlacedAt(Tail(todo[t])[n].page)
<1>1. todo[t] \in Seq(PageRequest) /\ todo[t] # << >>
  BY DEF Typed, TypeOK, WorkOK, Actors
<1>2. /\ 1 \in 1..Len(todo[t]) /\ Head(todo[t]) = todo[t][1]
      /\ Len(Tail(todo[t])) = Len(todo[t]) - 1 /\ Len(todo[t]) \in Nat
      /\ \A n \in 1..Len(Tail(todo[t])) : Tail(todo[t])[n] = todo[t][n + 1]
  BY <1>1
<1>3. Page(t) \in KernelPages => Slot(t) \in PlacedAt(Page(t))
  BY <1>2 DEF WorkPlaced, Page, Slot
<1>4. ASSUME NEW n \in 1..Len(Tail(todo[t])), Tail(todo[t])[n].page \in KernelPages
      PROVE  << file[t], Tail(todo[t])[n].index >> \in PlacedAt(Tail(todo[t])[n].page)
  <2>1. n + 1 \in 1..Len(todo[t]) /\ Tail(todo[t])[n] = todo[t][n + 1]
    BY <1>2
  <2> QED BY <1>4, <2>1 DEF WorkPlaced
<1> QED BY <1>3, <1>4

\* Of what a handler does to its list: nothing, the page is done, or all are dropped.
LEMMA WorkKept ==
  ASSUME Typed, WorkPlaced, NEW t \in Threads, Busy(t), file' = file,
         todo'[t] \in {todo[t], Tail(todo[t]), << >>}
  PROVE  \A n \in 1..Len(todo'[t]) : todo'[t][n].page \in KernelPages =>
           << file'[t], todo'[t][n].index >> \in PlacedAt(todo'[t][n].page)
<1>1. CASE todo'[t] = << >>
  BY <1>1
<1>2. CASE todo'[t] = todo[t]
  BY <1>2 DEF WorkPlaced
<1>3. CASE todo'[t] = Tail(todo[t])
  BY <1>3, WorkPlaces
<1> QED BY <1>1, <1>2, <1>3

LEMMA ReplaceCoherent ==
  ASSUME Typed, Alone, OneSender, OnePlace, Coherent, NEW t \in Threads, ReplaceStep(t)
  PROVE  Coherent'
<1>0. /\ t \in Actors /\ t # Rmmod
      /\ owner \in [KernelPages -> Slots \cup {NoSlot}] /\ cache \in [Slots -> Content]
      /\ pc \in [Actors -> {"idle", "scan", "lookup", "delete", "insert", "record",
                            "find", "erase", "finish"}]
      /\ todo \in [Actors -> Seq(PageRequest)]
  BY GraftConstants DEF Actors, Typed, TypeOK
<1>1. pc[t] # "idle" /\ Busy(t) /\ file' = file
  BY DEF ReplaceStep, LookupFails, Lookup, DeleteExisting, DeleteUnmapped, InsertConflict,
     Insert, Record, RecordFails, At, Busy
<1>2. Placed /\ WorkPlaced /\ OwnedFirst /\ OwnerCoherent
  BY DEF Coherent
<1>3. /\ \A u \in Actors \ {t} : pc'[u] = "idle" /\ todo'[u] = todo[u] /\ file'[u] = file[u]
      /\ todo'[t] \in {todo[t], Tail(todo[t]), << >>}
      /\ pc'[t] \in {"idle", "lookup", "delete", "insert", "record"}
      /\ pc'[t] = "record" => Insert(t)
  <2>1. \A u \in Actors \ {t} : pc[u] = "idle"
    BY <1>0, <1>1, OthersIdle
  <2>2. CASE LookupFails(t) \/ InsertConflict(t) \/ RecordFails(t)
    BY <1>0, <1>1, <2>1, <2>2 DEF LookupFails, InsertConflict, RecordFails, Abort
  <2>3. CASE Lookup(t) \/ DeleteExisting(t) \/ DeleteUnmapped(t)
    BY <1>0, <1>1, <2>1, <2>3 DEF Lookup, DeleteExisting, DeleteUnmapped, At
  <2>4. CASE Insert(t)
    BY <1>0, <1>1, <2>1, <2>4 DEF Insert
  <2>5. CASE Record(t)
    BY <1>0, <1>1, <2>1, <2>5 DEF Record, Advance
  <2> QED BY <2>2, <2>3, <2>4, <2>5 DEF ReplaceStep
<1>4. SUFFICES /\ Placed' /\ OwnerCoherent'
               /\ pc'[t] = "record" => owner'[Page(t)'] = Slot(t)'
  BY <1>0, <1>1, <1>2, <1>3, WorkKept, CoherentKept
<1>5. CASE \/ LookupFails(t) \/ Lookup(t) \/ DeleteUnmapped(t)
           \/ InsertConflict(t) \/ RecordFails(t)
  <2>1. UNCHANGED << cache, owner >> /\ pc'[t] # "record"
    BY <1>0, <1>5 DEF LookupFails, Lookup, DeleteUnmapped, InsertConflict, RecordFails,
       Abort, At
  <2> QED BY <1>2, <2>1, SameGrafts
<1>6. CASE DeleteExisting(t)
  <2>1. /\ pc' = [pc EXCEPT ![t] = "insert"] /\ Place(t) \in Slots
        /\ cache' = [cache EXCEPT ![Place(t)] = "hole"]
        /\ owner' = SetOwner(held[t], NoSlot)
    <3>1. Slot(t) \in Slots
      BY <1>0, <1>1, WorkFacts
    <3> QED BY <1>0, <1>6, <3>1 DEF DeleteExisting, Place
  <2>2. Grafted' = Grafted \ {Place(t)} /\ \A s \in Grafted' : cache'[s] = cache[s]
    BY <1>0, <2>1, GraftConstants DEF Grafted
  <2>3. \A s \in Grafted' : s \in PlacedAt(cache[s]) /\ owner[cache[s]] = s
    BY <1>2, <2>2 DEF Placed, OwnerCoherent
  <2>4. ASSUME NEW s \in Grafted' PROVE owner'[cache[s]] = owner[cache[s]]
    <3>1. s # Place(t) /\ cache[s] \in KernelPages
      BY <2>2 DEF Grafted
    <3>2. cache[s] # held[t]
      BY <2>3, <3>1 DEF Place
    <3> QED BY <1>0, <2>1, <3>1, <3>2 DEF SetOwner
  <2>5. Placed' /\ OwnerCoherent'
    BY <2>2, <2>3, <2>4 DEF Placed, OwnerCoherent, PlacedAt
  <2>6. pc'[t] = "insert"
    BY <1>0, <2>1
  <2> QED BY <2>5, <2>6
<1>7. CASE Insert(t)
  <2>1. /\ pc[t] = "insert" /\ UNCHANGED << cache, todo >>
        /\ owner' = SetOwner(Page(t), Slot(t))
    BY <1>7 DEF Insert, At
  <2>2. Page(t) \in KernelPages /\ Slot(t) \in PlacedAt(Page(t))
    BY <1>1, <1>2, <2>1, WorkPlaces DEF Typed, StageOK
  <2>3. Slot(t)' = Slot(t) /\ Page(t)' = Page(t) /\ owner'[Page(t)] = Slot(t)
    BY <1>0, <1>1, <2>1, <2>2 DEF Slot, Page, SetOwner
  <2>4. ASSUME NEW s \in Grafted PROVE owner'[cache[s]] = s
    <3>1. cache[s] \in KernelPages /\ s \in PlacedAt(cache[s]) /\ owner[cache[s]] = s
      BY <1>2 DEF Grafted, Placed, OwnerCoherent
    <3>2. CASE cache[s] = Page(t)
      BY <2>2, <2>3, <3>1, <3>2 DEF OnePlace
    <3>3. CASE cache[s] # Page(t)
      BY <1>0, <2>1, <3>1, <3>3 DEF SetOwner
    <3> QED BY <3>2, <3>3
  <2>5. Placed' /\ OwnerCoherent'
    BY <1>2, <2>1, <2>4 DEF Placed, OwnerCoherent, Grafted, PlacedAt
  <2> QED BY <2>3, <2>5
<1>8. CASE Record(t)
  <2>1. /\ pc[t] = "record" /\ owner' = owner /\ Slot(t) \in Slots
        /\ cache' = [cache EXCEPT ![Slot(t)] = Page(t)]
    BY <1>0, <1>1, <1>8, WorkFacts DEF Record, At
  <2>2. Page(t) \in KernelPages /\ Slot(t) \in PlacedAt(Page(t)) /\ owner[Page(t)] = Slot(t)
    BY <1>1, <1>2, <2>1, WorkPlaces DEF Typed, StageOK, OwnedFirst
  <2>3. ASSUME NEW s \in Grafted' PROVE s \in PlacedAt(cache'[s]) /\ owner'[cache'[s]] = s
    <3>1. CASE s = Slot(t)
      BY <1>0, <2>1, <2>2, <3>1
    <3>2. CASE s # Slot(t)
      <4>1. s \in Grafted /\ cache'[s] = cache[s]
        BY <1>0, <2>1, <2>3, <3>2 DEF Grafted
      <4> QED BY <1>2, <2>1, <4>1 DEF Placed, OwnerCoherent
    <3> QED BY <3>1, <3>2
  <2>4. Placed' /\ OwnerCoherent'
    BY <2>3 DEF Placed, OwnerCoherent, PlacedAt
  <2>5. pc'[t] # "record"
    BY <1>0, <1>8 DEF Record, Advance
  <2> QED BY <2>4, <2>5
<1> QED BY <1>5, <1>6, <1>7, <1>8 DEF ReplaceStep

LEMMA RestoreCoherent ==
  ASSUME Typed, Alone, OneSender, OnePlace, Coherent, NEW a \in Actors, RestoreStep(a)
  PROVE  Coherent'
<1>0. /\ owner \in [KernelPages -> Slots \cup {NoSlot}] /\ cache \in [Slots -> Content]
      /\ pc \in [Actors -> {"idle", "scan", "lookup", "delete", "insert", "record",
                            "find", "erase", "finish"}]
      /\ todo \in [Actors -> Seq(PageRequest)]
      /\ held \in [Actors -> Holdings]
  BY DEF Typed, TypeOK
<1>1. pc[a] # "idle" /\ Busy(a) /\ file' = file
  BY DEF RestoreStep, FindBackupFails, Find, EraseNothing, Erase, EraseFails, Finish, At, Busy
<1>2. Placed /\ WorkPlaced /\ HeldPlaced /\ StaysErased /\ OwnerCoherent
  BY DEF Coherent
<1>3. /\ \A u \in Actors \ {a} : pc'[u] = "idle" /\ todo'[u] = todo[u] /\ file'[u] = file[u]
      /\ todo'[a] \in {todo[a], Tail(todo[a]), << >>}
      /\ pc'[a] \in {"idle", "scan", "find", "erase", "finish"}
      /\ pc'[a] = "finish" => Erase(a)
  <2>1. \A u \in Actors \ {a} : pc[u] = "idle"
    BY <1>0, <1>1, OthersIdle
  <2>2. CASE FindBackupFails(a) \/ EraseFails(a)
    BY <1>0, <1>1, <2>1, <2>2 DEF FindBackupFails, EraseFails, Abort
  <2>3. CASE Find(a) \/ EraseNothing(a) \/ Erase(a)
    BY <1>0, <1>1, <2>1, <2>3 DEF Find, EraseNothing, Erase, At
  <2>4. CASE Finish(a)
    BY <1>0, <1>1, <2>1, <2>4 DEF Finish, Advance
  <2> QED BY <2>2, <2>3, <2>4 DEF RestoreStep
<1>4. SUFFICES /\ Placed' /\ OwnerCoherent'
               /\ pc'[a] = "finish" =>
                    /\ Slot(a)' \notin Grafted'
                    /\ held'[a] \in KernelPages => Slot(a)' \in PlacedAt(held'[a])
  BY <1>0, <1>1, <1>2, <1>3, WorkKept, CoherentKept
<1>5. CASE FindBackupFails(a) \/ Find(a) \/ EraseNothing(a) \/ EraseFails(a)
  <2>1. UNCHANGED << cache, owner >> /\ pc'[a] # "finish"
    BY <1>0, <1>5 DEF FindBackupFails, Find, EraseNothing, EraseFails, Abort, At
  <2> QED BY <1>2, <2>1, SameGrafts
<1>6. CASE Erase(a)
  <2>1. /\ Slot(a) \in Slots /\ UNCHANGED << todo, owner >>
        /\ cache' = [cache EXCEPT ![Slot(a)] = "hole"]
    BY <1>1, <1>6, WorkFacts DEF Erase
  <2>2. Slot(a)' = Slot(a) /\ held'[a] = cache[Slot(a)]
    <3>1. held' = [LosePage(a, Slot(a), a) EXCEPT ![a] = cache[Slot(a)]]
      BY <1>6 DEF Erase
    <3>2. held'[a] = cache[Slot(a)]
      BY <3>1 DEF LosePage
    <3>3. todo' = todo /\ file' = file
      BY <1>1, <2>1
    <3> QED BY <3>2, <3>3 DEF Slot
  <2>3. Grafted' = Grafted \ {Slot(a)} /\ \A s \in Grafted' : cache'[s] = cache[s]
    BY <1>0, <2>1, GraftConstants DEF Grafted
  <2>4. Placed' /\ OwnerCoherent'
    BY <1>2, <2>1, <2>3 DEF Placed, OwnerCoherent, PlacedAt
  <2>5. held'[a] \in KernelPages => Slot(a) \in PlacedAt(held'[a])
    BY <1>2, <2>1, <2>2 DEF Placed, Grafted
  <2> QED BY <2>2, <2>3, <2>4, <2>5
<1>7. CASE Finish(a)
  <2>1. pc[a] = "finish" /\ cache' = cache /\ owner' = SetOwner(held[a], NoSlot)
    BY <1>7 DEF Finish, At
  <2>2. ASSUME NEW s \in Grafted PROVE owner'[cache[s]] = s
    <3>1. cache[s] \in KernelPages /\ s \in PlacedAt(cache[s]) /\ owner[cache[s]] = s
          /\ s # Slot(a)
      BY <1>2, <2>1 DEF Grafted, Placed, OwnerCoherent, StaysErased
    <3>2. cache[s] # held[a]
      BY <1>2, <2>1, <3>1 DEF HeldPlaced, OnePlace
    <3> QED BY <1>0, <2>1, <3>1, <3>2 DEF SetOwner
  <2>3. Placed' /\ OwnerCoherent'
    BY <1>2, <2>1, <2>2 DEF Placed, OwnerCoherent, Grafted, PlacedAt
  <2> QED BY <1>3, <1>7, <2>1, <2>3 DEF Erase, At
<1> QED BY <1>5, <1>6, <1>7 DEF RestoreStep

LEMMA OtherCoherent ==
  ASSUME Typed, Alone, OneSender, Coherent,
         \/ ModuleInit \/ ModuleExit \/ ExitScan \/ ExitScanPast \/ ExitDone
         \/ \E t \in Threads, b \in Batches : ReceiveReplace(t, b) \/ ReceiveRestore(t, b)
         \/ \E s \in Slots : PageFault(s) \/ Reclaim(s)
         \/ UNCHANGED vars
  PROVE  Coherent'
<1>0. /\ cache \in [Slots -> Content]
      /\ pc \in [Actors -> {"idle", "scan", "lookup", "delete", "insert", "record",
                            "find", "erase", "finish"}]
      /\ todo \in [Actors -> Seq(PageRequest)] /\ file \in [Actors -> Files]
      /\ Rmmod \in Actors /\ Rmmod \notin Threads /\ Actors = Threads \cup {Rmmod}
  BY GraftConstants DEF Typed, TypeOK, Actors
<1>1. Placed /\ WorkPlaced /\ OwnerCoherent
  BY DEF Coherent
<1>2. CASE ModuleInit \/ UNCHANGED vars
  <2>1. UNCHANGED << cache, owner, pc, todo, file, held >>
    BY <1>2 DEF ModuleInit, vars
  <2>2. Placed' /\ OwnerCoherent'
    BY <1>1, <2>1, SameGrafts
  <2>3. WorkPlaced' /\ HeldPlaced'
    <3>1. WorkPlaced'
      BY <1>1, <2>1 DEF WorkPlaced, PlacedAt
    <3>2. \A a \in Actors : Slot(a)' = Slot(a)
      BY <2>1 DEF Slot
    <3>3. HeldPlaced'
      BY <2>1, <3>2 DEF Coherent, HeldPlaced, PlacedAt
    <3> QED BY <3>1, <3>3
  <2>4. StaysErased' /\ OwnedFirst'
    BY <2>1 DEF Coherent, StaysErased, OwnedFirst, Grafted, Page, Slot
  <2> QED BY <2>2, <2>3, <2>4 DEF Coherent
<1>3. CASE ModuleExit \/ ExitScan \/ ExitScanPast \/ ExitDone
  <2>1. /\ UNCHANGED << cache, owner, held >> /\ pc'[Rmmod] \in {"idle", "scan", "find"}
        /\ \A u \in Threads : pc[u] = "idle" /\ pc'[u] = pc[u] /\ todo'[u] = todo[u]
                              /\ file'[u] = file[u]
    <3>1. \A u \in Threads : pc[u] = "idle"
      BY <1>0, <1>3, OthersIdle DEF ModuleExit, ExitScan, ExitScanPast, ExitDone, At
    <3>2. CASE ModuleExit \/ ExitScanPast \/ ExitDone
      BY <1>0, <3>1, <3>2 DEF ModuleExit, ExitScanPast, ExitDone, At
    <3>3. CASE ExitScan
      BY <1>0, <3>1, <3>3 DEF ExitScan, At
    <3> QED BY <1>3, <3>1, <3>2, <3>3
  <2> QED BY SMTT(60), <1>0, <1>1, <2>1, SameGrafts, CoherentKept
<1>4. CASE \E t \in Threads, b \in Batches : ReceiveReplace(t, b) \/ ReceiveRestore(t, b)
  <2>1. PICK t \in Threads, b \in Batches : ReceiveReplace(t, b) \/ ReceiveRestore(t, b)
    BY <1>4
  <2>2. /\ module = "loaded" /\ UNCHANGED << cache, owner, held >>
        /\ pc'[t] \in {"lookup", "find"} /\ todo'[t] = b.pages /\ file'[t] = b.file
        /\ \A u \in Actors \ {t} : pc'[u] = pc[u] /\ todo'[u] = todo[u] /\ file'[u] = file[u]
    BY <1>0, <2>1 DEF ReceiveReplace, ReceiveRestore, InState
  <2>3. \A u \in Actors \ {t} : pc[u] = "idle"
    BY <1>0, <2>2 DEF Alone, OneSender
  <2>4. \A n \in 1..Len(b.pages) : b.pages[n].page \in KernelPages =>
          << b.file, b.pages[n].index >> \in PlacedAt(b.pages[n].page)
    BY GraftConstants DEF PlacedAt
  <2>5. \A n \in 1..Len(todo'[t]) : todo'[t][n].page \in KernelPages =>
          << file'[t], todo'[t][n].index >> \in PlacedAt(todo'[t][n].page)
    BY <2>2, <2>4
  <2>6. Placed' /\ OwnerCoherent' /\ t \in Actors
    BY <1>0, <1>1, <2>2, SameGrafts
  <2> QED BY <1>1, <2>2, <2>3, <2>5, <2>6, CoherentKept
<1>5. CASE \E s \in Slots : PageFault(s) \/ Reclaim(s)
  <2>1. PICK s \in Slots : PageFault(s) \/ Reclaim(s)
    BY <1>5
  <2>2. PICK c \in {"original", "hole", "shadow"} : cache' = [cache EXCEPT ![s] = c]
    BY <2>1 DEF PageFault, Reclaim
  <2>3. UNCHANGED << owner, pc, todo, file, held >> /\ cache[s] \notin KernelPages
    BY <2>1, GraftConstants DEF PageFault, Reclaim, IsPage
  <2>4. Grafted' = Grafted /\ \A r \in Grafted : cache'[r] = cache[r]
    BY <1>0, <2>2, <2>3, GraftConstants DEF Grafted
  <2>5. Placed' /\ OwnerCoherent'
    BY <1>1, <2>3, <2>4 DEF Placed, OwnerCoherent, PlacedAt
  <2>6. WorkPlaced' /\ HeldPlaced'
    <3>1. WorkPlaced'
      BY <1>1, <2>3 DEF WorkPlaced, PlacedAt
    <3>2. \A a \in Actors : Slot(a)' = Slot(a)
      BY <2>3 DEF Slot
    <3>3. HeldPlaced'
      BY <2>3, <3>2 DEF Coherent, HeldPlaced, PlacedAt
    <3> QED BY <3>1, <3>3
  <2>7. StaysErased' /\ OwnedFirst'
    BY <2>3, <2>4 DEF Coherent, StaysErased, OwnedFirst, Page, Slot
  <2> QED BY <2>5, <2>6, <2>7 DEF Coherent
<1> QED BY <1>2, <1>3, <1>4, <1>5

\* With one sender, and messages that give every kernel page one place, a grafted
\* page says in which file and at which index it is, as rmap, truncation and
\* delete_from_page_cache rely on: whatever is replaced, replaced again or restored,
\* and whichever of the stores into the XArray fails.
THEOREM OwnersCoherent ==
  ASSUME OneSender, OnePlace
  PROVE  Spec => []OwnerCoherent
<1>1. Init => Safe /\ Coherent
  <2> SUFFICES ASSUME Init PROVE Safe /\ Coherent
    OBVIOUS
  <2>1. Grafted = {}
    BY GraftConstants DEF Init, Grafted
  <2>2. \A a \in Actors : pc[a] = "idle" /\ todo[a] = << >>
    BY DEF Init
  <2> QED BY <2>1, <2>2, InitSafe DEF Coherent, Placed, WorkPlaced, HeldPlaced, StaysErased,
       OwnedFirst, OwnerCoherent, Actors
<1>2. Safe /\ Coherent /\ [Next]_vars => (Safe /\ Coherent)'
  <2> SUFFICES ASSUME Safe, Coherent, [Next]_vars PROVE Safe' /\ Coherent'
    OBVIOUS
  <2>1. Safe'
    BY SafeNext
  <2> QED BY <2>1, ReplaceCoherent, RestoreCoherent, OtherCoherent DEF Safe, Next
<1>3. Coherent => OwnerCoherent
  BY DEF Coherent
<1> QED BY <1>1, <1>2, <1>3, PTL DEF Spec
=============================================================================
