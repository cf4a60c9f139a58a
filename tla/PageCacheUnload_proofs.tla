----------------------- MODULE PageCacheUnload_proofs -----------------------
(***************************************************************************)
(* What the unload of the kernel module restores, proved for one sender    *)
(* and pages whose index names them, for any number of files, messages and *)
(* backups, page faults and reclaim at any moment.  The runs               *)
(* GraftSameIndex and GraftOverflow show what is lost without the          *)
(* hypotheses.  The last part is about the messages that the user side     *)
(* sends: pages are replaced once before they are restored, and then every *)
(* record stands for a grafted page.                                       *)
(***************************************************************************)
EXTENDS PageCacheGraft_proofs, WellFoundedInduction

\* backup_page_info appends where the table ends, and never past it: nobody else
\* appends between its three reads of backup_count.
TailKnown ==
  /\ count <= MaxBackups /\ cursor <= MaxBackups + 1
  /\ count > 0 => active
  /\ \A t \in Threads : pc[t] = "record" =>
       seen[t] = IF count < MaxBackups THEN {count} ELSE {}

\* The record that will restore s: during the unload one the loop has still to
\* reach, or the one it is at.
Recorded(s) ==
  \E n \in 1..count :
    /\ table[n].live /\ table[n].slot = s
    /\ module = "leaving" =>
         n >= cursor \/ (pc[Rmmod] \in {"find", "erase"} /\ Slot(Rmmod) = s)

AllRecorded == ~dropped => \A s \in Grafted : module # "out" /\ Recorded(s)

UnloadInv == Alone /\ TailKnown /\ StaysErased /\ AllRecorded

-----------------------------------------------------------------------------
(* find_backup_info finds a live backup of an index when there is one.     *)

LEMMA NatOrder ==
  \E R : IsWellFoundedOn(R, Nat) /\ \A x, y \in Nat : << y, x >> \in R <=> y < x
<1>1. \A x, y \in Nat : << y, x >> \in OpToRel(<, Nat) <=> y < x
  BY DEF OpToRel
<1> QED BY <1>1, NatLessThanWellFounded

LEMMA LeastElement ==
  ASSUME NEW T, T \subseteq Nat, T # {}
  PROVE  \E x \in T : \A y \in T : x <= y
<1>1. PICK R : IsWellFoundedOn(R, Nat) /\ \A x, y \in Nat : << y, x >> \in R <=> y < x
  BY NatOrder
<1>2. PICK x \in T : \A y \in T : ~(<< y, x >> \in R)
  BY <1>1, WFMin
<1>3. ASSUME NEW y \in T PROVE x <= y
  <2>1. x \in Nat /\ y \in Nat /\ ~(<< y, x >> \in R)
    BY <1>2
  <2>2. ~(y < x)
    BY <1>1, <2>1
  <2> QED BY <2>1, <2>2
<1> QED BY <1>3

LEMMA FindFacts ==
  ASSUME Typed, NEW i
  PROVE  /\ LiveAt(i) # {} => FindBackup(i) \in LiveAt(i)
         /\ LiveAt(i) = {} <=> FindBackup(i) = 0
         /\ FindBackup(i) # 0 =>
              FindBackup(i) \in 1..MaxBackups /\ table[FindBackup(i)].slot[2] = i
<1>1. LiveAt(i) \subseteq Nat \ {0} /\ LiveAt(i) \subseteq 1..MaxBackups
  BY GraftConstants DEF LiveAt, Typed, TypeOK
<1>2. ASSUME LiveAt(i) # {} PROVE FindBackup(i) \in LiveAt(i)
  <2>1. \E n \in LiveAt(i) : \A m \in LiveAt(i) : n <= m
    BY <1>1, <1>2, LeastElement
  <2> QED BY <1>2, <2>1 DEF FindBackup
<1>3. LiveAt(i) = {} => FindBackup(i) = 0
  BY DEF FindBackup
<1>4. FindBackup(i) # 0 => FindBackup(i) \in LiveAt(i)
  BY <1>2, <1>3
<1>5. FindBackup(i) \in LiveAt(i) => FindBackup(i) # 0
  BY <1>1
<1>6. FindBackup(i) \in LiveAt(i) => table[FindBackup(i)].slot[2] = i
  BY DEF LiveAt
<1> QED BY <1>1, <1>2, <1>3, <1>4, <1>5, <1>6

-----------------------------------------------------------------------------
(* One sender never passes the end of the table.                           *)

LEMMA BackupKnown ==
  ASSUME Typed, TailKnown, NEW t \in Threads, pc[t] = "record", BackupPageInfo(t)
  PROVE  \/ /\ count < MaxBackups /\ count' = count + 1 /\ active' = TRUE
            /\ table' = [table EXCEPT ![count + 1] = [slot |-> Slot(t), live |-> TRUE]]
            /\ dropped' = dropped /\ oops' = oops
         \/ /\ ~(count < MaxBackups) /\ dropped' = TRUE
            /\ table' = table /\ count' = count /\ active' = active /\ oops' = oops
<1>1. seen[t] = IF count < MaxBackups THEN {count} ELSE {}
  BY DEF TailKnown
<1>2. CASE count < MaxBackups
  <2>1. seen[t] = {count}
    BY <1>1, <1>2
  <2>2. ~WritePastTable(t) /\ ~DropRecord(t)
    <3>1. count \in Nat /\ MaxBackups \in Nat
      BY GraftConstants DEF Typed, TypeOK
    <3>2. ~WritePastTable(t)
      BY <1>2, <2>1, <3>1 DEF WritePastTable
    <3>3. ~DropRecord(t)
      BY <2>1 DEF DropRecord
    <3> QED BY <3>2, <3>3
  <2>3. AppendRecord(t)
    BY <2>2 DEF BackupPageInfo
  <2> QED BY <1>2, <2>1, <2>3 DEF AppendRecord
<1>3. CASE ~(count < MaxBackups)
  <2>1. seen[t] = {}
    BY <1>1, <1>3
  <2>2. ~WritePastTable(t) /\ ~AppendRecord(t)
    BY <2>1 DEF WritePastTable, AppendRecord
  <2>3. DropRecord(t)
    BY <2>2 DEF BackupPageInfo
  <2> QED BY <1>3, <2>3 DEF DropRecord, tableVars
<1> QED BY <1>2, <1>3

LEMMA TailNext ==
  ASSUME Typed, Alone, OneSender, TailKnown, [Next]_vars
  PROVE  TailKnown'
<1>0. /\ count \in Nat /\ cursor \in Nat /\ MaxBackups \in Nat /\ active \in BOOLEAN
      /\ seen \in [Threads -> SUBSET Nat]
      /\ pc \in [Actors -> {"idle", "scan", "lookup", "delete", "insert", "record",
                            "find", "erase", "finish"}]
      /\ Threads \subseteq Actors /\ Rmmod \in Actors /\ Rmmod \notin Threads
  BY GraftConstants DEF Typed, TypeOK, Actors
<1>1. /\ count <= MaxBackups /\ cursor <= MaxBackups + 1
      /\ count > 0 => active
      /\ \A t \in Threads : pc[t] = "record" =>
           seen[t] = IF count < MaxBackups THEN {count} ELSE {}
  BY DEF TailKnown
\* Nobody starts to record, and the table stays.
<1>2. ASSUME UNCHANGED << count, active, seen >>, cursor' <= MaxBackups + 1,
             \A t \in Threads : pc'[t] = "record" => pc[t] = "record"
      PROVE  TailKnown'
  BY <1>1, <1>2 DEF TailKnown
\* The module is loaded, or out.
<1>3. ASSUME count' = 0, cursor' <= MaxBackups + 1, \A t \in Threads : pc'[t] # "record"
      PROVE  TailKnown'
  BY <1>0, <1>3 DEF TailKnown
<1>4. CASE UNCHANGED vars
  BY <1>1, <1>2, <1>4 DEF vars
<1>5. CASE ModuleInit
  <2>1. \A t \in Threads : pc'[t] # "record"
    BY <1>0, <1>5 DEF ModuleInit, InState, Alone
  <2> QED BY <1>1, <1>3, <1>5, <2>1 DEF ModuleInit
<1>6. CASE ModuleExit
  <2>1. \A t \in Threads : pc'[t] = pc[t]
    BY <1>0, <1>6 DEF ModuleExit
  <2> QED BY <1>0, <1>2, <1>6, <2>1 DEF ModuleExit, tableVars
<1>7. CASE ExitScan \/ ExitScanPast
  <2>1. cursor' = cursor + 1 /\ cursor <= count /\ UNCHANGED << count, active, seen >>
    BY <1>7 DEF ExitScan, ExitScanPast, ScanDone, tableVars
  <2>2. \A t \in Threads : pc'[t] = pc[t]
    BY <1>0, <1>7 DEF ExitScan, ExitScanPast
  <2> QED BY <1>0, <1>1, <1>2, <2>1, <2>2
<1>8. CASE ExitDone
  <2>1. \A t \in Threads : pc'[t] = pc[t] /\ pc[t] = "idle"
    BY <1>0, <1>8 DEF ExitDone, At, Alone
  <2> QED BY <1>0, <1>3, <1>8, <2>1 DEF ExitDone
<1>9. CASE \E t \in Threads, b \in Batches : ReceiveReplace(t, b) \/ ReceiveRestore(t, b)
  <2>1. PICK t \in Threads, step \in {"lookup", "find"} :
          /\ pc' = [pc EXCEPT ![t] = step]
          /\ UNCHANGED << count, active, seen, cursor >>
    BY <1>9 DEF ReceiveReplace, ReceiveRestore, tableVars
  <2> QED BY <1>0, <1>1, <1>2, <2>1
<1>10. CASE \E s \in Slots : PageFault(s) \/ Reclaim(s)
  BY <1>1, <1>2, <1>10 DEF PageFault, Reclaim, tableVars
<1>11. ASSUME NEW t \in Threads, ReplaceStep(t) PROVE TailKnown'
  <2>1. CASE \/ LookupFails(t) \/ Lookup(t) \/ DeleteExisting(t) \/ DeleteUnmapped(t)
             \/ InsertConflict(t)
    <3>1. /\ UNCHANGED << count, active, seen, cursor >>
      BY <2>1 DEF LookupFails, Lookup, DeleteExisting, DeleteUnmapped, InsertConflict, tableVars
    <3>2. CASE DeleteUnmapped(t)
      BY <1>1, <1>2, <3>1, <3>2 DEF DeleteUnmapped
    <3>3. CASE ~DeleteUnmapped(t)
      <4>1. PICK step \in {"idle", "scan", "delete", "insert"} : pc' = [pc EXCEPT ![t] = step]
        BY <2>1, <3>3 DEF LookupFails, Lookup, DeleteExisting, InsertConflict, Abort
      <4> QED BY <1>0, <1>1, <1>2, <3>1, <4>1
    <3> QED BY <3>2, <3>3
  <2>2. CASE Insert(t)
    <3>1. /\ UNCHANGED << count, active, cursor >>
          /\ seen' = [seen EXCEPT ![t] = IF count < MaxBackups THEN {count} ELSE {}]
      BY <2>2 DEF Insert, tableVars
    <3>2. \A u \in Threads : u = t
      BY DEF OneSender
    <3>3. seen'[t] = IF count' < MaxBackups THEN {count'} ELSE {}
      BY <1>0, <3>1
    <3> QED BY <1>1, <3>1, <3>2, <3>3 DEF TailKnown
  <2>3. CASE Record(t) \/ RecordFails(t)
    <3>1. pc[t] = "record" /\ BackupPageInfo(t) /\ cursor' = cursor
      BY <2>3 DEF Record, RecordFails, At
    <3>2. /\ count' <= MaxBackups
          /\ count' > 0 => active'
      <4>1. \/ count < MaxBackups /\ count' = count + 1 /\ active' = TRUE
            \/ count' = count /\ active' = active
        BY <3>1, BackupKnown
      <4> QED BY <1>0, <1>1, <4>1
    <3>3. PICK step \in {"idle", "scan", "lookup"} : pc' = [pc EXCEPT ![t] = step]
      BY <2>3 DEF Record, RecordFails, Advance, Abort
    <3>4. \A u \in Threads : pc'[u] # "record"
      BY <1>0, <3>3 DEF OneSender
    <3> QED BY <1>1, <3>1, <3>2, <3>4 DEF TailKnown
  <2> QED BY <1>11, <2>1, <2>2, <2>3 DEF ReplaceStep
<1>12. ASSUME NEW a \in Actors, RestoreStep(a) PROVE TailKnown'
  <2>1. /\ UNCHANGED << count, active, seen, cursor >>
        /\ \/ pc' = pc
           \/ \E step \in {"idle", "scan", "find", "erase", "finish"} :
                pc' = [pc EXCEPT ![a] = step]
    BY <1>12 DEF RestoreStep, FindBackupFails, Find, EraseNothing, Erase, EraseFails, Finish,
       Abort, Advance, tableVars
  <2> QED BY <1>0, <1>1, <1>2, <2>1
<1> QED BY <1>4, <1>5, <1>6, <1>7, <1>8, <1>9, <1>10, <1>11, <1>12 DEF Next

LEMMA InitTail == Init => TailKnown
BY GraftConstants DEF Init, TailKnown, Actors

\* backup_page_info never counts past the table, and page_replace_exit never reads
\* past it, when one sender sends: the three reads of backup_count agree.  (With
\* two senders they need not, see GraftRaced.cfg and GraftSenders.cfg.)
THEOREM CountBounded ==
  ASSUME OneSender
  PROVE  Spec => [](count <= MaxBackups)
<1>1. Init => Safe /\ TailKnown
  BY InitSafe, InitTail
<1>2. Safe /\ TailKnown /\ [Next]_vars => (Safe /\ TailKnown)'
  BY SafeNext, TailNext DEF Safe
<1>3. TailKnown => count <= MaxBackups
  BY DEF TailKnown
<1> QED BY <1>1, <1>2, <1>3, PTL DEF Spec

-----------------------------------------------------------------------------
(* UnloadInv is inductive.                                                 *)

NamedPages == \A r, s \in Slots : r[2] = s[2] => r = s

LEMMA InitUnload == Init => UnloadInv
<1> SUFFICES ASSUME Init PROVE UnloadInv
  OBVIOUS
<1>1. Grafted = {}
  BY GraftConstants DEF Init, Grafted
<1>2. Threads \subseteq Actors /\ Rmmod \in Actors
  BY DEF Actors
<1> QED BY <1>1, <1>2, InitTail DEF Init, UnloadInv, Alone, StaysErased, AllRecorded

\* While a handler runs, nothing else of the module does.
LEMMA HandlerAlone ==
  ASSUME Typed, UnloadInv, OneSender, NEW t \in Threads, pc[t] # "idle"
  PROVE  /\ module = "loaded" /\ pc[Rmmod] = "idle"
         /\ t # Rmmod /\ t \in Actors
         /\ \A u \in Actors : u = t \/ u = Rmmod
BY GraftConstants DEF Typed, TypeOK, UnloadInv, Alone, OneSender, Actors

\* So after a step of it only the table and the grafts have to be looked at.
LEMMA HandlerKeeps ==
  ASSUME Typed, UnloadInv, OneSender, NEW t \in Threads, pc[t] # "idle",
         module' = module, pc'[Rmmod] = pc[Rmmod],
         pc'[t] = "finish" => Slot(t)' \notin Grafted',
         TailKnown',
         ~dropped' => \A s \in Grafted' : \E n \in 1..count' : table'[n].live /\ table'[n].slot = s
  PROVE  UnloadInv'
<1>1. /\ module = "loaded" /\ pc[Rmmod] = "idle"
      /\ t # Rmmod /\ t \in Actors
      /\ \A u \in Actors : u = t \/ u = Rmmod
  BY HandlerAlone
<1>2. Alone'
  BY <1>1 DEF Alone
<1>4. StaysErased'
  BY <1>1 DEF StaysErased, Slot
<1>5. AllRecorded'
  BY <1>1 DEF AllRecorded, Recorded
<1> QED BY <1>2, <1>4, <1>5 DEF UnloadInv

LEMMA ReplaceUnload ==
  ASSUME Typed, UnloadInv, TailKnown', OneSender, NEW t \in Threads, ReplaceStep(t)
  PROVE  UnloadInv'
<1>1. /\ pc[t] # "idle" /\ module' = module
      /\ count \in Nat /\ count <= MaxBackups /\ MaxBackups \in Nat
      /\ table \in [1..MaxBackups -> Backup] /\ cache \in [Slots -> Content]
      /\ pc \in [Actors -> {"idle", "scan", "lookup", "delete", "insert", "record",
                            "find", "erase", "finish"}]
  BY GraftConstants DEF ReplaceStep, LookupFails, Lookup, DeleteExisting, DeleteUnmapped,
     InsertConflict, Insert, Record, RecordFails, At, Typed, TypeOK, UnloadInv, TailKnown
<1>2. /\ module = "loaded" /\ t # Rmmod /\ t \in Actors
  BY <1>1, HandlerAlone
<1>3. /\ ~dropped => \A s \in Grafted : \E n \in 1..count : table[n].live /\ table[n].slot = s
  BY DEF UnloadInv, AllRecorded, Recorded
<1>4. CASE LookupFails(t) \/ InsertConflict(t)
  <2>1. /\ pc' = [pc EXCEPT ![t] = "idle"]
        /\ UNCHANGED << cache, table, count, active, dropped >>
    BY <1>2, <1>4 DEF LookupFails, InsertConflict, Abort, tableVars
  <2> QED BY <1>1, <1>2, <1>3, <2>1, HandlerKeeps DEF Grafted
<1>5. CASE Lookup(t)
  <2>1. PICK step \in {"delete", "insert"} : pc' = [pc EXCEPT ![t] = step]
    BY <1>5 DEF Lookup
  <2> QED BY <1>1, <1>2, <1>3, <1>5, <2>1, HandlerKeeps DEF Lookup, Grafted, tableVars
<1>6. CASE DeleteExisting(t)
  <2>1. /\ pc' = [pc EXCEPT ![t] = "insert"] /\ Place(t) \in Slots
        /\ cache' = [cache EXCEPT ![Place(t)] = "hole"]
        /\ UNCHANGED << table, count, active, dropped >>
    <3>1. Slot(t) \in Slots
      BY <1>1, <1>2, <1>6, WorkFacts DEF DeleteExisting, At, Busy
    <3>2. owner \in [KernelPages -> Slots \cup {NoSlot}]
      BY DEF Typed, TypeOK
    <3> QED BY <1>6, <3>1, <3>2 DEF DeleteExisting, Place, tableVars
  <2>2. Grafted' \subseteq Grafted
    BY <1>1, <2>1, GraftConstants DEF Grafted
  <2>3. pc'[Rmmod] = pc[Rmmod] /\ pc'[t] = "insert"
    BY <1>1, <1>2, <2>1
  <2> QED BY <1>1, <1>3, <2>1, <2>2, <2>3, HandlerKeeps
<1>9. CASE DeleteUnmapped(t)
  <2>1. UNCHANGED << cache, table, count, active, dropped, pc >> /\ pc[t] = "delete"
    BY <1>9 DEF DeleteUnmapped, tableVars, At
  <2> QED BY <1>1, <1>3, <2>1, HandlerKeeps DEF Grafted
<1>7. CASE Insert(t)
  <2>1. /\ pc' = [pc EXCEPT ![t] = "record"]
        /\ UNCHANGED << cache, table, count, active, dropped >>
    BY <1>7 DEF Insert, tableVars
  <2>2. pc'[t] = "record" /\ pc'[Rmmod] = pc[Rmmod]
    BY <1>1, <1>2, <2>1
  <2> QED BY <1>1, <1>3, <2>1, <2>2, HandlerKeeps DEF Grafted
<1>8. CASE Record(t) \/ RecordFails(t)
  <2>1. pc[t] = "record" /\ BackupPageInfo(t)
    BY <1>8 DEF Record, RecordFails, At
  <2>2. pc'[Rmmod] = pc[Rmmod] /\ pc'[t] \notin {"finish", "record"}
    <3>1. PICK step \in {"idle", "lookup"} : pc' = [pc EXCEPT ![t] = step]
      BY <1>2, <1>8 DEF Record, RecordFails, Advance, Abort
    <3> QED BY <1>1, <1>2, <3>1
  <2>3. Grafted' \subseteq Grafted \cup {Slot(t)}
    BY <1>1, <1>8 DEF Record, RecordFails, Grafted
  <2>5. ASSUME ~dropped', NEW s \in Grafted'
        PROVE  \E n \in 1..count' : table'[n].live /\ table'[n].slot = s
    <3>1. /\ count < MaxBackups /\ count' = count + 1 /\ dropped' = dropped
          /\ table' = [table EXCEPT ![count + 1] = [slot |-> Slot(t), live |-> TRUE]]
      BY <2>1, <2>5, BackupKnown DEF UnloadInv
    <3>2. count + 1 \in 1..count' /\ table'[count + 1] = [slot |-> Slot(t), live |-> TRUE]
      BY <1>1, <3>1
    <3>3. CASE s = Slot(t)
      BY <3>2, <3>3
    <3>4. CASE s # Slot(t)
      <4>1. PICK n \in 1..count : table[n].live /\ table[n].slot = s
        BY <1>3, <2>3, <2>5, <3>1, <3>4
      <4>2. n \in 1..count' /\ n \in 1..MaxBackups /\ n # count + 1
        BY <1>1, <3>1
      <4>3. table'[n] = table[n]
        BY <1>1, <3>1, <4>2
      <4> QED BY <4>1, <4>2, <4>3
    <3> QED BY <3>3, <3>4
  <2> QED BY <1>1, <2>2, <2>5, HandlerKeeps
<1> QED BY <1>4, <1>5, <1>6, <1>7, <1>8, <1>9 DEF ReplaceStep

\* With pages named by their index, clear_backup_info clears no backup but those
\* of the page itself.
LEMMA ClearsOwn ==
  ASSUME Typed, TailKnown, NamedPages, NEW r \in Slots, NEW n \in 1..count,
         table[n].live, table[n].slot # r
  PROVE  ClearBackup(r[2])[n] = table[n]
<1>1. n \in 1..MaxBackups /\ table \in [1..MaxBackups -> Backup] /\ table[n].slot \in Slots
  BY GraftConstants DEF Typed, TypeOK, TableOK, TailKnown
<1>2. table[n].slot[2] # r[2]
  BY <1>1 DEF NamedPages
<1>3. FindBackup(r[2]) # n
  BY <1>1, <1>2, FindFacts
<1> QED BY <1>1, <1>3 DEF ClearBackup

LEMMA RestoreUnload ==
  ASSUME Typed, UnloadInv, TailKnown', OneSender, NamedPages, NEW t \in Threads, RestoreStep(t), LeakBound = 0
  PROVE  UnloadInv'
<1>1. /\ pc[t] # "idle" /\ Busy(t) /\ module' = module
      /\ table \in [1..MaxBackups -> Backup] /\ cache \in [Slots -> Content]
      /\ pc \in [Actors -> {"idle", "scan", "lookup", "delete", "insert", "record",
                            "find", "erase", "finish"}]
  BY DEF RestoreStep, FindBackupFails, Find, EraseNothing, Erase, EraseFails, Finish,
     At, Typed, TypeOK, Busy
<1>2. module = "loaded" /\ t # Rmmod /\ t \in Actors
  BY <1>1, HandlerAlone
<1>3. /\ ~dropped => \A s \in Grafted : \E n \in 1..count : table[n].live /\ table[n].slot = s
      /\ pc[t] = "finish" => Slot(t) \notin Grafted
  BY <1>2 DEF UnloadInv, AllRecorded, Recorded, StaysErased
<1>4. Slot(t) \in Slots
  BY <1>1, <1>2, WorkFacts
<1>5. CASE FindBackupFails(t)
  <2>1. /\ pc' = [pc EXCEPT ![t] = "idle"]
        /\ UNCHANGED << cache, table, count, active, dropped >>
    BY <1>2, <1>5 DEF FindBackupFails, Abort, tableVars
  <2> QED BY <1>1, <1>2, <1>3, <2>1, HandlerKeeps DEF Grafted
<1>6. CASE Find(t) \/ EraseNothing(t)
  <2>1. /\ pc' = [pc EXCEPT ![t] = "erase"] \/ (pc' = pc /\ pc[t] = "erase")
        /\ UNCHANGED << cache, table, count, active, dropped >>
    BY <1>6 DEF Find, EraseNothing, At, tableVars
  <2>2. pc'[Rmmod] = pc[Rmmod] /\ pc'[t] = "erase"
    <3>1. CASE pc' = [pc EXCEPT ![t] = "erase"]
      BY <1>1, <1>2, <3>1
    <3> QED BY <2>1, <3>1
  <2> QED BY <1>1, <1>3, <2>1, <2>2, HandlerKeeps DEF Grafted
<1>7. CASE Erase(t)
  <2>1. /\ pc' = [pc EXCEPT ![t] = "finish"] /\ cache' = [cache EXCEPT ![Slot(t)] = "hole"]
        /\ UNCHANGED << table, count, active, dropped, file, todo >>
    BY <1>7 DEF Erase, tableVars
  <2>2. pc'[Rmmod] = pc[Rmmod] /\ pc'[t] = "finish"
    BY <1>1, <1>2, <2>1
  <2>3. Slot(t)' = Slot(t)
    BY <2>1 DEF Slot
  <2>4. Grafted' = Grafted \ {Slot(t)}
    BY <1>1, <1>4, <2>1, GraftConstants DEF Grafted
  <2> QED BY <1>1, <1>3, <2>1, <2>2, <2>3, <2>4, HandlerKeeps
<1>8. ~EraseFails(t)
  BY DEF EraseFails
<1>9. CASE Finish(t)
  <2>1. /\ table' = ClearBackup(Slot(t)[2]) /\ Slot(t) \notin Grafted
        /\ UNCHANGED << cache, count, active, dropped >>
    BY <1>3, <1>9 DEF Finish, At
  <2>2. PICK step \in {"idle", "find"} : pc' = [pc EXCEPT ![t] = step]
    BY <1>2, <1>9 DEF Finish, Advance
  <2>3. pc'[Rmmod] = pc[Rmmod] /\ pc'[t] \in {"idle", "find"}
    BY <1>1, <1>2, <2>2
  <2>4. ASSUME ~dropped', NEW s \in Grafted'
        PROVE  \E n \in 1..count' : table'[n].live /\ table'[n].slot = s
    <3>1. s \in Grafted /\ s # Slot(t)
      BY <2>1, <2>4 DEF Grafted
    <3>2. PICK n \in 1..count : table[n].live /\ table[n].slot = s
      BY <1>3, <2>1, <2>4, <3>1
    <3>3. table'[n] = table[n]
      BY <1>4, <2>1, <3>1, <3>2, ClearsOwn DEF UnloadInv
    <3> QED BY <2>1, <3>2, <3>3
  <2> QED BY <1>1, <1>3, <2>1, <2>3, <2>4, HandlerKeeps
<1> QED BY <1>5, <1>6, <1>7, <1>8, <1>9 DEF RestoreStep

\* The unload: every backup the loop has passed is restored or is the one at hand.
LEMMA ExitUnload ==
  ASSUME Typed, UnloadInv, TailKnown', OneSender, NamedPages, LeakBound = 0,
         RestoreStep(Rmmod) \/ ExitScan \/ ExitScanPast \/ ExitDone
  PROVE  UnloadInv'
<1>1. /\ pc[Rmmod] # "idle"
      /\ table \in [1..MaxBackups -> Backup] /\ cache \in [Slots -> Content]
      /\ count \in 0..MaxBackups /\ cursor \in 1..(MaxBackups + 1) /\ MaxBackups \in Nat
      /\ pc \in [Actors -> {"idle", "scan", "lookup", "delete", "insert", "record",
                            "find", "erase", "finish"}]
      /\ Rmmod \in Actors /\ Rmmod \notin Threads
      /\ Actors = Threads \cup {Rmmod}
  BY GraftConstants DEF RestoreStep, FindBackupFails, Find, EraseNothing, Erase,
     EraseFails, Finish, ExitScan, ExitScanPast, ExitDone, At, Typed, TypeOK, Actors,
     UnloadInv, TailKnown
<1>2. /\ module = "leaving" /\ \A t \in Threads : pc[t] = "idle"
      /\ count > 0 => active
      /\ pc[Rmmod] = "finish" => Slot(Rmmod) \notin Grafted
      /\ ~dropped => \A s \in Grafted : Recorded(s)
  BY <1>1 DEF UnloadInv, Alone, TailKnown, AllRecorded, StaysErased
<1>3. Busy(Rmmod) => Slot(Rmmod) \in Slots
  BY <1>1, WorkFacts
\* The handlers stay idle; what is left to show of a step of the unload.
<1>4. ASSUME module' = "leaving", \A t \in Threads : pc'[t] = pc[t],
             UNCHANGED << count, active, dropped >>,
             pc'[Rmmod] = "finish" => Slot(Rmmod)' \notin Grafted',
             ~dropped => \A s \in Grafted' : Recorded(s)'
      PROVE  UnloadInv'
  <2>1. Alone'
    BY <1>2, <1>4 DEF Alone
  <2>2. StaysErased'
    BY <1>1, <1>2, <1>4 DEF StaysErased, Slot
  <2>3. AllRecorded'
    BY <1>4 DEF AllRecorded
  <2> QED BY <2>1, <2>2, <2>3 DEF UnloadInv
<1>5. CASE FindBackupFails(Rmmod)
  <2>1. /\ pc[Rmmod] = "find" /\ (Restorable(Rmmod) => FindBackup(Slot(Rmmod)[2]) = 0)
        /\ pc' = [pc EXCEPT ![Rmmod] = "scan"]
        /\ UNCHANGED << module, cache, table, count, active, dropped, cursor >>
    BY <1>5 DEF FindBackupFails, At, Abort, tableVars
  <2>2. pc'[Rmmod] = "scan" /\ \A t \in Threads : pc'[t] = pc[t]
    BY <1>1, <2>1
  <2>3. ASSUME ~dropped, NEW s \in Grafted PROVE Recorded(s)'
    <3>1. PICK n \in 1..count :
            /\ table[n].live /\ table[n].slot = s
            /\ n >= cursor \/ Slot(Rmmod) = s
      BY <1>2, <2>3 DEF Recorded
    <3>2. Slot(Rmmod) # s
      <4>1. SUFFICES ASSUME Slot(Rmmod) = s PROVE FALSE
        OBVIOUS
      <4>2. n \in LiveAt(Slot(Rmmod)[2])
        BY <1>1, <3>1, <4>1 DEF LiveAt
      <4>3. FindBackup(Slot(Rmmod)[2]) # 0
        BY <4>2, FindFacts
      <4> QED BY <1>1, <1>2, <2>1, <3>1, <4>3 DEF Restorable
    <3> QED BY <2>1, <3>1, <3>2 DEF Recorded
  <2> QED BY <1>2, <1>4, <2>1, <2>2, <2>3 DEF Grafted
<1>6. CASE Find(Rmmod) \/ EraseNothing(Rmmod)
  <2>1. /\ pc[Rmmod] \in {"find", "erase"}
        /\ pc' = [pc EXCEPT ![Rmmod] = "erase"] \/ (pc' = pc /\ pc[Rmmod] = "erase")
        /\ UNCHANGED << module, cache, table, count, active, dropped, cursor, file, todo >>
    BY <1>6 DEF Find, EraseNothing, At, tableVars
  <2>2. pc'[Rmmod] = "erase" /\ \A t \in Threads : pc'[t] = pc[t]
    BY <1>1, <2>1
  <2>3. Slot(Rmmod)' = Slot(Rmmod)
    BY <2>1 DEF Slot
  <2>4. ASSUME ~dropped, NEW s \in Grafted PROVE Recorded(s)'
    BY <1>2, <2>1, <2>2, <2>3, <2>4 DEF Recorded
  <2> QED BY <1>2, <1>4, <2>1, <2>2, <2>4 DEF Grafted
<1>7. CASE Erase(Rmmod)
  <2>1. /\ pc[Rmmod] = "erase" /\ pc' = [pc EXCEPT ![Rmmod] = "finish"]
        /\ cache' = [cache EXCEPT ![Slot(Rmmod)] = "hole"]
        /\ UNCHANGED << module, table, count, active, dropped, cursor, file, todo >>
    BY <1>7 DEF Erase, At, tableVars
  <2>2. pc'[Rmmod] = "finish" /\ \A t \in Threads : pc'[t] = pc[t]
    BY <1>1, <2>1
  <2>3. Slot(Rmmod)' = Slot(Rmmod) /\ Slot(Rmmod) \in Slots
    BY <1>3, <2>1 DEF Slot, Busy
  <2>4. Grafted' = Grafted \ {Slot(Rmmod)}
    BY <1>1, <2>1, <2>3, GraftConstants DEF Grafted
  <2>5. ASSUME ~dropped, NEW s \in Grafted' PROVE Recorded(s)'
    BY <1>2, <2>1, <2>4, <2>5 DEF Recorded
  <2> QED BY <1>2, <1>4, <2>1, <2>2, <2>3, <2>4, <2>5
<1>8. CASE Finish(Rmmod)
  <2>1. /\ pc[Rmmod] = "finish" /\ pc' = [pc EXCEPT ![Rmmod] = "scan"]
        /\ table' = ClearBackup(Slot(Rmmod)[2])
        /\ Slot(Rmmod) \notin Grafted
        /\ UNCHANGED << module, cache, count, active, dropped, cursor >>
    BY <1>2, <1>8 DEF Finish, Advance, At
  <2>2. pc'[Rmmod] = "scan" /\ (\A t \in Threads : pc'[t] = pc[t]) /\ Slot(Rmmod) \in Slots
    BY <1>1, <1>3, <2>1 DEF Busy
  <2>3. ASSUME ~dropped, NEW s \in Grafted PROVE Recorded(s)'
    <3>1. PICK n \in 1..count : table[n].live /\ table[n].slot = s /\ n >= cursor
      BY <1>2, <2>1, <2>3 DEF Recorded
    <3>2. table'[n] = table[n]
      BY <2>1, <2>2, <2>3, <3>1, ClearsOwn DEF UnloadInv
    <3> QED BY <2>1, <3>1, <3>2 DEF Recorded
  <2> QED BY <1>2, <1>4, <2>1, <2>2, <2>3 DEF Grafted
<1>9. ~EraseFails(Rmmod)
  BY DEF EraseFails
<1>10. CASE ExitScan
  <2>1. /\ pc[Rmmod] = "scan" /\ cursor' = cursor + 1 /\ cursor \in 1..MaxBackups
        /\ UNCHANGED << module, cache, table, count, active, dropped >>
    BY <1>1, <1>10 DEF ExitScan, At, tableVars, ScanDone
  <2>2. pc'[Rmmod] \in {"scan", "find"} /\ \A t \in Threads : pc'[t] = pc[t]
    <3>1. CASE table[cursor].live
      BY <1>1, <1>10, <3>1 DEF ExitScan
    <3>2. CASE ~table[cursor].live
      BY <1>10, <2>1, <3>2 DEF ExitScan
    <3> QED BY <3>1, <3>2
  <2>3. ASSUME ~dropped, NEW s \in Grafted PROVE Recorded(s)'
    <3>1. PICK n \in 1..count : table[n].live /\ table[n].slot = s /\ n >= cursor
      BY <1>2, <2>1, <2>3 DEF Recorded
    <3>2. CASE n = cursor
      <4>1. s \in Files \X Nat
        BY GraftConstants, <2>3 DEF Grafted
      <4>2. /\ pc' = [pc EXCEPT ![Rmmod] = "find"]
            /\ file' = [file EXCEPT ![Rmmod] = s[1]]
            /\ todo' = [todo EXCEPT ![Rmmod] = << [index |-> s[2], page |-> NoPage] >>]
        BY <1>10, <3>1, <3>2 DEF ExitScan
      <4>3. pc'[Rmmod] = "find" /\ file'[Rmmod] = s[1] /\ Head(todo'[Rmmod]).index = s[2]
        BY <1>1, <4>2 DEF Typed, TypeOK
      <4>4. Slot(Rmmod)' = s
        BY <4>1, <4>3 DEF Slot
      <4> QED BY <2>1, <3>1, <4>3, <4>4 DEF Recorded
    <3>3. CASE n # cursor
      <4>1. n >= cursor'
        BY <1>1, <2>1, <3>1, <3>3
      <4> QED BY <2>1, <3>1, <4>1 DEF Recorded
    <3> QED BY <3>2, <3>3
  <2> QED BY <1>2, <1>4, <2>1, <2>2, <2>3 DEF Grafted
<1>12. ~ExitScanPast
  BY <1>1 DEF ExitScanPast, ScanDone
<1>11. CASE ExitDone
  <2>1. /\ pc[Rmmod] = "scan" /\ ~(active /\ cursor <= count)
        /\ module' = "out" /\ pc' = [pc EXCEPT ![Rmmod] = "idle"] /\ count' = 0
        /\ UNCHANGED << cache, dropped >>
    BY <1>11 DEF ExitDone, At, ScanDone
  <2>2. ~dropped => Grafted = {}
    <3>1. ASSUME ~dropped, NEW s \in Grafted PROVE FALSE
      <4>1. PICK n \in 1..count : n >= cursor
        BY <1>2, <2>1, <3>1 DEF Recorded
      <4> QED BY <1>1, <1>2, <2>1, <4>1
    <3> QED BY <3>1
  <2>3. \A a \in Actors : pc'[a] = "idle"
    BY <1>1, <1>2, <2>1
  <2>4. Alone' /\ StaysErased'
    BY <1>1, <2>1, <2>3 DEF Alone, StaysErased
  <2>5. AllRecorded'
    BY <2>1, <2>2 DEF AllRecorded, Grafted
  <2> QED BY <2>4, <2>5 DEF UnloadInv
<1> QED BY <1>5, <1>6, <1>7, <1>8, <1>9, <1>10, <1>11, <1>12 DEF RestoreStep

LEMMA ModuleUnload ==
  ASSUME Typed, UnloadInv, TailKnown', OneSender,
         \/ ModuleInit \/ ModuleExit
         \/ \E t \in Threads, b \in Batches : ReceiveReplace(t, b) \/ ReceiveRestore(t, b)
  PROVE  UnloadInv'
<1>1. /\ Actors = Threads \cup {Rmmod} /\ Rmmod \notin Threads
      /\ count \in Nat
      /\ pc \in [Actors -> {"idle", "scan", "lookup", "delete", "insert", "record",
                            "find", "erase", "finish"}]
  BY GraftConstants DEF Actors, Typed, TypeOK
<1>2. CASE ModuleInit
  <2>1. /\ module = "out" /\ module' = "loaded" /\ count' = 0
        /\ UNCHANGED << cache, pc, file, todo, dropped >>
        /\ \A a \in Actors : pc[a] = "idle"
    BY <1>1, <1>2 DEF ModuleInit, InState, UnloadInv, Alone
  <2>2. ~dropped => Grafted = {}
    BY <2>1 DEF UnloadInv, AllRecorded
  <2> QED BY <1>1, <2>1, <2>2 DEF UnloadInv, Alone, StaysErased, AllRecorded, Grafted
<1>3. CASE ModuleExit
  <2>1. /\ module = "loaded" /\ module' = "leaving" /\ cursor' = 1
        /\ pc' = [pc EXCEPT ![Rmmod] = "scan"]
        /\ UNCHANGED << cache, table, count, active, dropped >>
        /\ \A t \in Threads : pc[t] = "idle"
    BY <1>3 DEF ModuleExit, InState, tableVars
  <2>2. pc'[Rmmod] = "scan" /\ \A t \in Threads : pc'[t] = "idle"
    BY <1>1, <2>1
  <2>3. Alone' /\ StaysErased'
    BY <1>1, <2>1, <2>2 DEF UnloadInv, Alone, StaysErased
  <2>4. AllRecorded'
    BY <2>1 DEF UnloadInv, AllRecorded, Recorded, Grafted
  <2> QED BY <2>3, <2>4 DEF UnloadInv
<1>4. CASE \E t \in Threads, b \in Batches : ReceiveReplace(t, b) \/ ReceiveRestore(t, b)
  <2>1. PICK t \in Threads, step \in {"lookup", "find"} :
          /\ module = "loaded" /\ pc' = [pc EXCEPT ![t] = step]
          /\ UNCHANGED << module, cache, table, count, active, dropped >>
    BY <1>4 DEF ReceiveReplace, ReceiveRestore, InState, tableVars
  <2>2. pc'[Rmmod] = pc[Rmmod] /\ pc'[t] \in {"lookup", "find"} /\ \A u \in Threads : u = t
    BY <1>1, <2>1 DEF OneSender
  <2>3. Alone' /\ StaysErased'
    BY <1>1, <2>1, <2>2 DEF UnloadInv, Alone, StaysErased
  <2>4. AllRecorded'
    BY <2>1 DEF UnloadInv, AllRecorded, Recorded, Grafted
  <2> QED BY <2>3, <2>4 DEF UnloadInv
<1> QED BY <1>2, <1>3, <1>4

\* A page read from disk or reclaimed is no graft.
LEMMA KernelUnload ==
  ASSUME Typed, UnloadInv, NEW s \in Slots, PageFault(s) \/ Reclaim(s)
  PROVE  UnloadInv'
<1>1. Grafted' \subseteq Grafted
  <2>1. cache \in [Slots -> Content]
    BY DEF Typed, TypeOK
  <2>2. PICK c \in {"original", "hole", "shadow"} : cache' = [cache EXCEPT ![s] = c]
    BY DEF PageFault, Reclaim
  <2> QED BY <2>1, <2>2, GraftConstants DEF Grafted
<1>2. UNCHANGED << module, table, count, active, pc, file, todo, seen, cursor, dropped >>
  BY DEF PageFault, Reclaim, tableVars
<1> QED BY <1>1, <1>2 DEF UnloadInv, Alone, TailKnown, StaysErased, AllRecorded, Recorded, Slot

LEMMA UnloadStep ==
  ASSUME OneSender, NamedPages, LeakBound = 0, Typed, UnloadInv, [Next]_vars
  PROVE  Typed' /\ UnloadInv'
<1>1. Typed'
  BY NextTyped
<1>4. TailKnown'
  BY TailNext DEF UnloadInv
<1>2. CASE UNCHANGED vars
  BY <1>1, <1>2 DEF vars, UnloadInv, Alone, TailKnown, StaysErased, AllRecorded, Recorded,
     Grafted, Slot
<1>3. CASE \E a \in Actors : RestoreStep(a)
  BY <1>1, <1>3, <1>4, RestoreUnload, ExitUnload DEF Actors
<1> QED BY <1>1, <1>2, <1>3, <1>4, ReplaceUnload, ExitUnload, ModuleUnload, KernelUnload DEF Next

LEMMA UnloadInvariant ==
  ASSUME OneSender, NamedPages, LeakBound = 0
  PROVE  Spec => [](Typed /\ UnloadInv)
<1>1. Init => Typed /\ UnloadInv
  BY InitTyped, InitUnload
<1>2. Typed /\ UnloadInv /\ [Next]_vars => (Typed /\ UnloadInv)'
  BY UnloadStep
<1> QED BY <1>1, <1>2, PTL DEF Spec

\* With one sender, and pages that their index tells apart, a kernel page is never
\* in a page cache without a record that restore_page_cache or page_replace_exit
\* finds, unless backup_page_info dropped a record of a full table: whatever was
\* sent, in any order, however often, and whichever of its steps failed.  What is
\* assumed besides is that xas_store(NULL) does not fail (LeakBound = 0).
THEOREM GraftsRecorded ==
  ASSUME OneSender, NamedPages, LeakBound = 0
  PROVE  Spec => []GraftRecorded
<1>1. Typed /\ UnloadInv => GraftRecorded
  <2> SUFFICES ASSUME Typed, UnloadInv, ~dropped, NEW s \in Grafted
               PROVE  \E n \in 1..MaxBackups : n <= count /\ table[n].live /\ table[n].slot = s
    BY DEF GraftRecorded, LiveFor
  <2>1. PICK n \in 1..count : table[n].live /\ table[n].slot = s
    BY DEF UnloadInv, AllRecorded, Recorded
  <2>2. count \in Nat /\ MaxBackups \in Nat /\ count <= MaxBackups
    BY GraftConstants DEF Typed, TypeOK, UnloadInv, TailKnown
  <2> QED BY <2>1, <2>2
<1>2. Spec => [](Typed /\ UnloadInv)
  BY UnloadInvariant
<1> QED BY <1>1, <1>2, PTL

\* Under the same hypotheses no page cache shows kernel code once the module is
\* out: page_replace_exit restores every graft whose record was not dropped.
THEOREM UnloadCorrect ==
  ASSUME OneSender, NamedPages, LeakBound = 0
  PROVE  Spec => []UnloadRestoresRecorded
<1>1. Typed /\ UnloadInv => UnloadRestoresRecorded
  BY DEF UnloadInv, AllRecorded, UnloadRestoresRecorded, UnloadRestores
<1>2. Spec => [](Typed /\ UnloadInv)
  BY UnloadInvariant
<1> QED BY <1>1, <1>2, PTL

-----------------------------------------------------------------------------
(* The module implements GraftService.                                     *)

LEMMA InitService == Init => Service!Init
<1> SUFFICES ASSUME Init PROVE Service!Init
  OBVIOUS
<1>1. Grafted = {}
  BY GraftConstants DEF Init, Grafted
<1> QED BY <1>1 DEF Init, Service!Init

LEMMA ReplaceService ==
  ASSUME Typed, UnloadInv, OneSender, NEW t \in Threads, ReplaceStep(t)
  PROVE  [Service!Next]_(Service!service)
<1>1. /\ pc[t] # "idle" /\ module' = module /\ Busy(t) /\ t \in Actors
      /\ cache \in [Slots -> Content]
  BY DEF ReplaceStep, LookupFails, Lookup, DeleteExisting, DeleteUnmapped, InsertConflict,
     Insert, Record, RecordFails, At, Typed, TypeOK, Busy, Actors
<1>2. module = "loaded" /\ Slot(t) \in Slots
  BY <1>1, HandlerAlone, WorkFacts
<1>3. CASE LookupFails(t) \/ Lookup(t) \/ DeleteUnmapped(t) \/ InsertConflict(t) \/ Insert(t)
  BY <1>3 DEF LookupFails, Lookup, DeleteUnmapped, InsertConflict, Insert, Grafted,
     Service!service
<1>4. CASE DeleteExisting(t)
  <2>1. /\ dropped' = dropped /\ cache' = [cache EXCEPT ![Place(t)] = "hole"]
        /\ Place(t) # NoSlot
    BY <1>4 DEF DeleteExisting
  <2>2. Place(t) \in Slots
    BY <1>2, <2>1 DEF Place, Typed, TypeOK
  <2>3. Grafted' = Grafted \ {Place(t)}
    BY <1>1, <2>1, <2>2, GraftConstants DEF Grafted
  <2>4. Service!Remove(Place(t))
    BY <1>1, <1>2, <2>1, <2>3 DEF Service!Remove
  <2> QED BY <2>2, <2>4 DEF Service!Next
<1>5. CASE Record(t) \/ RecordFails(t)
  <2>1. dropped' = dropped \/ dropped' = TRUE
    BY <1>5 DEF Record, RecordFails, BackupPageInfo, AppendRecord, WritePastTable, DropRecord
  <2>2. Grafted' = Grafted \/ Grafted' = Grafted \cup {Slot(t)}
    <3>1. CASE Record(t)
      <4>1. Page(t) \in KernelPages /\ cache' = [cache EXCEPT ![Slot(t)] = Page(t)]
        BY <3>1 DEF Record, At, Typed, StageOK
      <4> QED BY <1>1, <1>2, <4>1 DEF Grafted
    <3>2. CASE RecordFails(t)
      BY <3>2 DEF RecordFails, Grafted
    <3> QED BY <1>5, <3>1, <3>2
  <2>3. Service!Graft(Slot(t))
    BY <1>1, <1>2, <2>1, <2>2 DEF Service!Graft
  <2> QED BY <1>2, <2>3 DEF Service!Next
<1> QED BY <1>3, <1>4, <1>5 DEF ReplaceStep

LEMMA RestoreService ==
  ASSUME Typed, UnloadInv, OneSender, NEW a \in Actors, RestoreStep(a)
  PROVE  [Service!Next]_(Service!service)
<1>1. /\ pc[a] # "idle" /\ module' = module /\ Busy(a) /\ dropped' = dropped
      /\ cache \in [Slots -> Content]
  BY DEF RestoreStep, FindBackupFails, Find, EraseNothing, Erase, EraseFails, Finish,
     At, Typed, TypeOK, Busy
<1>2. Slot(a) \in Slots
  BY <1>1, WorkFacts
<1>3. CASE FindBackupFails(a) \/ Find(a) \/ EraseNothing(a) \/ EraseFails(a) \/ Finish(a)
  BY <1>1, <1>3 DEF FindBackupFails, Find, EraseNothing, EraseFails, Finish, Grafted,
     Service!service
<1>4. CASE Erase(a)
  <2>1. module \in {"loaded", "leaving"}
    BY <1>1, GraftConstants DEF UnloadInv, Alone, Typed, TypeOK, Actors
  <2>2. Grafted' = Grafted \ {Slot(a)}
    BY <1>1, <1>2, <1>4, GraftConstants DEF Erase, Grafted
  <2>3. Service!Remove(Slot(a))
    BY <1>1, <2>1, <2>2 DEF Service!Remove
  <2> QED BY <1>2, <2>3 DEF Service!Next
<1> QED BY <1>3, <1>4 DEF RestoreStep

LEMMA ModuleService ==
  ASSUME Typed, UnloadInv,
         \/ ModuleInit \/ ModuleExit \/ ExitScan \/ ExitScanPast \/ ExitDone
         \/ \E t \in Threads, b \in Batches : ReceiveReplace(t, b) \/ ReceiveRestore(t, b)
         \/ \E s \in Slots : PageFault(s) \/ Reclaim(s)
  PROVE  [Service!Next]_(Service!service)
<1>1. dropped' = dropped
  BY DEF ModuleInit, ModuleExit, ExitScan, ExitScanPast, ExitDone, ReceiveReplace, ReceiveRestore,
     PageFault, Reclaim
<1>2. CASE ModuleInit
  BY <1>1, <1>2 DEF ModuleInit, InState, Grafted, Service!Next, Service!Load
<1>3. CASE ModuleExit
  BY <1>1, <1>3 DEF ModuleExit, InState, Grafted, Service!Next, Service!StartUnload
<1>4. CASE ExitScan \/ ExitScanPast
  BY <1>4 DEF ExitScan, ExitScanPast, Grafted, Service!service
<1>5. CASE ExitDone
  <2>1. /\ pc[Rmmod] = "scan" /\ ~(active /\ cursor <= count) /\ module' = "out"
        /\ cache' = cache
    BY <1>5 DEF ExitDone, At, ScanDone
  <2>2. module = "leaving"
    BY <2>1 DEF UnloadInv, Alone
  <2>3. ~dropped => Grafted = {}
    <3>1. ASSUME ~dropped, NEW s \in Grafted PROVE FALSE
      <4>1. PICK n \in 1..count : n >= cursor
        BY <2>1, <2>2, <3>1 DEF UnloadInv, AllRecorded, Recorded
      <4> QED BY <2>1, <4>1 DEF UnloadInv, TailKnown, Typed, TypeOK
    <3> QED BY <3>1
  <2>4. dropped \in BOOLEAN
    BY DEF Typed, TypeOK
  <2> QED BY <1>1, <2>1, <2>2, <2>3, <2>4 DEF Grafted, Service!Next, Service!EndUnload
<1>6. CASE \E t \in Threads, b \in Batches : ReceiveReplace(t, b) \/ ReceiveRestore(t, b)
  BY <1>6 DEF ReceiveReplace, ReceiveRestore, Grafted, Service!service
<1>7. CASE \E s \in Slots : PageFault(s) \/ Reclaim(s)
  <2>1. PICK s \in Slots : PageFault(s) \/ Reclaim(s)
    BY <1>7
  <2>2. /\ cache \in [Slots -> Content] /\ cache[s] \notin KernelPages
        /\ UNCHANGED << module, dropped >>
    BY <2>1, GraftConstants DEF PageFault, Reclaim, IsPage, Typed, TypeOK
  <2>3. PICK c \in {"original", "hole", "shadow"} : cache' = [cache EXCEPT ![s] = c]
    BY <2>1 DEF PageFault, Reclaim
  <2>4. Grafted' = Grafted
    BY <2>2, <2>3, GraftConstants DEF Grafted
  <2> QED BY <2>2, <2>4 DEF Service!service
<1> QED BY <1>2, <1>3, <1>4, <1>5, <1>6, <1>7

\* Under the same hypotheses the kernel module implements GraftService: pages are
\* grafted only while it is loaded, and page_replace_exit ends only when none is,
\* or when a graft was dropped from the full table.
THEOREM ImplementsService ==
  ASSUME OneSender, NamedPages, LeakBound = 0
  PROVE  Spec => KeepsService
<1>1. Init => Typed /\ UnloadInv /\ Service!Init
  BY InitTyped, InitUnload, InitService
<1>2. Typed /\ UnloadInv /\ [Next]_vars => (Typed /\ UnloadInv)'
  BY UnloadStep
<1>3. Typed /\ UnloadInv /\ [Next]_vars => [Service!Next]_(Service!service)
  <2> SUFFICES ASSUME Typed, UnloadInv, [Next]_vars
               PROVE  [Service!Next]_(Service!service)
    OBVIOUS
  <2>1. CASE UNCHANGED vars
    BY <2>1 DEF vars, Grafted, Service!service
  <2> QED BY <2>1, ReplaceService, RestoreService, ModuleService DEF Next
<1> QED BY <1>1, <1>2, <1>3, PTL DEF Spec, KeepsService, Service!Spec

-----------------------------------------------------------------------------
(* A session of one sender: what a live backup stands for.                 *)

\* No message names a page twice.
DistinctPages ==
  \A b \in Batches : \A m, n \in 1..Len(b.pages) : b.pages[m].index = b.pages[n].index => m = n

\* A page has at most one live backup.
OneBackup ==
  \A m, n \in 1..count :
    table[m].live /\ table[n].live /\ table[m].slot = table[n].slot => m = n

\* The pages a replace message still has to graft: two by two different, and
\* without a live backup.
Fresh(t) ==
  /\ \A n \in 1..Len(todo[t]) : LiveFor(<< file[t], todo[t][n].index >>) = {}
  /\ \A m, n \in 1..Len(todo[t]) : todo[t][m].index = todo[t][n].index => m = n
ReplacesFresh ==
  \A t \in Threads : pc[t] \in {"lookup", "delete", "insert", "record"} => Fresh(t)

\* The page that was looked up is still there and still says so when it is deleted.
StillCached(t) ==
  /\ IsPage(held[t]) /\ cache[Slot(t)] = held[t]
  /\ held[t] \in KernelPages => owner[held[t]] = Slot(t)
DeletesCached == \A t \in Threads : pc[t] = "delete" => StillCached(t)

\* The page whose backup was found is grafted.
ErasesGraft == \A a \in Actors : pc[a] = "erase" => Slot(a) \in Grafted

SessionInv ==
  /\ BackupIsGraft /\ OneBackup /\ ReplacesFresh /\ DeletesCached /\ ErasesGraft
  /\ RestoreErasesCode /\ NoOops

\* What one actor has to keep, the others being idle.
LEMMA SessionKept ==
  ASSUME NEW a \in Actors, \A u \in Actors \ {a} : pc'[u] = "idle",
         ~oops',
         \A n \in 1..count' : table'[n].live =>
           table'[n].slot \in Grafted' \/ (pc'[a] = "finish" /\ Slot(a)' = table'[n].slot),
         OneBackup',
         a \in Threads /\ pc'[a] \in {"lookup", "delete", "insert", "record"} => Fresh(a)',
         a \in Threads /\ pc'[a] = "delete" => StillCached(a)',
         pc'[a] = "erase" => Slot(a)' \in Grafted',
         pc'[a] = "finish" => held'[a] \in KernelPages
  PROVE  SessionInv'
<1>1. \A u \in Actors : pc'[u] # "idle" => u = a
  OBVIOUS
<1>2. Threads \subseteq Actors
  BY DEF Actors
<1>3. BackupIsGraft'
  BY DEF BackupIsGraft
<1>4. ReplacesFresh' /\ DeletesCached'
  BY <1>1, <1>2 DEF ReplacesFresh, DeletesCached
<1>5. ErasesGraft' /\ RestoreErasesCode' /\ NoOops'
  BY <1>1 DEF ErasesGraft, RestoreErasesCode, NoOops
<1> QED BY <1>3, <1>4, <1>5 DEF SessionInv

\* The records of a table that was not passed.
LEMMA LiveCounted ==
  ASSUME count \in 0..MaxBackups, MaxBackups \in Nat
  PROVE  /\ \A n : n \in 1..count <=> n \in 1..MaxBackups /\ n <= count
         /\ \A s : \A n \in 1..count : table[n].live /\ table[n].slot = s => n \in LiveFor(s)
<1>1. \A n : n \in 1..count <=> n \in 1..MaxBackups /\ n <= count
  OBVIOUS
<1> QED BY <1>1 DEF LiveFor

LEMMA FreshKept ==
  ASSUME NEW t \in Threads, Fresh(t), UNCHANGED << table, count, todo, file >>
  PROVE  Fresh(t)'
BY DEF Fresh, LiveFor

\* Fresh(t)', spelled out.
LEMMA FreshNext ==
  ASSUME NEW t \in Threads,
         \A n \in 1..Len(todo'[t]), m \in 1..MaxBackups :
           m <= count' /\ table'[m].live => table'[m].slot # << file'[t], todo'[t][n].index >>,
         \A m, n \in 1..Len(todo'[t]) : todo'[t][m].index = todo'[t][n].index => m = n
  PROVE  Fresh(t)'
BY DEF Fresh, LiveFor

LEMMA ReplaceSession ==
  ASSUME Typed, Alone, TailKnown, OwnerCoherent, OneSender, ~InsertMayFail, SessionInv,
         NEW t \in Threads, ReplaceStep(t)
  PROVE  SessionInv'
<1>0. /\ t \in Actors /\ t # Rmmod
      /\ cache \in [Slots -> Content] /\ table \in [1..MaxBackups -> Backup]
      /\ count \in 0..MaxBackups /\ MaxBackups \in Nat
      /\ owner \in [KernelPages -> Slots \cup {NoSlot}]
      /\ pc \in [Actors -> {"idle", "scan", "lookup", "delete", "insert", "record",
                            "find", "erase", "finish"}]
      /\ todo \in [Actors -> Seq(PageRequest)]
  BY GraftConstants DEF Actors, Typed, TypeOK, TailKnown
<1>1. /\ pc[t] \in {"lookup", "delete", "insert", "record"} /\ Busy(t) /\ file' = file /\ ~oops
      /\ module' = module
  BY DEF ReplaceStep, LookupFails, Lookup, DeleteExisting, DeleteUnmapped, InsertConflict,
     Insert, Record, RecordFails, At, Busy
<1>2. /\ \A u \in Actors \ {t} : pc[u] = "idle"
      /\ Slot(t) \in Slots /\ module = "loaded"
  BY <1>0, <1>1, OthersIdle, WorkFacts DEF Alone
<1>3. /\ \A n \in 1..count : table[n].live => table[n].slot \in Grafted
      /\ OneBackup /\ Fresh(t)
      /\ pc[t] = "delete" => StillCached(t)
  <2>1. \A a \in Actors : pc[a] # "finish"
    BY <1>1, <1>2
  <2>2. \A n \in 1..count : table[n].live => table[n].slot \in Grafted
    BY <1>0, <1>2, <2>1, LiveCounted DEF SessionInv, BackupIsGraft
  <2> QED BY <1>1, <2>2 DEF SessionInv, ReplacesFresh, DeletesCached
<1>4. CASE LookupFails(t) \/ InsertConflict(t)
  <2>1. /\ UNCHANGED << cache, table, count, oops >> /\ pc'[t] = "idle"
        /\ \A u \in Actors \ {t} : pc'[u] = "idle"
    BY <1>0, <1>2, <1>4 DEF LookupFails, InsertConflict, Abort, tableVars
  <2>2. Grafted' = Grafted /\ OneBackup'
    BY <1>3, <2>1 DEF Grafted, OneBackup
  <2> QED BY <1>0, <1>1, <1>3, <2>1, <2>2, SessionKept
<1>5. CASE Lookup(t)
  <2>1. /\ UNCHANGED << cache, table, count, oops, todo, owner >>
        /\ \A u \in Actors \ {t} : pc'[u] = "idle"
        /\ \/ pc'[t] = "insert"
           \/ /\ pc'[t] = "delete" /\ IsPage(cache[Slot(t)]) /\ held'[t] = cache[Slot(t)]
              /\ cache[Slot(t)] \in KernelPages => owner[cache[Slot(t)]] = Slot(t)
    <3>1. held \in [Actors -> Holdings]
      BY DEF Typed, TypeOK
    <3>2. cache[Slot(t)] \in KernelPages => owner[cache[Slot(t)]] = Slot(t)
      BY <1>2 DEF OwnerCoherent, Grafted
    <3> QED BY <1>0, <1>2, <1>5, <3>1, <3>2 DEF Lookup, tableVars
  <2>2. Grafted' = Grafted /\ OneBackup' /\ Slot(t)' = Slot(t)
    BY <1>1, <1>3, <2>1 DEF Grafted, OneBackup, Slot
  <2>3. pc'[t] = "delete" => StillCached(t)'
    BY <2>1, <2>2 DEF StillCached
  <2>4. Fresh(t)'
    BY <1>1, <1>3, <2>1, FreshKept
  <2> QED BY <1>0, <1>1, <1>3, <2>1, <2>2, <2>3, <2>4, SessionKept
<1>6. CASE DeleteExisting(t)
  <2>1. /\ cache' = [cache EXCEPT ![Slot(t)] = "hole"]
        /\ UNCHANGED << table, count, oops, todo >>
        /\ pc'[t] = "insert" /\ \A u \in Actors \ {t} : pc'[u] = "idle"
    <3>1. Place(t) = Slot(t)
      BY <1>3, <1>6 DEF DeleteExisting, At, StillCached, Place
    <3> QED BY <1>0, <1>2, <1>6, <3>1 DEF DeleteExisting, tableVars
  <2>2. Grafted' = Grafted \ {Slot(t)} /\ OneBackup'
    BY <1>0, <1>2, <1>3, <2>1, GraftConstants DEF Grafted, OneBackup
  <2>3. LiveFor(Slot(t)) = {}
    <3>1. todo[t] # << >> /\ todo[t] \in Seq(PageRequest)
      BY <1>0, <1>1 DEF Typed, WorkOK
    <3>2. 1 \in 1..Len(todo[t]) /\ Head(todo[t]) = todo[t][1]
      BY <3>1
    <3> QED BY <1>3, <3>2 DEF Fresh, Slot
  <2>4. \A n \in 1..count' : table'[n].live => table'[n].slot \in Grafted'
    <3>1. \A n \in 1..count : table[n].live => table[n].slot # Slot(t)
      BY <1>0, <2>3, LiveCounted
    <3> QED BY <1>3, <2>1, <2>2, <3>1
  <2>5. Fresh(t)'
    BY <1>1, <1>3, <2>1, FreshKept
  <2> QED BY <1>0, <1>1, <2>1, <2>2, <2>4, <2>5, SessionKept
<1>7. CASE Insert(t)
  <2>1. /\ UNCHANGED << cache, table, count, oops, todo >>
        /\ pc'[t] = "record" /\ \A u \in Actors \ {t} : pc'[u] = "idle"
    BY <1>0, <1>2, <1>7 DEF Insert, tableVars
  <2>2. Grafted' = Grafted /\ OneBackup'
    BY <1>3, <2>1 DEF Grafted, OneBackup
  <2>3. Fresh(t)'
    BY <1>1, <1>3, <2>1, FreshKept
  <2> QED BY <1>0, <1>1, <1>3, <2>1, <2>2, <2>3, SessionKept
<1>8. CASE Record(t)
  <2>1. /\ pc[t] = "record" /\ BackupPageInfo(t)
        /\ cache' = [cache EXCEPT ![Slot(t)] = Page(t)] /\ Page(t) \in KernelPages
        /\ todo'[t] = Tail(todo[t])
    BY <1>0, <1>3, <1>8 DEF Record, At, Advance, Typed, StageOK
  <2>2. /\ pc'[t] \in {"idle", "lookup"}
        /\ \A u \in Actors \ {t} : pc'[u] = "idle"
    BY <1>0, <1>2, <1>8 DEF Record, Advance
  <2>3. Grafted' = Grafted \cup {Slot(t)}
    BY <1>0, <1>2, <2>1 DEF Grafted
  <2>4. /\ todo[t] # << >> /\ todo[t] \in Seq(PageRequest)
        /\ Len(Tail(todo[t])) = Len(todo[t]) - 1 /\ Len(todo[t]) \in Nat
        /\ 1 \in 1..Len(todo[t]) /\ Slot(t) = << file[t], todo[t][1].index >>
        /\ \A n \in 1..Len(Tail(todo[t])) : n + 1 \in 1..Len(todo[t])
                                            /\ Tail(todo[t])[n] = todo[t][n + 1]
    <3>1. todo[t] # << >> /\ todo[t] \in Seq(PageRequest)
      BY <1>0, <1>1 DEF Typed, WorkOK
    <3> QED BY <3>1 DEF Slot
  <2>5. LiveFor(Slot(t)) = {}
    BY <1>3, <2>4 DEF Fresh
  <2>6. \A k \in 1..Len(todo[t]), m \in 1..count :
          table[m].live => table[m].slot # << file[t], todo[t][k].index >>
    <3>1. \A k \in 1..Len(todo[t]) : LiveFor(<< file[t], todo[t][k].index >>) = {}
      BY <1>3 DEF Fresh
    <3> QED BY <1>0, <3>1, LiveCounted
  <2>7. \A m, n \in 1..Len(todo'[t]) : todo'[t][m].index = todo'[t][n].index => m = n
    <3> SUFFICES ASSUME NEW m \in 1..Len(todo'[t]), NEW n \in 1..Len(todo'[t]),
                        todo'[t][m].index = todo'[t][n].index
                 PROVE  m = n
      OBVIOUS
    <3>1. /\ m + 1 \in 1..Len(todo[t]) /\ n + 1 \in 1..Len(todo[t])
          /\ todo[t][m + 1].index = todo[t][n + 1].index
      BY <2>1, <2>4
    <3>2. m + 1 = n + 1
      BY <1>3, <3>1 DEF Fresh
    <3> QED BY <2>4, <3>2
  <2>8. CASE ~(count < MaxBackups)
    <3>1. UNCHANGED << table, count, oops >>
      BY <2>1, <2>8, BackupKnown
    <3>2. OneBackup' /\ \A n \in 1..count' : table'[n].live => table'[n].slot \in Grafted'
      BY <1>3, <2>3, <3>1 DEF OneBackup
    <3>3. ASSUME NEW n \in 1..Len(todo'[t]), NEW m \in 1..count', table'[m].live
          PROVE  table'[m].slot # << file'[t], todo'[t][n].index >>
      <4>1. n + 1 \in 1..Len(todo[t]) /\ todo'[t][n] = todo[t][n + 1]
        BY <2>1, <2>4
      <4> QED BY <1>1, <2>6, <3>1, <3>3, <4>1
    <3>4. Fresh(t)'
      <4>1. \A n \in 1..Len(todo'[t]), m \in 1..MaxBackups :
              m <= count' /\ table'[m].live =>
                table'[m].slot # << file'[t], todo'[t][n].index >>
        <5>1. \A m \in 1..MaxBackups : m <= count' => m \in 1..count'
          BY <1>0, <3>1
        <5> QED BY <3>3, <5>1
      <4> QED BY <2>7, <4>1, FreshNext
    <3> QED BY <1>0, <1>1, <2>2, <3>1, <3>2, <3>4, SessionKept
  <2>9. CASE count < MaxBackups
    <3>1. /\ count' = count + 1 /\ count + 1 \in 1..MaxBackups /\ oops' = oops
          /\ table' = [table EXCEPT ![count + 1] = [slot |-> Slot(t), live |-> TRUE]]
      <4>1. /\ count' = count + 1 /\ oops' = oops
            /\ table' = [table EXCEPT ![count + 1] = [slot |-> Slot(t), live |-> TRUE]]
        BY <2>1, <2>9, BackupKnown
      <4> QED BY <1>0, <2>9, <4>1
    <3>2. /\ table'[count + 1] = [slot |-> Slot(t), live |-> TRUE]
          /\ \A n \in 1..count : table'[n] = table[n]
          /\ \A n \in 1..count' : n = count + 1 \/ n \in 1..count
      BY <1>0, <3>1
    <3>3. \A n \in 1..count' : table'[n].live => table'[n].slot \in Grafted'
      BY <1>3, <2>3, <3>2
    <3>4. \A n \in 1..count : table[n].live => table[n].slot # Slot(t)
      BY <1>0, <2>5, LiveCounted
    <3>5. OneBackup'
      BY <1>3, <3>2, <3>4 DEF OneBackup
    <3>6. ASSUME NEW n \in 1..Len(todo'[t]), NEW m \in 1..count', table'[m].live
          PROVE  table'[m].slot # << file'[t], todo'[t][n].index >>
      <4>1. n + 1 \in 1..Len(todo[t]) /\ todo'[t][n] = todo[t][n + 1] /\ n + 1 # 1
        BY <2>1, <2>4
      <4>2. m \in 1..count /\ table'[m].live =>
              table'[m].slot # << file[t], todo'[t][n].index >>
        BY <2>6, <3>2, <4>1
      <4>3. todo[t][n + 1].index # todo[t][1].index
        BY <1>3, <2>4, <4>1 DEF Fresh
      <4>4. << file[t], todo'[t][n].index >> # Slot(t)
        BY <2>4, <4>1, <4>3
      <4>5. CASE m = count + 1
        <5>1. table'[m].slot = Slot(t) /\ file'[t] = file[t]
          BY <1>1, <3>2, <4>5
        <5> QED BY <4>4, <5>1
      <4>6. CASE m \in 1..count
        BY <1>1, <3>6, <4>2, <4>6
      <4> QED BY <3>2, <4>5, <4>6
    <3>7. Fresh(t)'
      <4>1. \A n \in 1..Len(todo'[t]), m \in 1..MaxBackups :
              m <= count' /\ table'[m].live =>
                table'[m].slot # << file'[t], todo'[t][n].index >>
        <5>1. \A m \in 1..MaxBackups : m <= count' => m \in 1..count'
          BY <1>0, <3>1
        <5> QED BY <3>6, <5>1
      <4> QED BY <2>7, <4>1, FreshNext
    <3> QED BY <1>0, <1>1, <2>2, <3>1, <3>3, <3>5, <3>7, SessionKept
  <2> QED BY <2>8, <2>9
<1>9. ~RecordFails(t)
  BY DEF RecordFails
<1>10. ~DeleteUnmapped(t)
  <2>1. SUFFICES ASSUME pc[t] = "delete" PROVE Place(t) # NoSlot /\ held[t] # "orphan"
    BY DEF DeleteUnmapped, At
  <2>2. IsPage(held[t]) /\ Place(t) = Slot(t)
    BY <1>3, <2>1 DEF StillCached, Place
  <2> QED BY <2>2, GraftConstants DEF IsPage, Slot, NoSlot
<1> QED BY <1>4, <1>5, <1>6, <1>7, <1>8, <1>9, <1>10 DEF ReplaceStep

LEMMA RestoreSession ==
  ASSUME Typed, Alone, TailKnown, OneSender, NamedPages, SessionInv, NEW a \in Actors, RestoreStep(a)
  PROVE  SessionInv'
<1>0. /\ cache \in [Slots -> Content] /\ table \in [1..MaxBackups -> Backup]
      /\ count \in 0..MaxBackups /\ MaxBackups \in Nat
      /\ pc \in [Actors -> {"idle", "scan", "lookup", "delete", "insert", "record",
                            "find", "erase", "finish"}]
      /\ TableOK
  BY GraftConstants DEF Typed, TypeOK, TailKnown
<1>1. /\ pc[a] \in {"find", "erase", "finish"} /\ Busy(a) /\ file' = file /\ ~oops
      /\ pc[a] # "idle" /\ UNCHANGED << module, count >>
  BY DEF RestoreStep, FindBackupFails, Find, EraseNothing, Erase, EraseFails, Finish,
     At, Busy, tableVars
<1>2. /\ \A u \in Actors \ {a} : pc[u] = "idle"
      /\ Slot(a) \in Slots
  BY <1>1, OthersIdle, WorkFacts
<1>3. /\ \A n \in 1..count : table[n].live =>
           table[n].slot \in Grafted \/ (pc[a] = "finish" /\ Slot(a) = table[n].slot)
      /\ OneBackup
      /\ pc[a] = "erase" => Slot(a) \in Grafted
      /\ pc[a] = "finish" => held[a] \in KernelPages
  <2>1. module # "out"
    BY <1>1 DEF Alone, Actors
  <2>2. \A u \in Actors : pc[u] = "finish" => u = a
    BY <1>2
  <2>3. \A n \in 1..count : n \in 1..MaxBackups /\ n <= count
    BY <1>0
  <2>4. \A n \in 1..count : table[n].live =>
          table[n].slot \in Grafted \/ (pc[a] = "finish" /\ Slot(a) = table[n].slot)
    BY <2>1, <2>2, <2>3 DEF SessionInv, BackupIsGraft
  <2> QED BY <2>4 DEF SessionInv, ErasesGraft, RestoreErasesCode
\* The record that is found is the one of the page.
<1>4. FindBackup(Slot(a)[2]) # 0 =>
        /\ FindBackup(Slot(a)[2]) \in 1..count /\ table[FindBackup(Slot(a)[2])].live
        /\ table[FindBackup(Slot(a)[2])].slot = Slot(a)
  <2> DEFINE n == FindBackup(Slot(a)[2])
  <2> SUFFICES ASSUME n # 0 PROVE n \in 1..count /\ table[n].live /\ table[n].slot = Slot(a)
    OBVIOUS
  <2>1. n \in LiveAt(Slot(a)[2])
    BY FindFacts
  <2>2. n \in 1..count /\ table[n].live /\ table[n].slot[2] = Slot(a)[2]
    BY <1>0, <2>1 DEF LiveAt
  <2>3. table[n].slot \in Slots
    BY <1>0, <2>2 DEF TableOK
  <2> QED BY <1>2, <2>2, <2>3 DEF NamedPages
<1>5. CASE FindBackupFails(a) \/ EraseFails(a)
  <2>1. /\ UNCHANGED << cache, table, count, oops >> /\ pc'[a] \in {"idle", "scan"}
        /\ \A u \in Actors \ {a} : pc'[u] = "idle"
    BY <1>0, <1>2, <1>5 DEF FindBackupFails, EraseFails, Abort, tableVars
  <2>2. Grafted' = Grafted /\ OneBackup' /\ pc[a] # "finish"
    BY <1>3, <1>5, <2>1 DEF Grafted, OneBackup, FindBackupFails, EraseFails, At
  <2> QED BY <1>1, <1>3, <2>1, <2>2, SessionKept
<1>6. CASE Find(a)
  <2>1. /\ UNCHANGED << cache, table, count, oops, todo >> /\ pc'[a] = "erase"
        /\ \A u \in Actors \ {a} : pc'[u] = "idle"
        /\ pc[a] = "find" /\ FindBackup(Slot(a)[2]) # 0
    <3>1. ~PastTable
      BY <1>0 DEF PastTable
    <3> QED BY <1>0, <1>2, <1>6, <3>1 DEF Find, At, Restorable, tableVars
  <2>2. Grafted' = Grafted /\ OneBackup' /\ Slot(a)' = Slot(a)
    BY <1>1, <1>3, <2>1 DEF Grafted, OneBackup, Slot
  <2>3. Slot(a)' \in Grafted'
    BY <1>3, <1>4, <2>1, <2>2
  <2> QED BY <1>1, <1>3, <2>1, <2>2, <2>3, SessionKept
<1>7. ~EraseNothing(a)
  BY <1>3 DEF EraseNothing, At, Grafted, IsPage
<1>8. CASE Erase(a)
  <2>1. /\ cache' = [cache EXCEPT ![Slot(a)] = "hole"]
        /\ UNCHANGED << table, count, oops, todo >> /\ pc[a] = "erase"
        /\ pc'[a] = "finish" /\ \A u \in Actors \ {a} : pc'[u] = "idle"
        /\ held'[a] = cache[Slot(a)]
    <3>1. held' = [LosePage(a, Slot(a), a) EXCEPT ![a] = cache[Slot(a)]]
      BY <1>8 DEF Erase
    <3>2. held'[a] = cache[Slot(a)]
      BY <3>1 DEF LosePage
    <3> QED BY <1>0, <1>2, <1>8, <3>2 DEF Erase, At, tableVars
  <2>2. Slot(a)' = Slot(a) /\ OneBackup' /\ held'[a] \in KernelPages
    BY <1>1, <1>3, <2>1 DEF Slot, OneBackup, Grafted
  <2>3. Grafted' = Grafted \ {Slot(a)}
    BY <1>0, <1>2, <2>1, GraftConstants DEF Grafted
  <2>4. \A n \in 1..count' : table'[n].live =>
          table'[n].slot \in Grafted' \/ (pc'[a] = "finish" /\ Slot(a)' = table'[n].slot)
    BY <1>3, <2>1, <2>2, <2>3
  <2> QED BY <1>1, <2>1, <2>2, <2>4, SessionKept
<1>9. CASE Finish(a)
  <2>1. /\ UNCHANGED << cache, count, oops >> /\ table' = ClearBackup(Slot(a)[2])
    BY <1>9 DEF Finish
  <2>2. pc'[a] \in {"idle", "scan", "find"} /\ \A u \in Actors \ {a} : pc'[u] = "idle"
    BY <1>0, <1>2, <1>9 DEF Finish, Advance
  <2>3. \A n \in 1..count : table'[n].live => table[n].live /\ table'[n] = table[n]
    BY <1>0, <2>1, ClearFacts
  <2>4. ASSUME NEW n \in 1..count, table'[n].live PROVE table[n].slot # Slot(a)
    <3> SUFFICES ASSUME table[n].slot = Slot(a) PROVE FALSE
      OBVIOUS
    <3>1. n \in LiveAt(Slot(a)[2])
      BY <1>0, <2>3, <2>4 DEF LiveAt
    <3>2. FindBackup(Slot(a)[2]) # 0
      BY <3>1, FindFacts
    <3>3. FindBackup(Slot(a)[2]) = n
      BY <1>3, <1>4, <2>3, <2>4, <3>2 DEF OneBackup
    <3>4. table'[n] = NoBackup
      BY <1>0, <2>1, <3>2, <3>3 DEF ClearBackup
    <3> QED BY <2>4, <3>4 DEF NoBackup
  <2>5. Grafted' = Grafted /\ OneBackup'
    BY <1>3, <2>1, <2>3 DEF Grafted, OneBackup
  <2>6. \A n \in 1..count' : table'[n].live => table'[n].slot \in Grafted'
    BY <1>3, <2>1, <2>3, <2>4, <2>5
  <2> QED BY <1>1, <2>1, <2>2, <2>5, <2>6, SessionKept
<1> QED BY <1>5, <1>6, <1>7, <1>8, <1>9 DEF RestoreStep

\* Loading, the arrival of a message, the loop of the unload.
LEMMA ModuleSession ==
  ASSUME Typed, Alone, TailKnown, OneSender, DistinctPages, ReplaceOnlyRestored, SessionInv,
         \/ ModuleInit \/ ModuleExit \/ ExitScan \/ ExitScanPast \/ ExitDone
         \/ \E t \in Threads, b \in Batches : ReceiveReplace(t, b) \/ ReceiveRestore(t, b)
  PROVE  SessionInv'
<1>0. /\ count \in 0..MaxBackups /\ MaxBackups \in Nat
      /\ pc \in [Actors -> {"idle", "scan", "lookup", "delete", "insert", "record",
                            "find", "erase", "finish"}]
      /\ Actors = Threads \cup {Rmmod} /\ Rmmod \notin Threads
      /\ todo \in [Actors -> Seq(PageRequest)] /\ file \in [Actors -> Files]
  BY GraftConstants DEF Typed, TypeOK, Actors, TailKnown
<1>5a. ~ExitScanPast
  BY <1>0 DEF ExitScanPast, ScanDone, Typed, TypeOK
<1>1. ~oops /\ OneBackup
  BY DEF SessionInv, NoOops
<1>2. CASE ModuleInit
  <2>1. /\ UNCHANGED << oops, pc >> /\ count' = 0 /\ \A a \in Actors : pc[a] = "idle"
    BY <1>0, <1>2 DEF ModuleInit, InState, Alone
  <2>2. OneBackup'
    BY <2>1 DEF OneBackup
  <2> QED BY <1>0, <1>1, <2>1, <2>2, SessionKept
<1>3. CASE ModuleExit
  <2>1. /\ UNCHANGED << oops, cache, table, count >> /\ pc' = [pc EXCEPT ![Rmmod] = "scan"]
        /\ module = "loaded" /\ \A t \in Threads : pc[t] = "idle"
    BY <1>3 DEF ModuleExit, InState, tableVars
  <2>2. pc[Rmmod] = "idle"
    BY <2>1 DEF Alone
  <2>3. pc'[Rmmod] = "scan" /\ \A u \in Actors \ {Rmmod} : pc'[u] = "idle"
    BY <1>0, <2>1
  <2>4. \A n \in 1..count : table[n].live => table[n].slot \in Grafted
    BY <1>0, <2>1, <2>2, LiveCounted DEF SessionInv, BackupIsGraft
  <2>5. Grafted' = Grafted /\ OneBackup'
    BY <1>1, <2>1 DEF Grafted, OneBackup
  <2> QED BY <1>0, <1>1, <2>1, <2>3, <2>4, <2>5, SessionKept
<1>4. CASE ExitScan
  <2>1. /\ UNCHANGED << oops, cache, table, count >> /\ pc[Rmmod] = "scan"
        /\ pc' = [pc EXCEPT ![Rmmod] = "find"] \/ pc' = pc
    BY <1>4 DEF ExitScan, At, tableVars
  <2>2. module = "leaving" /\ \A t \in Threads : pc[t] = "idle"
    BY <2>1 DEF Alone
  <2>3. pc'[Rmmod] \in {"scan", "find"} /\ \A u \in Actors \ {Rmmod} : pc'[u] = "idle"
    BY <1>0, <2>1, <2>2
  <2>4. \A n \in 1..count : table[n].live => table[n].slot \in Grafted
    BY <1>0, <2>1, <2>2, LiveCounted DEF SessionInv, BackupIsGraft
  <2>5. Grafted' = Grafted /\ OneBackup'
    BY <1>1, <2>1 DEF Grafted, OneBackup
  <2> QED BY <1>0, <1>1, <2>1, <2>3, <2>4, <2>5, SessionKept
<1>5. CASE ExitDone
  <2>1. /\ oops' = oops /\ count' = 0 /\ pc[Rmmod] = "scan"
        /\ pc' = [pc EXCEPT ![Rmmod] = "idle"]
    BY <1>5 DEF ExitDone, At
  <2>2. \A u \in Actors : pc'[u] = "idle"
    BY <1>0, <2>1 DEF Alone
  <2>3. OneBackup'
    BY <2>1 DEF OneBackup
  <2> QED BY <1>0, <1>1, <2>1, <2>2, <2>3, SessionKept
<1>6. CASE \E t \in Threads, b \in Batches : ReceiveReplace(t, b) \/ ReceiveRestore(t, b)
  <2>1. PICK t \in Threads, b \in Batches : ReceiveReplace(t, b) \/ ReceiveRestore(t, b)
    BY <1>6
  <2>2. /\ module = "loaded" /\ pc[t] = "idle"
        /\ UNCHANGED << oops, cache, table, count >>
        /\ file' = [file EXCEPT ![t] = b.file] /\ todo' = [todo EXCEPT ![t] = b.pages]
        /\ pc' = [pc EXCEPT ![t] = "lookup"] \/ pc' = [pc EXCEPT ![t] = "find"]
    BY <2>1 DEF ReceiveReplace, ReceiveRestore, InState, At, tableVars
  <2>3. \A u \in Actors : pc[u] = "idle"
    BY <1>0, <2>2 DEF Alone, OneSender
  <2>4. /\ pc'[t] \in {"lookup", "find"} /\ \A u \in Actors \ {t} : pc'[u] = "idle"
        /\ file'[t] = b.file /\ todo'[t] = b.pages
    BY <1>0, <2>2, <2>3
  <2>5. \A n \in 1..count : table[n].live => table[n].slot \in Grafted
    BY <1>0, <2>2, <2>3, LiveCounted DEF SessionInv, BackupIsGraft
  <2>6. Grafted' = Grafted /\ OneBackup'
    BY <1>1, <2>2 DEF Grafted, OneBackup
  <2>7. CASE pc'[t] = "lookup"
    <3>1. \A n \in 1..Len(b.pages) : LiveFor(<< b.file, b.pages[n].index >>) = {}
      BY <1>0, <2>1, <2>7 DEF ReceiveReplace, ReceiveRestore
    <3>2. \A n \in 1..Len(todo'[t]), m \in 1..MaxBackups :
            m <= count' /\ table'[m].live => table'[m].slot # << file'[t], todo'[t][n].index >>
      BY <2>2, <2>4, <3>1 DEF LiveFor
    <3>3. Fresh(t)'
      BY <2>4, <3>2, FreshNext DEF DistinctPages
    <3> QED BY <1>0, <1>1, <2>2, <2>4, <2>5, <2>6, <2>7, <3>3, SessionKept
  <2>8. CASE pc'[t] = "find"
    BY <1>0, <1>1, <2>2, <2>4, <2>5, <2>6, <2>8, SessionKept
  <2> QED BY <2>4, <2>7, <2>8
<1> QED BY <1>2, <1>3, <1>4, <1>5, <1>5a, <1>6

\* A page fault and reclaim touch no graft and no page a handler has locked.
LEMMA KernelSession ==
  ASSUME Typed, SessionInv, NEW s \in Slots, PageFault(s) \/ Reclaim(s)
  PROVE  SessionInv'
<1>1. /\ UNCHANGED << module, table, count, pc, file, todo, held, owner, seen, oops >>
      /\ cache \in [Slots -> Content] /\ cache[s] \notin KernelPages
  BY GraftConstants DEF PageFault, Reclaim, tableVars, Typed, TypeOK, IsPage
<1>2. PICK c \in {"original", "hole", "shadow"} : cache' = [cache EXCEPT ![s] = c]
  BY DEF PageFault, Reclaim
<1>3. Grafted' = Grafted
  BY <1>1, <1>2, GraftConstants DEF Grafted
<1>4. ASSUME NEW t \in Threads, pc'[t] = "delete" PROVE StillCached(t)'
  <2>1. IsPage(held[t]) /\ cache[Slot(t)] = held[t] /\ pc[t] = "delete"
        /\ (held[t] \in KernelPages => owner[held[t]] = Slot(t))
    BY <1>1, <1>4 DEF SessionInv, DeletesCached, StillCached
  <2>2. Slot(t) # s
    <3>1. CASE PageFault(s)
      BY <2>1, <3>1 DEF PageFault
    <3>2. CASE Reclaim(s)
      BY <2>1, <3>2 DEF Reclaim, PageLocked
    <3> QED BY <3>1, <3>2
  <2>3. Slot(t)' = Slot(t) /\ Slot(t) \in Slots
    BY <1>1, <2>1, WorkFacts DEF Slot, Busy, Actors
  <2> QED BY <1>1, <1>2, <2>1, <2>2, <2>3 DEF StillCached
<1>5. BackupIsGraft' /\ OneBackup' /\ DeletesCached' /\ ErasesGraft'
  BY <1>1, <1>3, <1>4 DEF SessionInv, BackupIsGraft, OneBackup, DeletesCached, ErasesGraft, Slot
<1>6. ReplacesFresh'
  BY <1>1, FreshKept DEF SessionInv, ReplacesFresh
<1>7. RestoreErasesCode' /\ NoOops'
  BY <1>1 DEF SessionInv, RestoreErasesCode, NoOops
<1> QED BY <1>5, <1>6, <1>7 DEF SessionInv

LEMMA InitSession == Init => SessionInv
<1> SUFFICES ASSUME Init PROVE SessionInv
  OBVIOUS
<1>1. /\ count = 0 /\ ~oops /\ \A a \in Actors : pc[a] = "idle"
      /\ Threads \subseteq Actors
  BY DEF Init, Actors
<1> QED BY <1>1 DEF SessionInv, BackupIsGraft, OneBackup, ReplacesFresh, DeletesCached,
     ErasesGraft, RestoreErasesCode, NoOops

LEMMA SessionStep ==
  ASSUME OneSender, NamedPages, DistinctPages, ~InsertMayFail, ReplaceOnlyRestored,
         Safe, TailKnown, OwnerCoherent, SessionInv, [Next]_vars
  PROVE  SessionInv'
<1>1. Typed /\ Alone
  BY DEF Safe
<1>2. CASE UNCHANGED vars
  <2>1. UNCHANGED << module, cache, table, count, pc, file, todo, held, owner, seen, oops >>
    BY <1>2 DEF vars
  <2>2. ReplacesFresh'
    BY <2>1, FreshKept DEF SessionInv, ReplacesFresh
  <2> QED BY <2>1, <2>2 DEF SessionInv, BackupIsGraft, OneBackup, DeletesCached, StillCached,
       ErasesGraft, RestoreErasesCode, NoOops, Grafted, Slot
<1> QED BY <1>1, <1>2, ReplaceSession, RestoreSession, ModuleSession, KernelSession DEF Next

LEMMA SessionCorrect ==
  ASSUME OneSender, OnePlace, NamedPages, DistinctPages, ~InsertMayFail, ReplaceOnlyRestored
  PROVE  Spec => []SessionInv
<1>1. Init => Safe /\ TailKnown /\ SessionInv
  BY InitSafe, InitTail, InitSession
<1>2. Safe /\ TailKnown /\ OwnerCoherent /\ SessionInv /\ [Next]_vars =>
        (Safe /\ TailKnown /\ SessionInv)'
  BY SafeNext, TailNext, SessionStep DEF Safe
<1>3. Spec => []OwnerCoherent
  BY OwnersCoherent
<1> QED BY <1>1, <1>2, <1>3, PTL DEF Spec

\* In a session as the vkso manager runs it (one sender, which replaces only pages
\* it has restored or never replaced, each once in a message, and puts a kernel page
\* in one place, which Lookup does not check itself) every live backup
\* stands for a page that is grafted, or that restore_page_cache has erased and
\* not yet cleared: a restore or the unload never acts on a record left behind.
\* Assumed is that xas_store does not run out of memory; it may fail on NULL.
THEOREM BackupsAreGrafts ==
  ASSUME OneSender, OnePlace, NamedPages, DistinctPages, ~InsertMayFail, ReplaceOnlyRestored
  PROVE  Spec => []BackupIsGraft
<1>1. SessionInv => BackupIsGraft
  BY DEF SessionInv
<1>2. Spec => []SessionInv
  BY SessionCorrect
<1> QED BY <1>1, <1>2, PTL

\* In such a session restore_page_cache takes out of the page cache only pages of
\* kernel code, never a page of the file itself.
THEOREM ErasesOnlyCode ==
  ASSUME OneSender, OnePlace, NamedPages, DistinctPages, ~InsertMayFail, ReplaceOnlyRestored
  PROVE  Spec => []RestoreErasesCode
<1>1. SessionInv => RestoreErasesCode
  BY DEF SessionInv
<1>2. Spec => []SessionInv
  BY SessionCorrect
<1> QED BY <1>1, <1>2, PTL

\* In such a session no handler and no unload passes to the kernel, as a cached
\* page, what is none: delete_from_page_cache finds the page pagecache_get_page
\* returned, and restore_page_cache finds a page at the index of its backup,
\* whatever is read from disk or reclaimed meanwhile.
THEOREM NeverOops ==
  ASSUME OneSender, OnePlace, NamedPages, DistinctPages, ~InsertMayFail, ReplaceOnlyRestored
  PROVE  Spec => []NoOops
<1>1. SessionInv => NoOops
  BY DEF SessionInv
<1>2. Spec => []SessionInv
  BY SessionCorrect
<1> QED BY <1>1, <1>2, PTL
=============================================================================
