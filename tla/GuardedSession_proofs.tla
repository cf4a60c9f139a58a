------------------------ MODULE GuardedSession_proofs ------------------------
(***************************************************************************)
(* Proofs about GuardedSession, for any number of shells, libraries and    *)
(* commands.  What holds of commands given one at a time is in the second  *)
(* half, for any failure of a step of script or manager and any signal     *)
(* that reaches the script outside the start of its manager, when the      *)
(* kernel module makes the grafts and restores it is asked for.            *)
(***************************************************************************)
EXTENDS GuardedSession, TLAPS

\* TypeOK in four parts: the module and the libraries, the files of the project,
\* the shells, the managers.

KernelType ==
  /\ module \in {"out", "loaded", "leaving"} /\ lost \in BOOLEAN
  /\ gen \in [Libs -> Nat]
  /\ grafted \cup immutable \subseteq Inodes
  /\ \A i \in grafted \cup immutable : i[2] <= gen[i[1]]

FileType ==
  /\ stateFile \in [lib : Libs, added : BOOLEAN] \cup {NoState}
  /\ pidFile \in Shells \cup {NoPid}

ShellType ==
  /\ task \in [Shells -> Tasks] /\ serial \in BOOLEAN /\ program \in [Shells -> BOOLEAN]
  /\ pc \in [Shells -> ShellSteps] /\ hold \in [Shells -> BOOLEAN]
  /\ loadedByUs \in [Shells -> BOOLEAN]

ManagerType ==
  /\ mpc \in [Shells -> ManagerSteps]
  /\ added \in [Shells -> BOOLEAN] /\ requested \in [Shells -> BOOLEAN]

LEMMA Parts == TypeOK <=> KernelType /\ FileType /\ ShellType /\ ManagerType
  BY DEF TypeOK, KernelType, FileType, ShellType, ManagerType

\* The library of a shell, and the file that is installed at its path.
LEMMA TargetType ==
  ASSUME TypeOK, NEW v \in Shells
  PROVE  /\ task[v] \in [cmd : Commands, lib : Libs, root : BOOLEAN, unload : BOOLEAN]
         /\ Lib(v) \in Libs /\ Target(v) \in Inodes
         /\ Target(v)[2] <= gen[Target(v)[1]]
<1>1. task[v] \in [cmd : Commands, lib : Libs, root : BOOLEAN, unload : BOOLEAN]
  BY SessionConstants DEF TypeOK
<1>2. Lib(v) \in Libs
  BY <1>1 DEF Lib
<1>3. gen[Lib(v)] \in Nat
  BY <1>2 DEF TypeOK
<1> QED
  BY <1>1, <1>2, <1>3 DEF Target, Inode, Inodes

LEMMA InitType == Init => TypeOK
<1> SUFFICES ASSUME Init PROVE TypeOK
  OBVIOUS
<1>1. KernelType
  BY DEF Init, Kernel!Init, KernelType
<1>2. FileType
  BY DEF Init, FileType
<1>3. ShellType
  BY SessionConstants DEF Init, ShellType, ShellSteps
<1>4. ManagerType
  BY DEF Init, ManagerType, ManagerSteps
<1> QED
  BY <1>1, <1>2, <1>3, <1>4, Parts

\* The kernel module grafts and removes pages of installed files only.
LEMMA KernelStep ==
  ASSUME TypeOK, NEW v \in Shells, UNCHANGED << gen, immutable >>,
         \/ SendReplace(v) \/ SendRestore(v)
         \/ Kernel!Load \/ Kernel!StartUnload \/ Kernel!EndUnload
         \/ UNCHANGED kernelVars
  PROVE  KernelType'
<1>1. Target(v) \in Inodes /\ Target(v)[2] <= gen[Target(v)[1]]
  BY TargetType
<1>2. grafted' \subseteq grafted \cup {Target(v)}
  BY DEF SendReplace, SendRestore, Kernel!Graft, Kernel!Remove, Kernel!Load,
         Kernel!StartUnload, Kernel!EndUnload, kernelVars
<1>3. module' \in {"out", "loaded", "leaving"} /\ lost' \in BOOLEAN
  BY DEF TypeOK, SendReplace, SendRestore, Kernel!Graft, Kernel!Remove, Kernel!Load,
         Kernel!StartUnload, Kernel!EndUnload, kernelVars
<1> QED
  BY <1>1, <1>2, <1>3 DEF TypeOK, KernelType

LEMMA ShellTypes ==
  ASSUME TypeOK, NEW v \in Shells, Start(v) \/ Disturbance(v) \/ ShellStep(v)
  PROVE  TypeOK'
<1> USE DEF Go, ShellSteps, kernelVars, fileVars, managerVars
<1>0. /\ Target(v) \in Inodes /\ Lib(v) \in Libs
  BY TargetType
<1>1. ASSUME Start(v) PROVE TypeOK'
  BY <1>1 DEF Start, TypeOK
<1>2. ASSUME Disturbance(v) PROVE TypeOK'
  <2>1. CASE Interrupt(v) \/ OrphanEnds(v)
    BY <2>1 DEF Interrupt, OrphanEnds, TypeOK
  <2>2. CASE GroupSignal(v)
    <3>1. mpc' \in [Shells -> ManagerSteps] /\ requested' \in [Shells -> BOOLEAN]
      BY <2>2 DEF GroupSignal, Terminate, ManagerSteps, TypeOK
    <3> QED
      BY <2>2, <3>1 DEF GroupSignal, shellVars, TypeOK
  <2> QED
    BY <1>2, <2>1, <2>2 DEF Disturbance
<1>3. ASSUME Build(v) PROVE TypeOK'
  <2>1. CASE Target(v) \in immutable
    BY <1>3, <2>1 DEF Build, TypeOK
  <2>2. CASE Target(v) \notin immutable
    <3>1. gen' = [gen EXCEPT ![Lib(v)] = @ + 1]
      BY <1>3, <2>2 DEF Build
    <3>2. gen' \in [Libs -> Nat] /\ \A l \in Libs : gen[l] <= gen'[l]
      BY <1>0, <3>1 DEF TypeOK
    <3>3. \A i \in grafted \cup immutable : i[2] <= gen'[i[1]]
      <4> SUFFICES ASSUME NEW i \in grafted \cup immutable PROVE i[2] <= gen'[i[1]]
        OBVIOUS
      <4>1. i[1] \in Libs /\ i[2] \in Nat /\ i[2] <= gen[i[1]]
        BY DEF TypeOK, Inodes
      <4> QED
        BY <3>2, <4>1 DEF TypeOK
    <3> QED
      BY <1>3, <2>2, <3>2, <3>3 DEF Build, TypeOK
  <2> QED
    BY <2>1, <2>2
<1>4. ASSUME EnsureModule(v) PROVE TypeOK'
  BY <1>4 DEF EnsureModule, TypeOK
<1>5. ASSUME Insmod(v) PROVE TypeOK'
  <2>1. KernelType'
    BY <1>5, KernelStep DEF Insmod
  <2> QED
    BY <1>5, <2>1, Parts DEF Insmod, TypeOK, KernelType
<1>6. ASSUME Clean(v) \/ Forget(v) PROVE TypeOK'
  BY <1>6 DEF Clean, Forget, TypeOK
<1>7. ASSUME Spawn(v) PROVE TypeOK'
  BY <1>7 DEF Spawn, ManagerGo, ManagerSteps, TypeOK
<1>8. ASSUME HoldActive(v) PROVE TypeOK'
  BY <1>8 DEF HoldActive, TypeOK
<1>9. ASSUME ReplaceEnds(v) \/ Ready(v) \/ NotReady(v) \/ ProgramEnds(v) PROVE TypeOK'
  BY <1>9 DEF ReplaceEnds, Ready, NotReady, ProgramEnds, TypeOK
<1>10. ASSUME Trap(v) PROVE TypeOK'
  <2>1. mpc' \in [Shells -> ManagerSteps] /\ requested' \in [Shells -> BOOLEAN]
    BY <1>10 DEF Trap, Terminate, ManagerSteps, TypeOK
  <2> QED
    BY <1>10, <2>1 DEF Trap, TypeOK
<1>11. ASSUME Await(v) \/ Check(v) PROVE TypeOK'
  BY <1>11 DEF Await, Check, TypeOK
<1>12. ASSUME Send(v) PROVE TypeOK'
  <2>1. KernelType'
    BY <1>12, KernelStep DEF Send
  <2> QED
    BY <1>12, <2>1 DEF Send, TypeOK, KernelType
<1>13. ASSUME Unprotect(v) PROVE TypeOK'
  <2>1. immutable' \subseteq immutable
    BY <1>13 DEF Unprotect
  <2> QED
    BY <1>13, <2>1 DEF Unprotect, TypeOK
<1>14. ASSUME Unload(v) PROVE TypeOK'
  <2>1. KernelType'
    BY <1>14, KernelStep DEF Unload
  <2> QED
    BY <1>14, <2>1 DEF Unload, TypeOK, KernelType
<1>15. ASSUME Unloaded(v) PROVE TypeOK'
  <2>1. KernelType'
    BY <1>15, KernelStep DEF Unloaded
  <2> QED
    BY <1>15, <2>1 DEF Unloaded, TypeOK, KernelType
<1> QED
  BY <1>1, <1>2, <1>3, <1>4, <1>5, <1>6, <1>7, <1>8, <1>9, <1>10, <1>11, <1>12, <1>13,
     <1>14, <1>15 DEF ShellStep

LEMMA ManagerTypes ==
  ASSUME TypeOK, NEW v \in Shells, ManagerStep(v)
  PROVE  TypeOK'
<1> USE DEF ManagerGo, ManagerSteps, kernelVars, fileVars, shellVars
<1>0. /\ Target(v) \in Inodes /\ Lib(v) \in Libs /\ Target(v)[2] <= gen[Target(v)[1]]
  BY TargetType
<1>1. ASSUME ManagerReplace(v) PROVE TypeOK'
  <2>1. KernelType'
    BY <1>1, KernelStep DEF ManagerReplace
  <2> QED
    BY <1>1, <2>1 DEF ManagerReplace, TypeOK, KernelType
<1>2. ASSUME ManagerProtect(v) PROVE TypeOK'
  <2>1. immutable' \subseteq immutable \cup {Target(v)}
    BY <1>2 DEF ManagerProtect
  <2>2. added' \in [Shells -> BOOLEAN]
    BY <1>2 DEF ManagerProtect, TypeOK
  <2> QED
    BY <1>0, <1>2, <2>1, <2>2 DEF ManagerProtect, TypeOK
<1>3. ASSUME ManagerState(v) PROVE TypeOK'
  <2>1. stateFile' \in [lib : Libs, added : BOOLEAN] \cup {NoState}
    BY <1>0, <1>3 DEF ManagerState, TypeOK
  <2> QED
    BY <1>3, <2>1 DEF ManagerState, TypeOK
<1>4. ASSUME ManagerPid(v) PROVE TypeOK'
  BY <1>4 DEF ManagerPid, TypeOK
<1>5. ASSUME ManagerHandlers(v) \/ ManagerTest(v) \/ ManagerPause(v) PROVE TypeOK'
  BY <1>5 DEF ManagerHandlers, ManagerTest, ManagerPause, TypeOK
<1>6. ASSUME ManagerRestore(v) PROVE TypeOK'
  <2>1. KernelType'
    BY <1>6, KernelStep DEF ManagerRestore
  <2> QED
    BY <1>6, <2>1 DEF ManagerRestore, TypeOK, KernelType
<1>7. ASSUME ManagerUnprotect(v) PROVE TypeOK'
  <2>1. immutable' \subseteq immutable
    BY <1>7 DEF ManagerUnprotect
  <2> QED
    BY <1>7, <2>1 DEF ManagerUnprotect, TypeOK
<1>8. ASSUME ManagerForget(v) PROVE TypeOK'
  BY <1>8 DEF ManagerForget, TypeOK
<1>9. ASSUME ManagerUndo(v) PROVE TypeOK'
  <2>1. grafted' \subseteq grafted /\ immutable' \subseteq immutable
    BY <1>9 DEF ManagerUndo, SendRestore, Kernel!Remove
  <2>2. module' = module /\ lost' = lost
    BY <1>9 DEF ManagerUndo, SendRestore, Kernel!Remove
  <2> QED
    BY <1>9, <2>1, <2>2 DEF ManagerUndo, TypeOK
<1> QED
  BY <1>1, <1>2, <1>3, <1>4, <1>5, <1>6, <1>7, <1>8, <1>9 DEF ManagerStep

LEMMA KernelRestoresType ==
  ASSUME TypeOK, NEW f \in grafted, KernelRestores(f)
  PROVE  TypeOK'
  BY DEF KernelRestores, Kernel!Remove, fileVars, managerVars, shellVars, TypeOK

\* Every variable of the sessions keeps its type, and a file that is grafted or
\* immutable has been installed at its path (vkso and manager.cpp, every step).
THEOREM TypeCorrect == Spec => []TypeOK
<1>1. TypeOK /\ [Next]_vars => TypeOK'
  <2> SUFFICES ASSUME TypeOK, [Next]_vars PROVE TypeOK'
    OBVIOUS
  <2>1. CASE UNCHANGED vars
    BY <2>1 DEF vars, kernelVars, fileVars, managerVars, shellVars, TypeOK
  <2>2. CASE Next
    BY <2>2, ShellTypes, ManagerTypes, KernelRestoresType DEF Next
  <2> QED
    BY <2>1, <2>2
<1> QED
  BY <1>1, InitType, PTL DEF Spec

-----------------------------------------------------------------------------
(* Commands given one at a time.  At most one shell is at work, with its    *)
(* manager; the others rest.                                                *)

\* The library of v: grafted and immutable, or neither; what manager.state says.
Both(v)    == Target(v) \in grafted \cap immutable
Neither(v) == Target(v) \notin grafted \cup immutable
Written(v) == stateFile = [lib |-> Lib(v), added |-> TRUE]
Held(v)    == Both(v) /\ added[v] /\ Written(v)
Erased     == stateFile = NoState /\ pidFile = NoPid

\* A command has been given and has not ended.
Running(v) == pc[v] \notin {"new", "done"}

Exec(v) == task[v].cmd = "exec"

\* What a manager has done of its work, by the step it is at.
ManagerAt(v) ==
  /\ mpc[v] = "replace" => Neither(v)
  /\ mpc[v] \in {"protect", "undo"} => Target(v) \in grafted \ immutable
  /\ mpc[v] \in {"state", "undoAll"} => Both(v) /\ added[v]
  /\ mpc[v] \in {"pid", "handlers", "test", "pausing", "restore"} => Held(v)
  /\ mpc[v] = "unprotect" => Target(v) \in immutable \ grafted /\ added[v] /\ Written(v)
  /\ mpc[v] = "forget" => Neither(v) /\ Written(v)
  /\ mpc[v] \in {"replace", "protect", "undo", "state", "undoAll"} => (Exec(v) => Erased)
  /\ mpc[v] = "pid" => pidFile = NoPid

\* What a shell has done, and what its manager can be at, by the step it is at.
ShellAt(v) ==
  /\ pc[v] = "new" => mpc[v] = "none" /\ ~hold[v] /\ ~loadedByUs[v] /\ ~requested[v]
  /\ pc[v] = "done" => mpc[v] \in {"none", "pause", "exited"}
  /\ pc[v] \in {"build", "module", "insmod", "clean", "spawn"} =>
       mpc[v] = "none" /\ ~hold[v] /\ ~requested[v] /\ task[v].cmd # "restore"
  /\ pc[v] \in {"build", "module", "insmod"} => ~loadedByUs[v]
  /\ pc[v] \in {"module", "insmod", "clean", "spawn"} => Neither(v)
  /\ pc[v] = "spawn" => (Exec(v) => Erased)
  /\ pc[v] = "foreground" =>
       /\ task[v].cmd = "replace" /\ ~hold[v]
       /\ mpc[v] \in {"replace", "protect", "state", "undo", "undoAll", "exited"}
  /\ pc[v] \in {"spawned", "poll"} =>
       /\ Exec(v) /\ ~requested[v]
       /\ mpc[v] \in {"replace", "protect", "state", "undo", "undoAll", "pid", "handlers",
                      "test", "pausing", "pause", "exited"}
       /\ mpc[v] = "pause" => Held(v)
       /\ mpc[v] = "exited" => Neither(v) /\ Erased
  /\ pc[v] = "poll" => hold[v]
  /\ pc[v] = "run" =>
       /\ Exec(v) /\ hold[v]
       /\ mpc[v] \in {"handlers", "test", "pausing", "pause", "restore", "unprotect", "forget",
                      "exited"}
       /\ mpc[v] # "exited" => pidFile = v
       /\ ~requested[v] => Both(v) /\ mpc[v] \notin {"restore", "unprotect", "forget"}
       /\ mpc[v] = "pause" => Held(v)
       /\ mpc[v] = "exited" => (Both(v) /\ Written(v)) \/ (Neither(v) /\ Erased)
  /\ pc[v] = "trap" => (hold[v] =>
       /\ Exec(v)
       /\ mpc[v] \in {"handlers", "test", "pausing", "pause", "restore", "unprotect", "forget",
                      "exited"}
       /\ pidFile # v => mpc[v] \in {"pause", "exited"}
       /\ mpc[v] = "pause" => Held(v)
       /\ mpc[v] = "exited" => (Both(v) /\ Written(v)) \/ (Neither(v) /\ Erased))
  /\ pc[v] = "trap" => (~hold[v] => mpc[v] \in {"none", "exited"})
  /\ pc[v] \in {"await", "check"} =>
       /\ Exec(v) /\ hold[v]
       /\ mpc[v] \in {"test", "pausing", "pause", "restore", "unprotect", "forget", "exited"}
       /\ mpc[v] \in {"pause", "exited"} => (Both(v) /\ Written(v)) \/ (Neither(v) /\ Erased)
  /\ pc[v] \in {"check", "send", "unprotect", "forget", "unload", "unloading"} =>
       mpc[v] \in {"none", "pause", "exited"}
  /\ pc[v] \in {"send", "unprotect", "forget", "unload", "unloading"} =>
       (task[v].cmd = "restore" /\ ~hold[v]) \/ (Exec(v) /\ hold[v])
  /\ pc[v] = "send" => (Exec(v) => Both(v) /\ Written(v))
  /\ pc[v] = "unprotect" => Target(v) \notin grafted /\ (Exec(v) => Written(v))
  /\ pc[v] = "forget" => Target(v) \notin grafted /\ (Exec(v) => Neither(v))
  /\ pc[v] \in {"unload", "unloading"} => Erased /\ (Exec(v) => Neither(v))

\* The kernel module while v is the only shell at work.
ModuleAt(v) ==
  /\ ~lost
  /\ module = "out" => grafted = {}
  /\ module = "leaving" <=> pc[v] = "unloading"
  /\ pc[v] \in {"clean", "spawn", "spawned", "poll", "run", "foreground", "await", "check",
                "send", "unprotect", "forget", "unload"} => module = "loaded"
  /\ pc[v] = "trap" => (hold[v] => module = "loaded")
  /\ pc[v] = "unloading" => (Exec(v) => loadedByUs[v])
  /\ Running(v) /\ Exec(v) /\ loadedByUs[v] => grafted \subseteq {Target(v)}

\* What is grafted or immutable is the file installed at its path, and what is
\* grafted is immutable, but for a moment of the manager; only v has a pid file.
FilesAt(v) ==
  /\ \A i \in grafted \cup immutable : i = Inode(i[1])
  /\ \A i \in grafted \ immutable : i = Target(v) /\ mpc[v] \in {"protect", "undo"}
  /\ pidFile # NoPid => pidFile = v /\ (hold[v] \/ pc[v] = "spawned") /\ Running(v)

\* A shell whose command is still to come or has ended.
Resting(u) ==
  /\ pc[u] \in {"new", "done"}
  /\ mpc[u] \in {"none", "pause", "exited"}
  /\ pc[u] = "new" => mpc[u] = "none" /\ ~hold[u] /\ ~loadedByUs[u] /\ ~requested[u]

AtWork(v) == ManagerAt(v) /\ ShellAt(v) /\ ModuleAt(v) /\ FilesAt(v)

SerialInv == serial =>
  \E v \in Shells : AtWork(v) /\ \A u \in Shells \ {v} : Resting(u)

\* No signal reaches a shell between the start of its manager and the program, and
\* a graft or a restore that is asked of the kernel module is made.
Uninterrupted == Interruptible \cap {"spawned", "poll", "foreground"} = {}
KernelWorks   == "kernel" \notin MayFail

LEMMA SameTarget ==
  ASSUME NEW v, UNCHANGED << gen, task >>
  PROVE  Target(v)' = Target(v) /\ Lib(v)' = Lib(v) /\ task'[v] = task[v]
BY DEF Target, Inode, Lib

LEMMA WrittenState ==
  ASSUME TypeOK, NEW v \in Shells, Written(v)
  PROVE  stateFile # NoState
<1>1. [lib |-> Lib(v), added |-> TRUE] \in [lib : Libs, added : BOOLEAN]
  BY TargetType
<1> QED BY <1>1, SessionConstants DEF Written

LEMMA SameManager ==
  ASSUME NEW v, UNCHANGED << gen, task, grafted, immutable, stateFile, pidFile, mpc, added >>,
         ManagerAt(v)
  PROVE  ManagerAt(v)'
<1>1. Target(v)' = Target(v) /\ Lib(v)' = Lib(v) /\ task'[v] = task[v]
  BY SameTarget
<1> QED BY <1>1 DEF ManagerAt, Held, Both, Neither, Written, Erased, Exec

LEMMA SameFiles ==
  ASSUME NEW v, UNCHANGED << gen, task, grafted, immutable, pidFile >>, FilesAt(v),
         mpc[v] \in {"protect", "undo"} => mpc'[v] \in {"protect", "undo"},
         pidFile # NoPid => (hold'[v] \/ pc'[v] = "spawned") /\ Running(v)'
  PROVE  FilesAt(v)'
<1>1. Target(v)' = Target(v) /\ \A l : Inode(l)' = Inode(l)
  BY SameTarget DEF Inode
<1> QED BY <1>1 DEF FilesAt

\* The end of a program that was left behind, and no step at all.
LEMMA SameAtWork ==
  ASSUME TypeOK, NEW v \in Shells, AtWork(v),
         UNCHANGED << module, grafted, lost, gen, immutable, stateFile, pidFile, task, pc, hold,
                      loadedByUs, mpc, added, requested >>
  PROVE  AtWork(v)'
<1>1. Target(v)' = Target(v) /\ Lib(v)' = Lib(v) /\ task'[v] = task[v]
  BY SameTarget
<1>2. ManagerAt(v)'
  BY SameManager DEF AtWork
<1>3. ShellAt(v)'
  BY <1>1 DEF AtWork, ShellAt, Held, Both, Neither, Written, Erased, Exec
<1>4. ModuleAt(v)'
  BY <1>1 DEF AtWork, ModuleAt, Exec, Running
<1>5. FilesAt(v)'
  BY SameFiles DEF AtWork, FilesAt, Running
<1> QED BY <1>2, <1>3, <1>4, <1>5 DEF AtWork

\* The steps of a shell that change nothing but its own control state.
LEMMA ControlSteps ==
  ASSUME TypeOK, Uninterrupted, NEW v \in Shells, AtWork(v),
         \/ Start(v) \/ Interrupt(v) \/ EnsureModule(v) \/ HoldActive(v) \/ ReplaceEnds(v)
         \/ Ready(v) \/ NotReady(v) \/ ProgramEnds(v) \/ Await(v) \/ Check(v)
  PROVE  AtWork(v)'
<1>1. /\ pc \in [Shells -> ShellSteps] /\ hold \in [Shells -> BOOLEAN]
      /\ module \in {"out", "loaded", "leaving"}
      /\ task[v].cmd \in Commands
  BY TargetType DEF TypeOK
<1>2. /\ UNCHANGED << kernelVars, fileVars, managerVars, task, loadedByUs >>
      /\ hold' = hold \/ (hold' = [hold EXCEPT ![v] = TRUE] /\ pc[v] = "spawned")
      /\ \E step : pc' = [pc EXCEPT ![v] = step]
  BY DEF Start, Interrupt, EnsureModule, HoldActive, ReplaceEnds, Ready, NotReady, ProgramEnds,
     Await, Check, Go
<1>3. /\ UNCHANGED << module, grafted, lost, gen, immutable, stateFile, pidFile, mpc, added,
                      requested >>
      /\ Target(v)' = Target(v) /\ Lib(v)' = Lib(v) /\ task'[v] = task[v]
  BY <1>2, SameTarget DEF kernelVars, fileVars, managerVars
<1>4. ManagerAt(v)'
  BY <1>2, <1>3, SameManager DEF AtWork
<1>5. ManagerAt(v) /\ ShellAt(v) /\ ModuleAt(v) /\ FilesAt(v)
  BY DEF AtWork
\* Where the step leads from.
<1>6. \/ /\ Start(v) /\ pc[v] = "new" /\ hold' = hold
         /\ pc'[v] = IF task[v].cmd # "restore" THEN "build"
                     ELSE IF gen[Lib(v)] > 0 /\ module # "out" THEN "send" ELSE "done"
      \/ /\ pc[v] \in {"build", "module", "insmod", "clean", "spawn", "run"}
         /\ pc'[v] = "trap" /\ hold' = hold
      \/ /\ pc[v] = "module" /\ hold' = hold
         /\ pc'[v] = IF module = "out" THEN "insmod" ELSE IF Exec(v) THEN "clean" ELSE "spawn"
      \/ pc[v] = "spawned" /\ pc'[v] = "poll" /\ hold'[v] = TRUE
      \/ pc[v] = "foreground" /\ mpc[v] = "exited" /\ pc'[v] = "trap" /\ hold' = hold
      \/ pc[v] = "poll" /\ pidFile # NoPid /\ pc'[v] = "run" /\ hold' = hold
      \/ /\ pc[v] = "poll" /\ pidFile = NoPid /\ mpc[v] \in {"pause", "exited"}
         /\ pc'[v] = "trap" /\ hold' = hold
      \/ /\ pc[v] = "await" /\ pc'[v] = "check" /\ hold' = hold
         /\ stateFile = NoState \/ mpc[v] \in {"pause", "exited"}
      \/ /\ pc[v] = "check" /\ hold' = hold
         /\ pc'[v] = IF stateFile # NoState THEN "send" ELSE "unload"
  <2>1. \A step : pc' = [pc EXCEPT ![v] = step] => pc'[v] = step
    BY <1>1
  <2>2. hold' = [hold EXCEPT ![v] = TRUE] => hold'[v] = TRUE
    BY <1>1
  <2>3. CASE Start(v)
    BY <2>1, <2>3 DEF Start, Go
  <2>4. CASE Interrupt(v)
    BY <2>1, <2>4, SessionConstants DEF Interrupt, Go, Uninterrupted
  <2>5. CASE EnsureModule(v) \/ HoldActive(v)
    BY <2>1, <2>2, <2>5 DEF EnsureModule, HoldActive, Go, Exec
  <2>6. CASE ReplaceEnds(v) \/ Ready(v) \/ NotReady(v) \/ ProgramEnds(v)
    BY <2>1, <2>6 DEF ReplaceEnds, Ready, NotReady, ProgramEnds, Go, Idle
  <2>7. CASE Await(v) \/ Check(v)
    BY <2>1, <2>7 DEF Await, Check, Go, Idle
  <2> QED BY <2>3, <2>4, <2>5, <2>6, <2>7
<1>7. Written(v) => stateFile # NoState
  BY WrittenState
<1>8. ShellAt(v)'
  BY <1>1, <1>2, <1>3, <1>5, <1>6, <1>7 DEF ShellAt, ManagerAt, ModuleAt, FilesAt, Held, Both,
     Neither, Written, Erased, Exec, Running
<1>9. ModuleAt(v)'
  BY <1>1, <1>2, <1>3, <1>5, <1>6 DEF ShellAt, ModuleAt, Exec, Running
<1>10. FilesAt(v)'
  BY <1>1, <1>2, <1>3, <1>5, <1>6, <1>7, SameFiles DEF ShellAt, ManagerAt, FilesAt, Held, Neither,
     Written, Erased, Running
<1> QED BY <1>4, <1>8, <1>9, <1>10 DEF AtWork

\* Clean, Spawn, Forget and Unprotect: the files of the project, the flag.
LEMMA FileSteps ==
  ASSUME TypeOK, NEW v \in Shells, AtWork(v),
         Clean(v) \/ Spawn(v) \/ Unprotect(v) \/ Forget(v)
  PROVE  AtWork(v)'
<1>1. /\ pc \in [Shells -> ShellSteps] /\ mpc \in [Shells -> ManagerSteps]
      /\ task[v].cmd \in Commands
  BY TargetType DEF TypeOK
<1>2. /\ UNCHANGED << module, grafted, lost, gen, task, hold, loadedByUs, added, requested >>
      /\ Target(v)' = Target(v) /\ Lib(v)' = Lib(v) /\ task'[v] = task[v]
      /\ \A l : Inode(l)' = Inode(l)
  BY SameTarget DEF Clean, Spawn, Unprotect, Forget, kernelVars, fileVars, managerVars, Inode
<1>3. ManagerAt(v) /\ ShellAt(v) /\ ModuleAt(v) /\ FilesAt(v)
  BY DEF AtWork
<1>4. \/ /\ pc[v] = "clean" /\ pc'[v] = "spawn" /\ Erased' /\ UNCHANGED << mpc, immutable >>
      \/ /\ pc[v] = "spawn" /\ pc'[v] = (IF Exec(v) THEN "spawned" ELSE "foreground")
         /\ mpc'[v] = "replace" /\ UNCHANGED << immutable, stateFile, pidFile >>
      \/ /\ pc[v] = "unprotect" /\ pc'[v] = "forget" /\ UNCHANGED << mpc, stateFile, pidFile >>
         /\ immutable' = IF Written(v) THEN immutable \ {Target(v)} ELSE immutable
      \/ /\ pc[v] = "forget" /\ pc'[v] = "unload" /\ Erased' /\ UNCHANGED << mpc, immutable >>
  BY <1>1 DEF Clean, Spawn, Unprotect, Forget, Go, ManagerGo, Erased, Exec, Written, fileVars,
     managerVars
<1>5. ManagerAt(v)'
  BY <1>1, <1>2, <1>3, <1>4 DEF ShellAt, ManagerAt, Held, Both, Neither, Written, Erased, Exec
<1>6. ShellAt(v)'
  BY <1>1, <1>2, <1>3, <1>4 DEF ShellAt, ManagerAt, Held, Both, Neither, Written, Erased, Exec,
     Commands
<1>7. ModuleAt(v)'
  BY <1>1, <1>2, <1>3, <1>4 DEF ShellAt, ModuleAt, Exec, Running
<1>8. FilesAt(v)'
  BY <1>1, <1>2, <1>3, <1>4 DEF ShellAt, FilesAt, Neither, Erased, Running
<1> QED BY <1>5, <1>6, <1>7, <1>8 DEF AtWork

\* A step of the kernel's service on behalf of v.
LEMMA Insmods ==
  ASSUME TypeOK, NEW v \in Shells, AtWork(v), Insmod(v)
  PROVE  AtWork(v)'
<1>1. /\ pc \in [Shells -> ShellSteps] /\ loadedByUs \in [Shells -> BOOLEAN]
      /\ module \in {"out", "loaded", "leaving"} /\ task[v].cmd \in Commands
  BY TargetType DEF TypeOK
<1>2. /\ UNCHANGED << grafted, lost, gen, immutable, stateFile, pidFile, task, hold, mpc, added,
                      requested >>
      /\ Target(v)' = Target(v) /\ Lib(v)' = Lib(v) /\ task'[v] = task[v]
      /\ \A l : Inode(l)' = Inode(l)
  BY SameTarget DEF Insmod, Kernel!Load, kernelVars, fileVars, managerVars, Inode
<1>3. ManagerAt(v) /\ ShellAt(v) /\ ModuleAt(v) /\ FilesAt(v)
  BY DEF AtWork
<1>4. /\ pc[v] = "insmod"
      /\ \/ /\ module = "out" /\ module' = "loaded"
            /\ pc'[v] = IF Exec(v) THEN "clean" ELSE "spawn"
         \/ /\ pc'[v] = "trap" /\ UNCHANGED << module, loadedByUs >>
  BY <1>1 DEF Insmod, Go, Kernel!Load, kernelVars, Exec
<1>5. ManagerAt(v)'
  BY <1>2, <1>3, SameManager
<1>6. ShellAt(v)' /\ ModuleAt(v)' /\ FilesAt(v)'
  BY <1>1, <1>2, <1>3, <1>4 DEF ShellAt, ModuleAt, FilesAt, Neither, Erased, Exec, Running, Commands
<1> QED BY <1>5, <1>6 DEF AtWork

LEMMA Sends ==
  ASSUME TypeOK, KernelWorks, NEW v \in Shells, AtWork(v), Send(v)
  PROVE  AtWork(v)'
<1>1. pc \in [Shells -> ShellSteps] /\ task[v].cmd \in Commands
  BY TargetType DEF TypeOK
<1>2. /\ UNCHANGED << lost, module, gen, immutable, stateFile, pidFile, task, hold, loadedByUs,
                      mpc, added, requested >>
      /\ Target(v)' = Target(v) /\ Lib(v)' = Lib(v) /\ task'[v] = task[v]
      /\ \A l : Inode(l)' = Inode(l)
  BY SameTarget DEF Send, SendRestore, kernelVars, fileVars, managerVars, Inode
<1>3. ManagerAt(v) /\ ShellAt(v) /\ ModuleAt(v) /\ FilesAt(v)
  BY DEF AtWork
<1>4. pc[v] = "send" /\ pc'[v] = "unprotect" /\ grafted' = grafted \ {Target(v)}
  BY <1>1, <1>3 DEF Send, SendRestore, KernelWorks, Accepting, Go, ModuleAt
<1>5. ManagerAt(v)' /\ ShellAt(v)'
  BY <1>2, <1>3, <1>4 DEF ShellAt, ManagerAt, Held, Both, Neither, Written, Erased, Exec
<1>6. ModuleAt(v)' /\ FilesAt(v)'
  BY <1>1, <1>2, <1>3, <1>4 DEF ShellAt, ModuleAt, FilesAt, Exec, Running
<1> QED BY <1>5, <1>6 DEF AtWork

LEMMA Unloads ==
  ASSUME TypeOK, NEW v \in Shells, AtWork(v),
         Unload(v) \/ Unloaded(v) \/ \E f \in grafted : KernelRestores(f)
  PROVE  AtWork(v)'
<1>1. pc \in [Shells -> ShellSteps] /\ task[v].cmd \in Commands
  BY TargetType DEF TypeOK
<1>2. /\ UNCHANGED << lost, gen, immutable, stateFile, pidFile, task, hold, loadedByUs, mpc,
                      added, requested >>
      /\ Target(v)' = Target(v) /\ Lib(v)' = Lib(v) /\ task'[v] = task[v]
      /\ \A l : Inode(l)' = Inode(l)
  BY SameTarget DEF Unload, Unloaded, KernelRestores, Kernel!StartUnload, Kernel!EndUnload,
     Kernel!Remove, kernelVars, fileVars, managerVars, shellVars, Inode
<1>3. ManagerAt(v) /\ ShellAt(v) /\ ModuleAt(v) /\ FilesAt(v)
  BY DEF AtWork
<1>4. \/ /\ pc[v] = "unload" /\ pc'[v] = "unloading" /\ grafted' = grafted
         /\ module' = "leaving" /\ (Exec(v) => loadedByUs[v])
      \/ pc[v] = "unload" /\ pc'[v] = "done" /\ UNCHANGED << module, grafted >>
      \/ /\ pc[v] = "unloading" /\ pc'[v] = "done" /\ grafted' = grafted
         /\ module' = "out" /\ (grafted = {} \/ lost)
      \/ /\ pc[v] = "unloading" /\ pc' = pc /\ module' = module
         /\ \E f \in grafted : grafted' = grafted \ {f}
  BY <1>1, <1>3 DEF Unload, Unloaded, KernelRestores, Kernel!StartUnload, Kernel!EndUnload,
     Kernel!Remove, Go, kernelVars, shellVars, Exec, ModuleAt
<1>5. ManagerAt(v)' /\ ShellAt(v)'
  BY <1>2, <1>3, <1>4 DEF ShellAt, ManagerAt, Neither, Erased, Exec
<1>6. ModuleAt(v)' /\ FilesAt(v)'
  BY <1>1, <1>2, <1>3, <1>4 DEF ShellAt, ModuleAt, FilesAt, Erased, Exec, Running
<1> QED BY <1>5, <1>6 DEF AtWork

\* A new library is installed only when the old one is neither immutable nor grafted.
LEMMA Builds ==
  ASSUME TypeOK, NEW v \in Shells, AtWork(v), Build(v)
  PROVE  AtWork(v)'
<1>1. /\ pc \in [Shells -> ShellSteps] /\ gen \in [Libs -> Nat] /\ Lib(v) \in Libs
      /\ grafted \cup immutable \subseteq Inodes
      /\ \A i \in grafted \cup immutable : i[2] <= gen[i[1]]
  BY TargetType DEF TypeOK
<1>2. /\ UNCHANGED << module, lost, grafted, immutable, stateFile, pidFile, task, hold,
                      loadedByUs, mpc, added, requested >>
      /\ Lib(v)' = Lib(v) /\ task'[v] = task[v]
  BY DEF Build, kernelVars, managerVars, Lib
<1>3. ManagerAt(v) /\ ShellAt(v) /\ ModuleAt(v) /\ FilesAt(v)
  BY DEF AtWork
<1>4. pc[v] = "build" /\ mpc[v] = "none"
  BY <1>3 DEF Build, ShellAt
<1>5. CASE Target(v) \in immutable
  <2>1. pc'[v] = "trap" /\ gen' = gen
    BY <1>1, <1>5 DEF Build, Go
  <2>2. Target(v)' = Target(v) /\ \A l : Inode(l)' = Inode(l)
    BY <1>2, <2>1, SameTarget DEF Inode
  <2> QED BY <1>2, <1>3, <1>4, <2>1, <2>2 DEF AtWork, ManagerAt, ShellAt, ModuleAt, FilesAt, Running
<1>6. CASE Target(v) \notin immutable
  <2>1. pc'[v] = "module" /\ gen' = [gen EXCEPT ![Lib(v)] = @ + 1]
    BY <1>1, <1>6 DEF Build, Go
  <2>2. grafted \subseteq immutable /\ Target(v) \notin grafted \cup immutable
    BY <1>3, <1>4, <1>6 DEF FilesAt
  <2>3. ASSUME NEW i \in grafted \cup immutable PROVE i[1] # Lib(v) /\ i = Inode(i[1])'
    <3>1. i \in Inodes /\ i = Inode(i[1])
      BY <1>1, <1>3 DEF FilesAt
    <3>2. i[1] # Lib(v)
      BY <2>2, <3>1 DEF Target
    <3> QED BY <1>1, <2>1, <3>1, <3>2 DEF Inode, Inodes
  <2>4. Neither(v)'
    <3>1. Target(v)'[1] = Lib(v)
      BY <1>2 DEF Target, Inode
    <3> QED BY <1>2, <2>3, <3>1 DEF Neither
  <2>5. ManagerAt(v)' /\ ShellAt(v)'
    BY <1>2, <1>3, <1>4, <2>1, <2>4 DEF ManagerAt, ShellAt
  <2>6. ModuleAt(v)'
    BY <1>2, <1>3, <1>4, <2>1 DEF ShellAt, ModuleAt
  <2>7. FilesAt(v)'
    BY <1>2, <1>3, <1>4, <2>1, <2>2, <2>3 DEF ShellAt, FilesAt, Running
  <2> QED BY <2>5, <2>6, <2>7 DEF AtWork
<1> QED BY <1>5, <1>6

\* The signal of the trap goes to the manager of the shell itself.
LEMMA Traps ==
  ASSUME TypeOK, NEW v \in Shells, AtWork(v), Trap(v)
  PROVE  AtWork(v)'
<1>1. /\ pc \in [Shells -> ShellSteps] /\ mpc \in [Shells -> ManagerSteps]
      /\ requested \in [Shells -> BOOLEAN]
  BY DEF TypeOK
<1>2. /\ UNCHANGED << module, lost, grafted, gen, immutable, stateFile, pidFile, task, hold,
                      loadedByUs, added >>
      /\ Target(v)' = Target(v) /\ Lib(v)' = Lib(v) /\ task'[v] = task[v]
      /\ \A l : Inode(l)' = Inode(l)
  BY SameTarget DEF Trap, kernelVars, fileVars, Inode
<1>3. ManagerAt(v) /\ ShellAt(v) /\ ModuleAt(v) /\ FilesAt(v)
  BY DEF AtWork
<1>4. /\ pc[v] = "trap"
      /\ \/ ~hold[v] /\ pc'[v] = "done" /\ mpc' = mpc
         \/ hold[v] /\ pc'[v] = "await" /\ pidFile # v /\ mpc' = mpc
         \/ /\ hold[v] /\ pc'[v] = "await"
            /\ mpc'[v] = IF mpc[v] = "pause" THEN "test"
                          ELSE IF mpc[v] \in {"handlers", "exited"} THEN "exited" ELSE mpc[v]
  <2>1. pidFile = NoPid \/ pidFile = v
    BY <1>3 DEF FilesAt
  <2>2. NoPid # v
    BY SessionConstants
  <2>3. hold[v] => mpc[v] \in {"handlers", "test", "pausing", "pause", "restore", "unprotect",
                              "forget", "exited"}
    BY <1>3 DEF Trap, ShellAt
  <2> QED BY <1>1, <2>1, <2>2, <2>3 DEF Trap, Terminate, HandlersInstalled, Go
<1>5. ManagerAt(v)' /\ ShellAt(v)'
  BY <1>2, <1>3, <1>4 DEF ShellAt, ManagerAt, Held, Both, Neither, Written, Erased, Exec
<1>6. ModuleAt(v)' /\ FilesAt(v)'
  BY <1>1, <1>2, <1>3, <1>4 DEF ShellAt, ModuleAt, FilesAt, Exec, Running
<1> QED BY <1>5, <1>6 DEF AtWork

\* A signal that the manager receives while the program runs.
LEMMA GroupSignals ==
  ASSUME TypeOK, NEW v \in Shells, AtWork(v), GroupSignal(v)
  PROVE  AtWork(v)'
<1>1. mpc \in [Shells -> ManagerSteps] /\ requested \in [Shells -> BOOLEAN]
  BY DEF TypeOK
<1>2. /\ UNCHANGED << module, lost, grafted, gen, immutable, stateFile, pidFile, task, pc, hold,
                      loadedByUs, added >>
      /\ Target(v)' = Target(v) /\ Lib(v)' = Lib(v) /\ task'[v] = task[v]
      /\ \A l : Inode(l)' = Inode(l)
  BY SameTarget DEF GroupSignal, kernelVars, fileVars, shellVars, Inode
<1>3. ManagerAt(v) /\ ShellAt(v) /\ ModuleAt(v) /\ FilesAt(v)
  BY DEF AtWork
<1>4. /\ pc[v] = "run"
      /\ \/ /\ mpc[v] \in {"handlers", "exited"} /\ mpc'[v] = "exited" /\ requested' = requested
         \/ /\ mpc[v] \notin {"handlers", "exited"} /\ requested'[v] = TRUE
            /\ mpc'[v] = IF mpc[v] = "pause" THEN "test" ELSE mpc[v]
  <2>1. mpc[v] \in {"handlers", "test", "pausing", "pause", "restore", "unprotect", "forget",
                   "exited"}
    BY <1>3 DEF GroupSignal, ShellAt
  <2> QED BY <1>1, <2>1 DEF GroupSignal, Terminate, HandlersInstalled
<1>5. ManagerAt(v)' /\ ShellAt(v)'
  BY <1>2, <1>3, <1>4 DEF ShellAt, ManagerAt, Held, Both, Neither, Written, Erased, Exec
<1>6. ModuleAt(v)' /\ FilesAt(v)'
  BY <1>1, <1>2, <1>3, <1>4 DEF ShellAt, ModuleAt, FilesAt, Exec, Running
<1> QED BY <1>5, <1>6 DEF AtWork

\* The manager of the shell at work.
LEMMA ManagerWork ==
  ASSUME TypeOK, KernelWorks, NEW v \in Shells, AtWork(v), ManagerStep(v)
  PROVE  AtWork(v)'
<1>1. /\ mpc \in [Shells -> ManagerSteps] /\ added \in [Shells -> BOOLEAN]
      /\ requested \in [Shells -> BOOLEAN] /\ task[v].cmd \in Commands
  BY TargetType DEF TypeOK
<1>2. /\ UNCHANGED << module, gen, task, pc, hold, loadedByUs, requested >>
      /\ Target(v)' = Target(v) /\ Lib(v)' = Lib(v) /\ task'[v] = task[v]
      /\ \A l : Inode(l)' = Inode(l)
  <2>1. UNCHANGED << module, gen, task, pc, hold, loadedByUs, requested >>
    BY DEF ManagerStep, ManagerReplace, ManagerProtect, ManagerState, ManagerPid, ManagerHandlers,
       ManagerTest, ManagerPause, ManagerRestore, ManagerUnprotect, ManagerForget, ManagerUndo,
       SendReplace, SendRestore, Kernel!Graft, kernelVars, fileVars, shellVars
  <2> QED BY <2>1, SameTarget DEF Inode
<1>3. ManagerAt(v) /\ ShellAt(v) /\ ModuleAt(v) /\ FilesAt(v)
  BY DEF AtWork
<1>4. mpc[v] \notin {"none", "pause", "exited"}
  BY DEF ManagerStep, ManagerReplace, ManagerProtect, ManagerState, ManagerPid, ManagerHandlers,
     ManagerTest, ManagerPause, ManagerRestore, ManagerUnprotect, ManagerForget, ManagerUndo
\* So the shell has started it and is not past its check.
<1>5. /\ pc[v] \in {"spawned", "poll", "run", "foreground", "trap", "await"}
      /\ pc[v] = "trap" => hold[v]
  BY <1>1, <1>3, <1>4 DEF ShellAt, TypeOK, ShellSteps
<1>6. module = "loaded"
  BY <1>3, <1>5 DEF ModuleAt
<1>7. CASE ManagerReplace(v)
  <2>1. /\ mpc[v] = "replace" /\ mpc'[v] = "protect" /\ grafted' = grafted \cup {Target(v)}
        /\ UNCHANGED << lost, immutable, stateFile, pidFile, added >>
    BY <1>1, <1>6, <1>7 DEF ManagerReplace, SendReplace, Accepting, KernelWorks, Kernel!Graft,
       ManagerGo, fileVars
  <2>2. /\ Target(v) \notin grafted \cup immutable /\ (Exec(v) => Erased)
        /\ pc[v] \in {"spawned", "poll", "foreground"}
    BY <1>3, <1>5, <2>1 DEF ManagerAt, ShellAt, Neither
  <2>3. ManagerAt(v)' /\ ShellAt(v)'
    BY <1>2, <1>3, <2>1, <2>2 DEF ManagerAt, ShellAt, Erased, Exec
  <2>4. ModuleAt(v)' /\ FilesAt(v)'
    <3>1. ModuleAt(v)'
      BY <1>2, <1>3, <2>1, <2>2 DEF ModuleAt, Exec, Running
    <3>2. Target(v) = Inode(Target(v)[1])
      BY DEF Target, Inode
    <3>3. FilesAt(v)'
      BY <1>2, <1>3, <2>1, <2>2, <3>2 DEF FilesAt, Running
    <3> QED BY <3>1, <3>3
  <2> QED BY <2>3, <2>4 DEF AtWork
<1>8. CASE ManagerProtect(v)
  <2>1. /\ mpc[v] = "protect" /\ UNCHANGED << lost, grafted, stateFile, pidFile >>
        /\ \/ /\ mpc'[v] = "state" /\ immutable' = immutable \cup {Target(v)}
              /\ added'[v] = (Target(v) \notin immutable)
           \/ mpc'[v] = "undo" /\ UNCHANGED << immutable, added >>
    BY <1>1, <1>8 DEF ManagerProtect, ManagerGo, kernelVars
  <2>2. Target(v) \in grafted \ immutable
    BY <1>3, <2>1 DEF ManagerAt
  <2>3. FilesAt(v)'
    BY <1>2, <1>3, <2>1, <2>2 DEF FilesAt, Running
  <2> QED BY <1>2, <1>3, <1>5, <2>1, <2>2, <2>3 DEF AtWork, ManagerAt, ShellAt, ModuleAt, Both,
       Erased, Exec, Running
<1>9. CASE ManagerState(v)
  <2>1. /\ mpc[v] = "state" /\ UNCHANGED << lost, grafted, immutable, pidFile, added >>
        /\ \/ /\ stateFile' = [lib |-> Lib(v), added |-> added[v]]
              /\ mpc'[v] = IF Exec(v) THEN "pid" ELSE "exited"
           \/ mpc'[v] = "undoAll" /\ stateFile' = stateFile
    BY <1>1, <1>9 DEF ManagerState, ManagerGo, kernelVars, Exec
  <2>2. Both(v) /\ added[v] = TRUE /\ (Exec(v) => Erased) /\ pc[v] \in {"spawned", "poll", "foreground"}
    BY <1>1, <1>3, <1>5, <2>1 DEF ManagerAt, ShellAt
  <2>3. ManagerAt(v)' /\ ShellAt(v)'
    BY <1>2, <1>3, <1>5, <2>1, <2>2 DEF ManagerAt, ShellAt, Held, Both, Written, Erased, Exec
  <2> QED BY <1>2, <1>3, <2>1, <2>2, <2>3 DEF AtWork, ModuleAt, FilesAt, Exec, Running
<1>10. CASE ManagerPid(v)
  <2>1. /\ mpc[v] = "pid" /\ mpc'[v] = "handlers" /\ pidFile' \in {v, pidFile}
        /\ UNCHANGED << lost, grafted, immutable, stateFile, added >>
    BY <1>1, <1>10 DEF ManagerPid, ManagerGo, kernelVars
  <2>2. pc[v] \in {"spawned", "poll"} /\ Held(v)
    BY <1>3, <1>5, <2>1 DEF ManagerAt, ShellAt
  <2>3. ManagerAt(v)' /\ ShellAt(v)'
    BY <1>2, <1>3, <2>1, <2>2 DEF ManagerAt, ShellAt, Held, Both, Written, Exec
  <2>4. FilesAt(v)'
    BY <1>2, <1>3, <2>1, <2>2 DEF FilesAt, ShellAt, Running
  <2> QED BY <1>2, <1>3, <2>1, <2>2, <2>3, <2>4 DEF AtWork, ModuleAt, Exec, Running
<1>11. CASE ManagerHandlers(v) \/ ManagerTest(v) \/ ManagerPause(v)
  <2>1. /\ \/ mpc[v] = "handlers" /\ mpc'[v] = "test"
           \/ mpc[v] = "test" /\ mpc'[v] = IF requested[v] THEN "restore" ELSE "pausing"
           \/ mpc[v] = "pausing" /\ mpc'[v] = "pause"
        /\ UNCHANGED << lost, grafted, immutable, stateFile, pidFile, added >>
    BY <1>1, <1>11 DEF ManagerHandlers, ManagerTest, ManagerPause, ManagerGo, kernelVars, fileVars
  <2>2. Held(v)
    BY <1>3, <2>1 DEF ManagerAt
  <2>3. ManagerAt(v)' /\ ShellAt(v)'
    BY <1>2, <1>3, <1>5, <2>1, <2>2 DEF ManagerAt, ShellAt, Held, Both, Written, Erased, Exec
  <2> QED BY <1>2, <1>3, <2>1, <2>3 DEF AtWork, ModuleAt, FilesAt, Exec, Running
<1>12. CASE ManagerRestore(v)
  <2>1. /\ mpc[v] = "restore" /\ mpc'[v] = "unprotect" /\ grafted' = grafted \ {Target(v)}
        /\ UNCHANGED << lost, immutable, stateFile, pidFile, added >>
    BY <1>1, <1>6, <1>12 DEF ManagerRestore, SendRestore, Accepting, KernelWorks, ManagerGo,
       fileVars
  <2>2. Held(v) /\ pc[v] \in {"run", "trap", "await"}
    BY <1>3, <1>5, <2>1 DEF ManagerAt, ShellAt
  <2> QED BY <1>2, <1>3, <2>1, <2>2 DEF AtWork, ManagerAt, ShellAt, ModuleAt, FilesAt, Held, Both,
       Written, Exec, Running
<1>13. CASE ManagerUnprotect(v) \/ ManagerForget(v)
  <2>1. /\ UNCHANGED << lost, grafted, added >>
        /\ \/ /\ mpc[v] = "unprotect" /\ mpc'[v] = "forget" /\ UNCHANGED << stateFile, pidFile >>
              /\ immutable' = IF added[v] THEN immutable \ {Target(v)} ELSE immutable
           \/ /\ mpc[v] = "forget" /\ mpc'[v] = "exited" /\ immutable' = immutable /\ Erased'
    BY <1>1, <1>13 DEF ManagerUnprotect, ManagerForget, ManagerGo, kernelVars, Erased
  <2>2. pc[v] \in {"run", "trap", "await"}
    BY <1>3, <1>5, <2>1 DEF ShellAt
  <2>3. ManagerAt(v)' /\ ShellAt(v)'
    BY <1>2, <1>3, <2>1, <2>2 DEF ManagerAt, ShellAt, Neither, Written, Erased, Exec
  <2>4. FilesAt(v)'
    BY <1>2, <1>3, <2>1, <2>2 DEF ManagerAt, FilesAt, Neither, Erased, Running
  <2> QED BY <1>2, <1>3, <2>1, <2>2, <2>3, <2>4 DEF AtWork, ModuleAt, Exec, Running
<1>14. CASE ManagerUndo(v)
  <2>1. /\ mpc[v] \in {"undo", "undoAll"} /\ mpc'[v] = "exited"
        /\ grafted' = grafted \ {Target(v)}
        /\ immutable' = IF mpc[v] = "undoAll" /\ added[v] THEN immutable \ {Target(v)} ELSE immutable
        /\ UNCHANGED << lost, stateFile, pidFile, added >>
    BY <1>1, <1>6, <1>14 DEF ManagerUndo, SendRestore, Accepting, KernelWorks, ManagerGo
  <2>2. pc[v] \in {"spawned", "poll", "foreground"} /\ (Exec(v) => Erased) /\ Neither(v)'
    BY <1>2, <1>3, <1>5, <2>1 DEF ManagerAt, ShellAt, Both, Neither
  <2>3. ManagerAt(v)' /\ ShellAt(v)'
    BY <1>2, <1>3, <2>1, <2>2 DEF ManagerAt, ShellAt, Erased, Exec
  <2>4. FilesAt(v)'
    BY <1>2, <1>3, <2>1 DEF ManagerAt, FilesAt, Both, Running
  <2> QED BY <1>2, <1>3, <2>1, <2>2, <2>3, <2>4 DEF AtWork, ModuleAt, Exec, Running
<1> QED BY <1>7, <1>8, <1>9, <1>10, <1>11, <1>12, <1>13, <1>14 DEF ManagerStep

\* The shells at rest stay at rest, whatever the one at work does.
LEMMA OthersRest ==
  ASSUME TypeOK, NEW v \in Shells, AtWork(v), NEW u \in Shells \ {v}, Resting(u),
         Start(v) \/ Disturbance(v) \/ ShellStep(v) \/ ManagerStep(v)
         \/ \E f \in grafted : KernelRestores(f)
  PROVE  Resting(u)'
<1>1. /\ pc \in [Shells -> ShellSteps] /\ hold \in [Shells -> BOOLEAN]
      /\ loadedByUs \in [Shells -> BOOLEAN] /\ mpc \in [Shells -> ManagerSteps]
      /\ requested \in [Shells -> BOOLEAN]
  BY DEF TypeOK
<1>2. pidFile = NoPid \/ pidFile = v
  BY DEF AtWork, FilesAt
<1>3. pc'[u] = pc[u] /\ hold'[u] = hold[u] /\ loadedByUs'[u] = loadedByUs[u]
      /\ mpc'[u] = mpc[u] /\ requested'[u] = requested[u]
  <2>1. CASE Start(v) \/ Disturbance(v)
    BY <1>1, <2>1 DEF Start, Disturbance, Interrupt, GroupSignal, Terminate, OrphanEnds, Go,
       managerVars, shellVars
  <2>2. CASE Trap(v)
    BY <1>1, <1>2, <2>2 DEF Trap, Terminate, Go
  <2>3. CASE ShellStep(v) /\ ~Trap(v)
    BY <1>1, <2>3 DEF ShellStep, Build, EnsureModule, Insmod, Clean, Spawn, HoldActive, ReplaceEnds,
       Ready, NotReady, ProgramEnds, Await, Check, Send, Unprotect, Forget, Unload, Unloaded, Go,
       ManagerGo, managerVars
  <2>4. CASE ManagerStep(v)
    BY <1>1, <2>4 DEF ManagerStep, ManagerReplace, ManagerProtect, ManagerState, ManagerPid,
       ManagerHandlers, ManagerTest, ManagerPause, ManagerRestore, ManagerUnprotect, ManagerForget,
       ManagerUndo, ManagerGo, shellVars
  <2>5. CASE \E f \in grafted : KernelRestores(f)
    BY <2>5 DEF KernelRestores, shellVars, managerVars
  <2> QED BY <2>1, <2>2, <2>3, <2>4, <2>5
<1> QED BY <1>3 DEF Resting

\* When the shell at work has ended, any shell may be the next.
LEMMA NextAtWork ==
  ASSUME NEW v \in Shells, AtWork(v), Resting(v), NEW u \in Shells, Resting(u)
  PROVE  AtWork(u)
<1>1. ManagerAt(v) /\ ShellAt(v) /\ ModuleAt(v) /\ FilesAt(v)
  BY DEF AtWork
<1>2. ManagerAt(u) /\ ShellAt(u)
  BY DEF Resting, ManagerAt, ShellAt
<1>3. ModuleAt(u) /\ FilesAt(u)
  BY <1>1 DEF Resting, ModuleAt, FilesAt, Running
<1> QED BY <1>2, <1>3 DEF AtWork

LEMMA InitSerial == Init => SerialInv
<1> SUFFICES ASSUME Init PROVE SerialInv
  OBVIOUS
<1>1. PICK v \in Shells : TRUE
  BY SessionConstants
<1>2. \A u \in Shells : Resting(u)
  BY DEF Init, Resting
<1>3. AtWork(v)
  BY DEF Init, Kernel!Init, AtWork, ManagerAt, ShellAt, ModuleAt, FilesAt, Running
<1> QED BY <1>2, <1>3 DEF SerialInv

\* What the step of another shell than the one at work can be.
LEMMA Given ==
  ASSUME TypeOK, serial, NEW v \in Shells, NEW u \in Shells \ {v}, Resting(u),
         Start(u) \/ Disturbance(u) \/ ShellStep(u) \/ ManagerStep(u)
  PROVE  OrphanEnds(u) \/ (Start(u) /\ pc[v] \in {"new", "done"})
<1>1. pc[u] \in {"new", "done"} /\ mpc[u] \in {"none", "pause", "exited"}
  BY DEF Resting
<1>2. ~ManagerStep(u)
  BY <1>1 DEF ManagerStep, ManagerReplace, ManagerProtect, ManagerState, ManagerPid,
     ManagerHandlers, ManagerTest, ManagerPause, ManagerRestore, ManagerUnprotect, ManagerForget,
     ManagerUndo
<1>3. ~Interrupt(u) /\ ~GroupSignal(u)
  BY <1>1, SessionConstants DEF Interrupt, GroupSignal
<1>4. ~ShellStep(u)
  BY <1>1 DEF ShellStep, Build, EnsureModule, Insmod, Clean, Spawn, HoldActive, ReplaceEnds,
     Ready, NotReady, ProgramEnds, Trap, Await, Check, Send, Unprotect, Forget, Unload, Unloaded
<1>5. OrphanEnds(u) \/ Start(u)
  BY <1>2, <1>3, <1>4 DEF Disturbance
<1> QED BY <1>5 DEF Start

LEMMA SerialStep ==
  ASSUME Uninterrupted, KernelWorks, TypeOK, SerialInv, serial, Next
  PROVE  SerialInv'
<1>1. PICK v \in Shells : AtWork(v) /\ \A u \in Shells \ {v} : Resting(u)
  BY DEF SerialInv
\* A step of a shell w that may be taken as the one at work.
<1>2. ASSUME NEW w \in Shells, AtWork(w), \A u \in Shells \ {w} : Resting(u),
             Start(w) \/ Disturbance(w) \/ ShellStep(w) \/ ManagerStep(w)
             \/ \E f \in grafted : KernelRestores(f)
      PROVE  SerialInv'
  <2>1. AtWork(w)'
    <3>1. CASE OrphanEnds(w)
      BY <1>2, <3>1, SameAtWork DEF OrphanEnds, kernelVars, fileVars, managerVars
    <3> QED
      BY <1>2, <3>1, ControlSteps, FileSteps, Insmods, Sends, Unloads, Builds, Traps, GroupSignals,
         ManagerWork DEF ShellStep, Disturbance
  <2>2. \A u \in Shells \ {w} : Resting(u)'
    BY <1>2, OthersRest
  <2> QED BY <2>1, <2>2 DEF SerialInv
<1>3. ASSUME NEW u \in Shells \ {v}, Start(u) \/ Disturbance(u) \/ ShellStep(u) \/ ManagerStep(u)
      PROVE  SerialInv'
  <2>0. CASE OrphanEnds(u)
    <3>1. UNCHANGED << module, grafted, lost, gen, immutable, stateFile, pidFile, task, serial, pc,
                       hold, loadedByUs, mpc, added, requested >>
      BY <2>0 DEF OrphanEnds, kernelVars, fileVars, managerVars
    <3>2. AtWork(v)'
      BY <1>1, <3>1, SameAtWork
    <3> QED BY <1>1, <3>1, <3>2 DEF SerialInv, Resting
  <2>1. CASE Start(u) /\ pc[v] \in {"new", "done"}
    <3>1. Resting(v)
      BY <1>1, <2>1 DEF AtWork, ShellAt, Resting
    <3>2. AtWork(u)
      BY <1>1, <3>1, NextAtWork
    <3>3. \A w \in Shells \ {u} : Resting(w)
      BY <1>1, <3>1
    <3> QED BY <1>2, <2>1, <3>2, <3>3
  <2> QED BY <1>1, <1>3, <2>0, <2>1, Given
<1>4. CASE \E f \in grafted : KernelRestores(f)
  BY <1>1, <1>2, <1>4
<1>5. CASE \E w \in Shells : Start(w) \/ ShellStep(w) \/ ManagerStep(w) \/ Disturbance(w)
  BY <1>1, <1>2, <1>3, <1>5
<1> QED BY <1>4, <1>5 DEF Next

LEMMA SerialNext == Uninterrupted /\ KernelWorks /\ TypeOK /\ SerialInv /\ [Next]_vars => SerialInv'
<1> SUFFICES ASSUME Uninterrupted, KernelWorks, TypeOK, SerialInv, [Next]_vars
             PROVE  SerialInv'
  OBVIOUS
<1>1. serial' = serial
  BY DEF Next, vars, shellVars, Start, Disturbance, Interrupt, GroupSignal, OrphanEnds, ShellStep, Build, EnsureModule, Insmod, Clean, Spawn,
     HoldActive, ReplaceEnds, Ready, NotReady, ProgramEnds, Trap, Await, Check, Send, Unprotect,
     Forget, Unload, Unloaded, ManagerStep, ManagerReplace, ManagerProtect, ManagerState, ManagerPid,
     ManagerHandlers, ManagerTest, ManagerPause, ManagerRestore, ManagerUnprotect, ManagerForget,
     ManagerUndo, KernelRestores
<1>2. CASE UNCHANGED vars
  <2>1. UNCHANGED << module, grafted, lost, gen, immutable, stateFile, pidFile, task, serial, pc, hold,
                     loadedByUs, mpc, added, requested >>
    BY <1>2 DEF vars, kernelVars, fileVars, managerVars, shellVars
  <2>2. ASSUME NEW v \in Shells, AtWork(v) PROVE AtWork(v)'
    BY <2>1, <2>2, SameAtWork
  <2>3. ASSUME NEW u \in Shells, Resting(u) PROVE Resting(u)'
    BY <2>1, <2>3 DEF Resting
  <2> QED BY <2>1, <2>2, <2>3 DEF SerialInv
<1> QED BY <1>1, <1>2, SerialStep DEF SerialInv

LEMMA SerialCorrect ==
  ASSUME Uninterrupted, KernelWorks
  PROVE  Spec => [](TypeOK /\ SerialInv)
<1>1. Init => SerialInv
  BY InitSerial
<1>2. TypeOK /\ SerialInv /\ [Next]_vars => SerialInv'
  BY SerialNext
<1> QED BY <1>1, <1>2, TypeCorrect, PTL DEF Spec

\* While the script waits for the program of exec and no signal has reached their
\* manager, the program has the pages of its library grafted and the library
\* immutable (exec_with_replacement), when commands are given one at a time and the
\* kernel module does not fail, whatever was done before them and whichever other
\* step failed.
THEOREM ProgramOnGraft ==
  ASSUME Uninterrupted, KernelWorks
  PROVE  Spec => []AppOnGraft
<1>1. TypeOK /\ SerialInv => AppOnGraft
  <2> SUFFICES ASSUME SerialInv, serial, NEW v \in Shells, pc[v] = "run", ~requested[v]
               PROVE  Target(v) \in grafted \cap immutable
    BY DEF AppOnGraft
  <2>1. AtWork(v)
    BY DEF SerialInv, Resting
  <2>2. Both(v)
    BY <2>1 DEF AtWork, ShellAt
  <2> QED BY <2>2 DEF Both
<1> QED BY <1>1, SerialCorrect, PTL

\* Commands given one at a time never install a new library over one whose pages
\* are grafted (build_workspace, the immutable flag): what is grafted is what a
\* restore by path reaches.
THEOREM GraftsReachable ==
  ASSUME Uninterrupted, KernelWorks
  PROVE  Spec => []GraftReachable
<1>1. TypeOK /\ SerialInv => GraftReachable
  BY DEF SerialInv, AtWork, FilesAt, GraftReachable
<1> QED BY <1>1, SerialCorrect, PTL

\* An exec that has started its manager ends by one of two steps, and has undone
\* everything by then.
LEMMA LastStep ==
  ASSUME TypeOK, SerialInv, serial, Next, NEW v \in Shells,
         pc[v] # "done", pc'[v] = "done", hold[v]
  PROVE  /\ Unload(v) \/ Unloaded(v)
         /\ AtWork(v) /\ Exec(v) /\ Neither(v) /\ Erased
<1>1. AtWork(v) /\ \A u \in Shells \ {v} : Resting(u)
  BY DEF SerialInv, Resting
<1>2. pc[v] # "new" /\ pc \in [Shells -> ShellSteps]
  BY <1>1 DEF AtWork, ShellAt, TypeOK
<1>3. ASSUME NEW u \in Shells \ {v}
      PROVE  ~(Start(u) \/ Disturbance(u) \/ ShellStep(u) \/ ManagerStep(u))
  <2>1. Resting(u)
    BY <1>1
  <2>2. ~OrphanEnds(u)
    BY DEF OrphanEnds
  <2> QED BY <1>2, <2>1, <2>2, Given
<1>4. \A f \in grafted : ~KernelRestores(f)
  BY DEF KernelRestores, shellVars
<1>5. ~ManagerStep(v)
  BY DEF ManagerStep, ManagerReplace, ManagerProtect, ManagerState, ManagerPid, ManagerHandlers,
     ManagerTest, ManagerPause, ManagerRestore, ManagerUnprotect, ManagerForget, ManagerUndo, shellVars
<1>6. Start(v) \/ Disturbance(v) \/ ShellStep(v)
  BY <1>3, <1>4, <1>5 DEF Next
<1>7. ~Start(v) /\ ~Disturbance(v)
  BY <1>2 DEF Start, Disturbance, Interrupt, GroupSignal, OrphanEnds, Go, shellVars
<1>8. ~Trap(v)
  BY <1>2 DEF Trap, Go
<1>9. ~Send(v)
  BY <1>1, <1>2 DEF Send, Go, AtWork, ModuleAt, Accepting
<1>10. Unload(v) \/ Unloaded(v)
  BY <1>2, <1>6, <1>7, <1>8, <1>9 DEF ShellStep, Build, EnsureModule, Insmod, Clean, Spawn,
     HoldActive, ReplaceEnds, Ready, NotReady, ProgramEnds, Await, Check, Unprotect, Forget, Go
<1>11. pc[v] \in {"unload", "unloading"}
  BY <1>10 DEF Unload, Unloaded
<1> QED BY <1>1, <1>10, <1>11 DEF AtWork, ShellAt

\* An exec that has started its manager leaves nothing behind: when the script
\* ends no file at the path of its library is grafted or immutable and no state
\* file names one (cleanup_session), however its program ended, whether its manager
\* has answered the signal or was killed by it, and whichever of the manager's
\* steps had failed.
THEOREM ExecsRestore ==
  ASSUME Uninterrupted, KernelWorks
  PROVE  Spec => ExecRestores
<1> DEFINE Undone ==
      \A v \in Shells : serial /\ pc[v] # "done" /\ pc'[v] = "done" /\ hold[v] =>
        Installed(Lib(v))' = {} /\ stateFile' = NoState
<1>1. TypeOK /\ SerialInv /\ [Next]_vars => [Undone]_vars
  <2> SUFFICES ASSUME TypeOK, SerialInv, Next, serial, NEW v \in Shells,
                      pc[v] # "done", pc'[v] = "done", hold[v]
               PROVE  Installed(Lib(v))' = {} /\ stateFile' = NoState
    OBVIOUS
  <2>1. /\ Unload(v) \/ Unloaded(v)
        /\ AtWork(v) /\ Neither(v) /\ Erased
    BY LastStep
  <2>2. UNCHANGED << grafted, immutable, gen, stateFile, task >>
    BY <2>1 DEF Unload, Unloaded, Kernel!StartUnload, Kernel!EndUnload, kernelVars, fileVars
  <2>3. \A i \in grafted \cup immutable : i[1] # Lib(v)
    BY <2>1 DEF AtWork, FilesAt, Neither, Target
  <2>4. Lib(v)' = Lib(v)
    BY <2>2 DEF Lib
  <2> QED BY <2>1, <2>2, <2>3, <2>4 DEF Installed, Erased
<1>2. Spec => [](TypeOK /\ SerialInv)
  BY SerialCorrect
<1>3. ExecRestores <=> [][Undone]_vars
  BY DEF ExecRestores
<1> QED BY <1>1, <1>2, <1>3, PTL DEF Spec

\* Such an exec removes the kernel module if and only if it has loaded it
\* (PAGE_MODULE_LOADED_BY_US): a module that was there stays for those who use it.
THEOREM ModuleLeftAsFound ==
  ASSUME Uninterrupted, KernelWorks
  PROVE  Spec => ModuleAsFound
<1> DEFINE AsFound ==
      \A v \in Shells : serial /\ pc[v] # "done" /\ pc'[v] = "done" /\ hold[v] =>
        (module' = "out") = loadedByUs[v]
<1>1. TypeOK /\ SerialInv /\ [Next]_vars => [AsFound]_vars
  <2> SUFFICES ASSUME TypeOK, SerialInv, Next, serial, NEW v \in Shells,
                      pc[v] # "done", pc'[v] = "done", hold[v]
               PROVE  (module' = "out") = loadedByUs[v]
    OBVIOUS
  <2>1. /\ Unload(v) \/ Unloaded(v)
        /\ AtWork(v) /\ Exec(v)
    BY LastStep
  <2>2. loadedByUs[v] \in BOOLEAN /\ pc \in [Shells -> ShellSteps]
    BY DEF TypeOK
  <2>3. CASE Unload(v)
    <3>1. pc[v] = "unload" /\ module = "loaded"
      BY <2>1, <2>3 DEF Unload, AtWork, ModuleAt
    <3>2. loadedByUs[v] = FALSE
      BY <2>1, <2>2, <2>3, <3>1 DEF Unload, Exec, Go
    <3>3. module' = module
      BY <2>1, <2>3, <3>1, <3>2 DEF Unload, Exec, kernelVars
    <3> QED BY <3>1, <3>2, <3>3
  <2>4. CASE Unloaded(v)
    <3>1. pc[v] = "unloading" /\ module' = "out"
      BY <2>4 DEF Unloaded, Kernel!EndUnload
    <3>2. loadedByUs[v] = TRUE
      BY <2>1, <2>2, <3>1 DEF AtWork, ModuleAt
    <3> QED BY <3>1, <3>2
  <2> QED BY <2>1, <2>3, <2>4
<1>2. Spec => [](TypeOK /\ SerialInv)
  BY SerialCorrect
<1>3. ModuleAsFound <=> [][AsFound]_vars
  BY DEF ModuleAsFound
<1> QED BY <1>1, <1>2, <1>3, PTL DEF Spec

\* With commands given one at a time grafted pages stay until a command of their
\* own workspace, or a restore, takes them away: the exec of another workspace does
\* not, not even by unloading the kernel module.
THEOREM ReplaceStays ==
  ASSUME Uninterrupted, KernelWorks
  PROVE  Spec => SerialReplaceKept
<1>1. TypeOK /\ SerialInv /\ [Next]_vars => [serial => OnlyOwnersRestore]_vars
  <2> SUFFICES ASSUME TypeOK, SerialInv, Next, serial, NEW i \in grafted \ grafted'
               PROVE  \E u \in Shells : Working(u) /\ (Lib(u) = i[1] \/ task[u].cmd = "restore")
    BY DEF OnlyOwnersRestore
  <2>1. PICK v \in Shells : AtWork(v) /\ \A u \in Shells \ {v} : Resting(u)
    BY DEF SerialInv
  <2>2. ASSUME NEW u \in Shells, SendRestore(u), pc[u] = "send" \/ mpc[u] \in {"restore", "undo", "undoAll"}
        PROVE  Working(u) /\ Lib(u) = i[1]
    <3>1. i = Target(u)
      BY <2>2 DEF SendRestore
    <3>2. Lib(u) = i[1]
      BY <3>1 DEF Target, Inode
    <3> QED BY <2>2, <3>2 DEF Working
  <2>3. CASE \E u \in Shells : ShellStep(u) \/ ManagerStep(u) \/ Start(u) \/ Disturbance(u)
    <3>1. PICK u \in Shells : ShellStep(u) \/ ManagerStep(u) \/ Start(u) \/ Disturbance(u)
      BY <2>3
    <3>2. ~Start(u) /\ ~Disturbance(u)
      BY DEF Start, Disturbance, Interrupt, GroupSignal, OrphanEnds, kernelVars
    <3>3. CASE ShellStep(u)
      <4>1. Send(u)
        BY <3>3 DEF ShellStep, Build, EnsureModule, Insmod, Clean, Spawn, HoldActive, ReplaceEnds,
           Ready, NotReady, ProgramEnds, Trap, Await, Check, Unprotect, Forget, Unload, Unloaded,
           Kernel!Load, Kernel!StartUnload, Kernel!EndUnload, kernelVars
      <4> QED BY <2>2, <4>1 DEF Send, kernelVars
    <3>4. CASE ManagerStep(u)
      <4>1. ManagerRestore(u) \/ ManagerUndo(u)
        BY <3>4 DEF ManagerStep, ManagerReplace, ManagerProtect, ManagerState, ManagerPid,
           ManagerHandlers, ManagerTest, ManagerPause, ManagerUnprotect, ManagerForget, SendReplace,
           Kernel!Graft, kernelVars
      <4> QED BY <2>2, <4>1 DEF ManagerRestore, ManagerUndo, kernelVars
    <3> QED BY <3>1, <3>2, <3>3, <3>4
  <2>4. CASE \E f \in grafted : KernelRestores(f)
    <3>1. module = "leaving"
      BY <2>4 DEF KernelRestores
    <3>2. pc[v] = "unloading"
      BY <2>1, <3>1 DEF AtWork, ModuleAt
    <3>3. Working(v)
      BY <3>2 DEF Working
    <3>4. task[v].cmd = "restore" \/ grafted \subseteq {Target(v)}
      BY <2>1, <3>2 DEF AtWork, ShellAt, ModuleAt, Running
    <3>5. CASE grafted \subseteq {Target(v)}
      BY <3>3, <3>5 DEF Target, Inode
    <3> QED BY <3>3, <3>4, <3>5
  <2> QED BY <2>3, <2>4 DEF Next
<1>2. Spec => [](TypeOK /\ SerialInv)
  BY SerialCorrect
<1>3. SerialReplaceKept <=> [][serial => OnlyOwnersRestore]_vars
  BY DEF SerialReplaceKept
<1> QED BY <1>1, <1>2, <1>3, PTL DEF Spec
=============================================================================
