--------------------------- MODULE GuardedSession ---------------------------
(***************************************************************************)
(* The user side of a replacement: the script vkso (exec, replace,         *)
(* restore) and the program manager it starts.  Each invocation of vkso is *)
(* a shell; an exec or replace shell starts one manager.  They share the   *)
(* kernel module, the library files with their immutable flag, and one     *)
(* pair of files, runtime/manager.state and runtime/manager.pid, that      *)
(* belongs to the project and not to a workspace.                          *)
(*                                                                         *)
(* The kernel module is what GraftService promises; the pages of a library *)
(* are grafted and restored together.  A library is known by its path, and *)
(* every build installs a new file (inode) at the path.                    *)
(***************************************************************************)
EXTENDS Naturals, FiniteSets

CONSTANTS
  Shells,         \* the invocations of vkso
  Libs,           \* the paths of the libraries, one per workspace
  Tasks,          \* what an invocation may be asked: [cmd, lib, root, unload]
  Interruptible,  \* the steps at which a signal may reach a shell
  MayFail,        \* the operations that may fail
  NoState, NoPid, \* there is no manager.state, no manager.pid
  Serial          \* the values of the variable serial to look at

Commands   == {"exec", "replace", "restore"}
ShellSteps == {"new", "build", "module", "insmod", "clean", "spawn", "spawned", "poll",
               "run", "foreground", "trap", "await", "check", "send", "unprotect",
               "forget", "unload", "unloading", "done"}
ManagerSteps == {"none", "replace", "protect", "state", "pid", "handlers", "test",
                 "pausing", "pause", "restore", "unprotect", "forget", "undo",
                 "undoAll", "exited"}

ASSUME SessionConstants ==
  /\ Shells # {}
  /\ Tasks \subseteq [cmd : Commands, lib : Libs, root : BOOLEAN, unload : BOOLEAN]
  /\ Interruptible \subseteq {"build", "module", "insmod", "clean", "spawn", "spawned",
                          "poll", "run", "foreground"}
  /\ MayFail \subseteq {"insmod", "kernel", "protect", "state"}
  /\ Serial \subseteq BOOLEAN
  /\ NoPid \notin Shells /\ NoState \notin [lib : Libs, added : BOOLEAN]

Inodes == Libs \X Nat

VARIABLES
  module, grafted, lost,  \* the kernel: see GraftService
  gen,        \* the file that is installed at every path
  immutable,  \* the files with FS_IMMUTABLE_FL
  stateFile,  \* manager.state: stub_so and immutable_added
  pidFile,    \* manager.pid: whose manager it names
  task,       \* what every shell was asked
  serial,     \* is a command given only when those before it have ended
  program,    \* does the program that exec has started run
  pc,         \* what every shell does next
  hold,       \* HOLD_ACTIVE
  loadedByUs, \* PAGE_MODULE_LOADED_BY_US
  mpc,        \* what the manager of every shell does next
  added,      \* its immutable_added
  requested   \* its g_restore_requested

kernelVars  == << module, grafted, lost >>
fileVars    == << gen, immutable, stateFile, pidFile >>
managerVars == << mpc, added, requested >>
shellVars   == << task, serial, program, pc, hold, loadedByUs >>
vars == << kernelVars, fileVars, managerVars, shellVars >>

Kernel == INSTANCE GraftService WITH Places <- Inodes

-----------------------------------------------------------------------------
Lib(v)    == task[v].lib
Inode(l)  == << l, gen[l] >>
Target(v) == Inode(Lib(v))

Go(v, step)        == pc' = [pc EXCEPT ![v] = step]
ManagerGo(v, step) == mpc' = [mpc EXCEPT ![v] = step]

Init ==
  /\ Kernel!Init
  /\ gen = [l \in Libs |-> 0]
  /\ immutable = {}
  /\ stateFile = NoState
  /\ pidFile = NoPid
  /\ task \in [Shells -> Tasks]
  /\ serial \in Serial
  /\ program = [v \in Shells |-> FALSE]
  /\ pc = [v \in Shells |-> "new"]
  /\ hold = [v \in Shells |-> FALSE]
  /\ loadedByUs = [v \in Shells |-> FALSE]
  /\ mpc = [v \in Shells |-> "none"]
  /\ added = [v \in Shells |-> FALSE]
  /\ requested = [v \in Shells |-> FALSE]

-----------------------------------------------------------------------------
(* Messages to the kernel module.  A socket of its protocol exists only    *)
(* while it is loaded, the handler runs inside sendto, and nothing tells   *)
(* the sender what it did.                                                 *)

Accepting == module = "loaded"

SendReplace(v) ==
  /\ Accepting
  /\ Kernel!Graft(Target(v))
  /\ "kernel" \in MayFail \/ (Target(v) \in grafted' /\ lost' = lost)

\* restore_page_cache may fail, and leaves the page as it is.
SendRestore(v) ==
  /\ Accepting
  /\ grafted' \in {grafted \ {Target(v)}} \cup (IF "kernel" \in MayFail THEN {grafted} ELSE {})
  /\ UNCHANGED << module, lost >>

-----------------------------------------------------------------------------
(* The shell: main of vkso.                                                *)

Ended(v) == pc[v] = "done"

Start(v) ==
  /\ pc[v] = "new"
  /\ serial => \A u \in Shells \ {v} : pc[u] \in {"new", "done"}
  /\ IF task[v].cmd # "restore" THEN Go(v, "build")
     ELSE Go(v, IF gen[Lib(v)] > 0 /\ module # "out" THEN "send" ELSE "done")
  /\ UNCHANGED << kernelVars, fileVars, managerVars, task, serial, program, hold, loadedByUs >>

\* build_workspace: the last step installs the library, which fails while the
\* old one is immutable.
Build(v) ==
  /\ pc[v] = "build"
  /\ IF Target(v) \in immutable
     THEN Go(v, "trap") /\ UNCHANGED gen
     ELSE Go(v, "module") /\ gen' = [gen EXCEPT ![Lib(v)] = @ + 1]
  /\ UNCHANGED << kernelVars, immutable, stateFile, pidFile, managerVars, task, serial,
                  program, hold, loadedByUs >>

\* ensure_page_module asks lsmod, builds the module, and loads it.
EnsureModule(v) ==
  /\ pc[v] = "module"
  /\ Go(v, IF module = "out" THEN "insmod" ELSE IF task[v].cmd = "exec" THEN "clean" ELSE "spawn")
  /\ UNCHANGED << kernelVars, fileVars, managerVars, task, serial, program, hold, loadedByUs >>

Insmod(v) ==
  /\ pc[v] = "insmod"
  /\ \/ /\ Kernel!Load
        /\ loadedByUs' = [loadedByUs EXCEPT ![v] = TRUE]
        /\ Go(v, IF task[v].cmd = "exec" THEN "clean" ELSE "spawn")
     \/ /\ module # "out" \/ "insmod" \in MayFail
        /\ Go(v, "trap")
        /\ UNCHANGED << kernelVars, loadedByUs >>
  /\ UNCHANGED << fileVars, managerVars, task, serial, program, hold >>

\* exec_with_replacement: rm -f of whatever state and pid file there is.
Clean(v) ==
  /\ pc[v] = "clean"
  /\ stateFile' = NoState
  /\ pidFile' = NoPid
  /\ Go(v, "spawn")
  /\ UNCHANGED << kernelVars, gen, immutable, managerVars, task, serial, program, hold, loadedByUs >>

Spawn(v) ==
  /\ pc[v] = "spawn"
  /\ ManagerGo(v, "replace")
  /\ Go(v, IF task[v].cmd = "exec" THEN "spawned" ELSE "foreground")
  /\ UNCHANGED << kernelVars, fileVars, added, requested, task, serial, program, hold, loadedByUs >>

HoldActive(v) ==
  /\ pc[v] = "spawned"
  /\ hold' = [hold EXCEPT ![v] = TRUE]
  /\ Go(v, "poll")
  /\ UNCHANGED << kernelVars, fileVars, managerVars, task, serial, program, loadedByUs >>

\* replace_pages waits for the manager, which does not hold.
ReplaceEnds(v) ==
  /\ pc[v] = "foreground"
  /\ mpc[v] = "exited"
  /\ Go(v, "trap")
  /\ UNCHANGED << kernelVars, fileVars, managerVars, task, serial, program, hold, loadedByUs >>

\* Mutant: the program runs whatever the manager has done.
ReadyAtOnce(v) ==
  /\ pc[v] = "poll"
  /\ program' = [program EXCEPT ![v] = TRUE]
  /\ Go(v, "run")
  /\ UNCHANGED << kernelVars, fileVars, managerVars, task, serial, hold, loadedByUs >>

\* A pid file is there, whoever wrote it: the program runs.
Ready(v) ==
  /\ pc[v] = "poll"
  /\ pidFile # NoPid
  /\ program' = [program EXCEPT ![v] = TRUE]
  /\ Go(v, "run")
  /\ UNCHANGED << kernelVars, fileVars, managerVars, task, serial, hold, loadedByUs >>

\* The manager of v waits for a signal or is gone.  The limits of the shell, ten
\* seconds for the pid file and six for the state file, leave a manager that is
\* at work the time it needs: it sleeps two seconds and sends its messages.
Idle(v) == mpc[v] \in {"pause", "exited"}

\* The manager has exited (root), or no pid file appears in 40 rounds.
NotReady(v) ==
  /\ pc[v] = "poll"
  /\ pidFile = NoPid
  /\ Idle(v)
  /\ Go(v, "trap")
  /\ UNCHANGED << kernelVars, fileVars, managerVars, task, serial, program, hold, loadedByUs >>

ProgramEnds(v) ==
  /\ pc[v] = "run"
  /\ program' = [program EXCEPT ![v] = FALSE]
  /\ Go(v, "trap")
  /\ UNCHANGED << kernelVars, fileVars, managerVars, task, serial, hold, loadedByUs >>

\* A program that a signal to the script has left behind ends, or never does.
OrphanEnds(v) ==
  /\ pc[v] # "run" /\ program[v]
  /\ program' = [program EXCEPT ![v] = FALSE]
  /\ UNCHANGED << kernelVars, fileVars, managerVars, task, serial, pc, hold, loadedByUs >>

\* A signal ends the script: its EXIT trap runs, and does not wait for a program.
Interrupt(v) ==
  /\ pc[v] \in Interruptible
  /\ Go(v, "trap")
  /\ UNCHANGED << kernelVars, fileVars, managerVars, task, serial, program, hold, loadedByUs >>

-----------------------------------------------------------------------------
(* cleanup_session, the EXIT trap, and restore_pages.                      *)

\* Before its handlers are installed SIGTERM kills a manager; afterwards it sets
\* g_restore_requested, and wakes pause() if the manager is in it.
HandlersInstalled(u) ==
  mpc[u] \in {"test", "pausing", "pause", "restore", "unprotect", "forget"}

Terminate(u) ==
  IF HandlersInstalled(u)
  THEN /\ requested' = [requested EXCEPT ![u] = TRUE]
       /\ mpc' = IF mpc[u] = "pause" THEN [mpc EXCEPT ![u] = "test"] ELSE mpc
  ELSE /\ mpc' = IF mpc[u] = "none" THEN mpc ELSE [mpc EXCEPT ![u] = "exited"]
       /\ UNCHANGED requested

\* A signal to the process group of the script reaches its manager too, and may
\* leave program and script alive.
GroupSignal(v) ==
  /\ pc[v] = "run" /\ "run" \in Interruptible
  /\ Terminate(v)
  /\ UNCHANGED << kernelVars, fileVars, added, shellVars >>

Trap(v) ==
  /\ pc[v] = "trap"
  /\ IF hold[v]
     THEN /\ Go(v, "await")
          /\ IF pidFile # NoPid THEN Terminate(pidFile) ELSE UNCHANGED << mpc, requested >>
     ELSE /\ Go(v, "done")
          /\ UNCHANGED << mpc, requested >>
  /\ UNCHANGED << kernelVars, fileVars, added, task, serial, program, hold, loadedByUs >>

\* Mutant: the wait for the state file has no limit.
AwaitForever(v) ==
  /\ pc[v] = "await"
  /\ IF task[v].root THEN mpc[v] = "exited" ELSE stateFile = NoState
  /\ Go(v, "check")
  /\ UNCHANGED << kernelVars, fileVars, managerVars, task, serial, program, hold, loadedByUs >>

\* As root the shell waits for its child; with sudo -b it waits for the state
\* file to go, up to six seconds, in which a manager at work is done.
Await(v) ==
  /\ pc[v] = "await"
  /\ IF task[v].root THEN mpc[v] = "exited" ELSE stateFile = NoState \/ Idle(v)
  /\ Go(v, "check")
  /\ UNCHANGED << kernelVars, fileVars, managerVars, task, serial, program, hold, loadedByUs >>

\* Mutant: no second restore.
CheckNothing(v) ==
  /\ pc[v] = "check"
  /\ Go(v, "unload")
  /\ UNCHANGED << kernelVars, fileVars, managerVars, task, serial, program, hold, loadedByUs >>

Check(v) ==
  /\ pc[v] = "check"
  /\ Go(v, IF stateFile # NoState THEN "send" ELSE "unload")
  /\ UNCHANGED << kernelVars, fileVars, managerVars, task, serial, program, hold, loadedByUs >>

\* manager restore: main sends the messages; when that fails it stops, and so
\* does a vkso restore, but not the trap (set +e).
Send(v) ==
  /\ pc[v] = "send"
  /\ \/ SendRestore(v) /\ Go(v, "unprotect")
     \/ /\ ~Accepting
        /\ Go(v, IF task[v].cmd = "restore" THEN "done" ELSE "unload")
        /\ UNCHANGED kernelVars
  /\ UNCHANGED << fileVars, managerVars, task, serial, program, hold, loadedByUs >>

\* load_managed_immutable_state and clear_managed_immutable.
Unprotect(v) ==
  /\ pc[v] = "unprotect"
  /\ immutable' = IF stateFile = [lib |-> Lib(v), added |-> TRUE]
                  THEN immutable \ {Target(v)} ELSE immutable
  /\ Go(v, "forget")
  /\ UNCHANGED << kernelVars, gen, stateFile, pidFile, managerVars, task, serial, program, hold, loadedByUs >>

\* remove_manager_state.
Forget(v) ==
  /\ pc[v] = "forget"
  /\ stateFile' = NoState
  /\ pidFile' = NoPid
  /\ Go(v, "unload")
  /\ UNCHANGED << kernelVars, gen, immutable, managerVars, task, serial, program, hold, loadedByUs >>

\* Mutant: exec removes the module whoever loaded it.
UnloadAlways(v) ==
  /\ pc[v] = "unload"
  /\ IF module = "loaded" /\ (task[v].cmd = "exec" \/ task[v].unload)
     THEN Kernel!StartUnload /\ Go(v, "unloading")
     ELSE Go(v, "done") /\ UNCHANGED kernelVars
  /\ UNCHANGED << fileVars, managerVars, task, serial, program, hold, loadedByUs >>

\* rmmod, when the module was loaded by this exec or --unload-module says so.
Unload(v) ==
  /\ pc[v] = "unload"
  /\ IF module = "loaded" /\ (IF task[v].cmd = "exec" THEN loadedByUs[v] ELSE task[v].unload)
     THEN Kernel!StartUnload /\ Go(v, "unloading")
     ELSE Go(v, "done") /\ UNCHANGED kernelVars
  /\ UNCHANGED << fileVars, managerVars, task, serial, program, hold, loadedByUs >>

Unloaded(v) ==
  /\ pc[v] = "unloading"
  /\ Kernel!EndUnload
  /\ Go(v, "done")
  /\ UNCHANGED << fileVars, managerVars, task, serial, program, hold, loadedByUs >>

\* page_replace_exit removes what is still grafted.
KernelRestores(f) ==
  /\ module = "leaving"
  /\ f \in grafted
  /\ Kernel!Remove(f)
  /\ UNCHANGED << fileVars, managerVars, shellVars >>

-----------------------------------------------------------------------------
(* The manager of shell v: main of manager.cpp, command replace.           *)

\* replace_elf_sections_by_page_info; two seconds of sleep follow.
ManagerReplace(v) ==
  /\ mpc[v] = "replace"
  /\ \/ SendReplace(v) /\ ManagerGo(v, "protect")
     \/ ~Accepting /\ ManagerGo(v, "exited") /\ UNCHANGED kernelVars
  /\ UNCHANGED << fileVars, added, requested, shellVars >>

\* Mutant: the file stays writable.
ManagerTrusts(v) ==
  /\ mpc[v] = "protect"
  /\ ManagerGo(v, "state")
  /\ UNCHANGED << kernelVars, fileVars, added, requested, shellVars >>

\* protect_file_immutable: a flag that is already there is not the manager's.
ManagerProtect(v) ==
  /\ mpc[v] = "protect"
  /\ \/ /\ immutable' = immutable \cup {Target(v)}
        /\ added' = [added EXCEPT ![v] = Target(v) \notin immutable]
        /\ ManagerGo(v, "state")
     \/ /\ "protect" \in MayFail
        /\ ManagerGo(v, "undo")
        /\ UNCHANGED << immutable, added >>
  /\ UNCHANGED << kernelVars, gen, stateFile, pidFile, requested, shellVars >>

\* write_manager_state, its first file.
ManagerState(v) ==
  /\ mpc[v] = "state"
  /\ \/ /\ stateFile' = [lib |-> Lib(v), added |-> added[v]]
        /\ ManagerGo(v, IF task[v].cmd = "exec" THEN "pid" ELSE "exited")
     \/ /\ "state" \in MayFail
        /\ ManagerGo(v, "undoAll")
        /\ UNCHANGED stateFile
  /\ UNCHANGED << kernelVars, gen, immutable, pidFile, added, requested, shellVars >>

\* Its second file: an error in writing it is ignored.
ManagerPid(v) ==
  /\ mpc[v] = "pid"
  /\ pidFile' \in {v} \cup (IF "state" \in MayFail THEN {pidFile} ELSE {})
  /\ ManagerGo(v, "handlers")
  /\ UNCHANGED << kernelVars, gen, immutable, stateFile, added, requested, shellVars >>

ManagerHandlers(v) ==
  /\ mpc[v] = "handlers"
  /\ ManagerGo(v, "test")
  /\ UNCHANGED << kernelVars, fileVars, added, requested, shellVars >>

\* while (!g_restore_requested) pause();
ManagerTest(v) ==
  /\ mpc[v] = "test"
  /\ ManagerGo(v, IF requested[v] THEN "restore" ELSE "pausing")
  /\ UNCHANGED << kernelVars, fileVars, added, requested, shellVars >>

ManagerPause(v) ==
  /\ mpc[v] = "pausing"
  /\ ManagerGo(v, "pause")
  /\ UNCHANGED << kernelVars, fileVars, added, requested, shellVars >>

\* When the messages cannot be sent neither flag nor state is touched.
ManagerRestore(v) ==
  /\ mpc[v] = "restore"
  /\ \/ SendRestore(v) /\ ManagerGo(v, "unprotect")
     \/ ~Accepting /\ ManagerGo(v, "exited") /\ UNCHANGED kernelVars
  /\ UNCHANGED << fileVars, added, requested, shellVars >>

ManagerUnprotect(v) ==
  /\ mpc[v] = "unprotect"
  /\ immutable' = IF added[v] THEN immutable \ {Target(v)} ELSE immutable
  /\ ManagerGo(v, "forget")
  /\ UNCHANGED << kernelVars, gen, stateFile, pidFile, added, requested, shellVars >>

ManagerForget(v) ==
  /\ mpc[v] = "forget"
  /\ stateFile' = NoState
  /\ pidFile' = NoPid
  /\ ManagerGo(v, "exited")
  /\ UNCHANGED << kernelVars, gen, immutable, added, requested, shellVars >>

\* The error paths of main: protect failed; the state could not be written.
ManagerUndo(v) ==
  /\ mpc[v] \in {"undo", "undoAll"}
  /\ SendRestore(v) \/ (~Accepting /\ UNCHANGED kernelVars)
  /\ immutable' = IF Accepting /\ mpc[v] = "undoAll" /\ added[v]
                  THEN immutable \ {Target(v)} ELSE immutable
  /\ ManagerGo(v, "exited")
  /\ UNCHANGED << gen, stateFile, pidFile, added, requested, shellVars >>

-----------------------------------------------------------------------------
ShellStep(v) ==
  \/ Build(v) \/ EnsureModule(v) \/ Insmod(v) \/ Clean(v) \/ Spawn(v) \/ HoldActive(v)
  \/ ReplaceEnds(v) \/ Ready(v) \/ NotReady(v) \/ ProgramEnds(v)
  \/ Trap(v) \/ Await(v) \/ Check(v) \/ Send(v) \/ Unprotect(v) \/ Forget(v)
  \/ Unload(v) \/ Unloaded(v)

ManagerStep(v) ==
  \/ ManagerReplace(v) \/ ManagerProtect(v) \/ ManagerState(v) \/ ManagerPid(v)
  \/ ManagerHandlers(v) \/ ManagerTest(v) \/ ManagerPause(v) \/ ManagerRestore(v)
  \/ ManagerUnprotect(v) \/ ManagerForget(v) \/ ManagerUndo(v)

\* What no fairness is assumed of.
Disturbance(v) == Interrupt(v) \/ GroupSignal(v) \/ OrphanEnds(v)

Next ==
  \/ \E v \in Shells : Start(v) \/ ShellStep(v) \/ ManagerStep(v) \/ Disturbance(v)
  \/ \E f \in grafted : KernelRestores(f)

Spec == Init /\ [][Next]_vars

\* Shells and managers run to their end; the program that exec runs ends.  No
\* fairness for the user: commands and signals may never come.
Fairness ==
  /\ \A v \in Shells : WF_vars(ShellStep(v)) /\ WF_vars(ManagerStep(v))
  /\ WF_vars(\E f \in grafted : KernelRestores(f))

FairSpec == Spec /\ Fairness

-----------------------------------------------------------------------------
(* What the sessions promise.                                              *)

\* The types of the variables (what the script and the manager hold); a file
\* with the immutable flag or with grafted pages has been installed.
TypeOK ==
  /\ module \in {"out", "loaded", "leaving"} /\ lost \in BOOLEAN
  /\ gen \in [Libs -> Nat]
  /\ grafted \cup immutable \subseteq Inodes
  /\ \A i \in grafted \cup immutable : i[2] <= gen[i[1]]
  /\ stateFile \in [lib : Libs, added : BOOLEAN] \cup {NoState}
  /\ pidFile \in Shells \cup {NoPid}
  /\ task \in [Shells -> Tasks] /\ serial \in BOOLEAN /\ program \in [Shells -> BOOLEAN]
  /\ pc \in [Shells -> ShellSteps] /\ hold \in [Shells -> BOOLEAN]
  /\ loadedByUs \in [Shells -> BOOLEAN]
  /\ mpc \in [Shells -> ManagerSteps]
  /\ added \in [Shells -> BOOLEAN] /\ requested \in [Shells -> BOOLEAN]

\* With one command at a time the program that exec runs finds its library
\* grafted and immutable for as long as the script waits for it and its manager
\* has not been signalled (exec_with_replacement waits for the pid file, which the
\* manager writes last).  After a signal to the script or to its manager the pages
\* are taken away under a program that goes on: nothing is said of it then.
AppOnGraft ==
  serial => \A v \in Shells :
    program[v] /\ pc[v] = "run" /\ ~requested[v] => Target(v) \in grafted \cap immutable

Installed(l) == {i \in grafted \cup immutable : i[1] = l}

\* With one command at a time, and a kernel module that does not fail, exec leaves
\* nothing behind that it has begun: no page of any file at the path of its library
\* is grafted, none is immutable, and no state file is there (vkso: exec restores
\* the pages when the program ends, fails, or the script receives a signal).
ExecRestores ==
  [][\A v \in Shells : serial /\ pc[v] # "done" /\ pc'[v] = "done" /\ hold[v] =>
        Installed(Lib(v))' = {} /\ stateFile' = NoState]_vars

\* With one command at a time an exec that has begun unloads the kernel module
\* if and only if it has loaded it.
ModuleAsFound ==
  [][\A v \in Shells : serial /\ pc[v] # "done" /\ pc'[v] = "done" /\ hold[v] =>
        (module' = "out") = loadedByUs[v]]_vars

\* With one command at a time what is grafted can be restored by name: it is the
\* file now installed at its path, because the flag keeps build from replacing it.
GraftReachable == serial => \A i \in grafted : i = Inode(i[1])

Working(u) == pc[u] \notin {"new", "done"} \/ mpc[u] \notin {"none", "exited"}

OnlyOwnersRestore ==
  \A i \in grafted \ grafted' :
    \E u \in Shells : Working(u) /\ (Lib(u) = i[1] \/ task[u].cmd = "restore")

\* Grafted pages stay until a command of their own workspace, or a restore, takes
\* them away (README: replace keeps them until an explicit restore).
ReplaceKept == [][OnlyOwnersRestore]_vars

\* The same for commands given one at a time.
SerialReplaceKept == [][serial => OnlyOwnersRestore]_vars

\* With sudo an exec always returns, whatever the manager and other commands do:
\* every wait of the shell has a limit.
ExecReturns ==
  \A v \in Shells : ~task[v].root => (pc[v] # "new" ~> pc[v] = "done")

\* A manager that received a signal restores and exits (manager.cpp, usage).
RestoresOnSignal == \A v \in Shells : requested[v] ~> mpc[v] = "exited"
=============================================================================
