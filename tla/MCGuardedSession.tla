-------------------------- MODULE MCGuardedSession --------------------------
(* Instances of GuardedSession for TLC: what the shells are asked to do.   *)
EXTENDS GuardedSession, Sequences, TLC

CONSTANTS a, b, c, s1, s2, s3

Task(cmd, l, root, unload) == [cmd |-> cmd, lib |-> l, root |-> root, unload |-> unload]

ExecA    == Task("exec", a, FALSE, FALSE)
RootExec == Task("exec", a, TRUE, FALSE)
ExecB    == Task("exec", b, FALSE, FALSE)
Replace  == Task("replace", a, FALSE, FALSE)
Restore  == Task("restore", a, FALSE, FALSE)
Remove   == Task("restore", a, FALSE, TRUE)

\* A restore of a workspace that was never built: it ends at once.
Nothing == Task("restore", c, FALSE, FALSE)

\* Two workspaces: exec by root or with sudo, replace, and both restores.
InOrder   == << Replace, ExecA, RootExec, ExecB, Restore, Remove >>
EveryTask == {InOrder[i] : i \in 1 .. Len(InOrder)} \cup {Nothing}

\* One exec, with sudo.
SudoExec == {ExecA}

\* An exec of one workspace and a replace of another.
ExecAndReplace == {ExecB, Replace}

Asked(t) == s1 :> t[1] @@ s2 :> t[2] @@ s3 :> t[3]

\* Three commands, one perhaps twice, given in any order: which shell has which
\* task is no matter.
AnyThree ==
  { Asked(<< InOrder[i], InOrder[j], InOrder[k] >>) :
      << i, j, k >> \in {t \in (1 .. Len(InOrder)) \X (1 .. Len(InOrder)) \X (1 .. Len(InOrder)) :
                        t[1] <= t[2] /\ t[2] < t[3]} }

\* Two commands that overlap: an exec beside a replace of another workspace, a
\* replace beside a restore that unloads.
Overlaps == { Asked(<< ExecB, Replace, Nothing >>), Asked(<< Replace, Remove, Nothing >>) }

\* What does not hold: the program may run on while trap or manager restore, and a
\* build may replace a library before its flag is set.
AliveOnGraft  == \A v \in Shells : program[v] => Target(v) \in grafted
AlwaysByName  == \A i \in grafted : i = Inode(i[1])

\* An exec and a replace of one workspace.
SameLibrary == {ExecA, Replace}

MCInit == Init /\ task \in (IF serial THEN AnyThree ELSE Overlaps)
MCSpec == MCInit /\ [][Next]_vars /\ Fairness
=============================================================================
