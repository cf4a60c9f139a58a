-------------------------- MODULE MCPageCacheGraft --------------------------
(* Instances of PageCacheGraft for TLC: the messages that senders may send. *)
EXTENDS PageCacheGraft, TLC

CONSTANTS f1, f2, k1, k2, k3

ThreePages == { << f1, 1 >>, << f1, 2 >>, << f2, 3 >> }
TwoFiles   == { << f1, 1 >>, << f2, 1 >> }
TwoPages   == { << f1, 1 >>, << f1, 2 >> }
TwoDSOs    == { << f1, 1 >>, << f2, 2 >> }

Graft(i, k) == [index |-> i, page |-> k]
Message(f, pages) == [file |-> f, pages |-> pages]

\* Two DSOs whose page indices differ, one message with an address that the
\* kernel module cannot resolve.
DisjointIndices ==
  { Message(f1, << Graft(1, k1), Graft(2, k2) >>), Message(f1, << Graft(2, k2), Graft(1, NoPage) >>),
    Message(f2, << Graft(3, k3) >>) }

\* Two DSOs that both use page index 1, as every generated DSO does.
SameIndex == { Message(f1, << Graft(1, k1) >>), Message(f2, << Graft(1, k2) >>) }

\* One DSO, sent in one message or page by page.
OneFile ==
  { Message(f1, << Graft(1, k1), Graft(2, k2) >>), Message(f1, << Graft(2, k2) >>) }

OnePage == { Message(f1, << Graft(1, k1) >>) }

\* One page of each of two DSOs, each with a page of its own.
OnePageEach == { Message(f1, << Graft(1, k1) >>), Message(f2, << Graft(2, k2) >>) }

\* Once a deletion has strayed nrpages and the references may go wrong without
\* bound, and the invariants about them say nothing more.
BeforeStray == ~stray

\* No sender is told from another.
SenderSymmetry == Permutations(Threads)
=============================================================================
