---------------------------- MODULE GraftService ----------------------------
(***************************************************************************)
(* What the kernel module page_cache_replace promises to its users: while  *)
(* it is loaded pages of files may be grafted, a page leaves the set only  *)
(* by a removal, and unloading ends only when no page is grafted, unless   *)
(* the module has lost track of one.                                       *)
(***************************************************************************)
CONSTANT Places    \* the pages that may be grafted

VARIABLES
  module,   \* "out", "loaded" or "leaving"
  grafted,  \* the places that show kernel code
  lost      \* has a graft been left without a record

service == << module, grafted, lost >>

Init == module = "out" /\ grafted = {} /\ lost = FALSE

Load ==
  /\ module = "out"
  /\ module' = "loaded"
  /\ UNCHANGED << grafted, lost >>

\* A page is grafted; the attempt may fail, and may find the records full.
Graft(p) ==
  /\ module = "loaded"
  /\ grafted' \in {grafted, grafted \cup {p}}
  /\ lost' \in {lost, TRUE}
  /\ UNCHANGED module

Remove(p) ==
  /\ module \in {"loaded", "leaving"}
  /\ grafted' = grafted \ {p}
  /\ UNCHANGED << module, lost >>

StartUnload ==
  /\ module = "loaded"
  /\ module' = "leaving"
  /\ UNCHANGED << grafted, lost >>

EndUnload ==
  /\ module = "leaving"
  /\ grafted = {} \/ lost
  /\ module' = "out"
  /\ UNCHANGED << grafted, lost >>

Next ==
  \/ Load \/ StartUnload \/ EndUnload
  \/ \E p \in Places : Graft(p) \/ Remove(p)

Spec == Init /\ [][Next]_service
=============================================================================
