----------------------- MODULE FunctionChecker_proofs -----------------------
(***************************************************************************)
(* Proofs about FunctionChecker, for any programs: any files, names,       *)
(* relocations and code.                                                   *)
(***************************************************************************)
EXTENDS FunctionChecker, FiniteSetTheorems, WellFoundedInduction, TLAPS

\* A set of natural numbers has a least one.
LEMMA LeastNat ==
  ASSUME NEW S \in SUBSET Nat, S # {}
  PROVE  \E i \in S : \A j \in S : i <= j
<1>1. \A x, y \in Nat : << y, x >> \in OpToRel(<, Nat) <=> y < x
  BY DEF OpToRel
<1>2. PICK R : IsWellFoundedOn(R, Nat) /\ \A x, y \in Nat : << y, x >> \in R <=> y < x
  BY <1>1, NatLessThanWellFounded
<1>3. PICK x \in S : \A y \in S : ~(<< y, x >> \in R)
  BY <1>2, WFMin
<1>4. ASSUME NEW y \in S PROVE x <= y
  <2>1. x \in Nat /\ y \in Nat /\ ~(y < x)
    BY <1>2, <1>3
  <2> QED BY <2>1
<1> QED BY <1>4

\* The symbols of a table have names.
LEMMA SymbolAt ==
  ASSUME NEW q \in Seq(Symbol), NEW i \in DOMAIN q
  PROVE  q[i] \in Symbol /\ q[i].name \in Names \cup {NoName}
<1>1. q[i] \in Symbol
  OBVIOUS
<1> QED BY <1>1 DEF Symbol

-----------------------------------------------------------------------------
(* The lookups return what the files have.                                   *)

\* The file that is found defines the name.
LEMMA OwnerFound ==
  ASSUME NEW p \in Programs, NEW n, resolve_symbol_owner(p, n) # NoOwner
  PROVE  /\ resolve_symbol_owner(p, n) \in DOMAIN p.files
         /\ n \in DOMAIN OwnerFile(p, n).sym_dict
         /\ Sym(p, n) \in Symbol /\ OwnerFile(p, n).syms \in Seq(Symbol)
<1> DEFINE ks == Owners(p, n)
<1>1. ks # {} /\ ks \subseteq Nat
  BY ProgramConstants DEF resolve_symbol_owner, Owners
<1>2. PICK k \in ks : \A j \in ks : k <= j
  BY <1>1, LeastNat
<1>3. resolve_symbol_owner(p, n) \in ks
  BY <1>1, <1>2 DEF resolve_symbol_owner
<1> QED
  BY <1>3, ProgramConstants DEF Owners, OwnerFile, Sym

LEMMA FirstNameType ==
  ASSUME NEW f, f.syms \in Seq(Symbol), NEW hits \in SUBSET DOMAIN f.syms
  PROVE  FirstName(f, hits) \in Names \cup {NoName}
<1>1. CASE hits = {}
  BY <1>1 DEF FirstName
<1>2. CASE hits # {}
  <2>1. hits \subseteq Nat
    OBVIOUS
  <2>2. PICK i \in hits : \A j \in hits : i <= j
    BY <1>2, <2>1, LeastNat
  <2>3. (CHOOSE k \in hits : \A j \in hits : k <= j) \in hits
    BY <2>2
  <2>4. \A k \in DOMAIN f.syms : f.syms[k].name \in Names \cup {NoName}
    BY SymbolAt
  <2> QED
    BY <1>2, <2>3, <2>4 DEF FirstName
<1> QED BY <1>1, <1>2

LEMMA ResolvedType ==
  ASSUME NEW f, f.syms \in Seq(Symbol), NEW sec, NEW x
  PROVE  resolve_func_by_offset(f, sec, x) \in Names \cup {NoName}
  BY FirstNameType DEF resolve_func_by_offset

\* What an instruction leads to is a name or nothing.
LEMMA OutcomeName ==
  ASSUME NEW f, f.syms \in Seq(Symbol), NEW s, NEW shims, NEW a
  PROVE  Outcome(f, s, shims, a).name \in Names \cup {NoName}
<1> DEFINE r == _find_relocation_for_instruction(f, s, a)
           t == f.syms[r.sym]
<1>1. Recorded("unanalyzable").name = NoName /\ Recorded("hard_fails").name = NoName
      /\ Recorded("manifest_got").name = NoName /\ Recorded("manifest_instrumentation").name = NoName
      /\ Recorded("shim_hits").name = NoName /\ Nothing.name = NoName
  BY DEF Recorded, Nothing, Queued
<1>2. ASSUME NEW n PROVE Queued(n).name = n
  BY DEF Queued
<1>3. ASSUME r.sym \in DOMAIN f.syms PROVE t.name \in Names \cup {NoName}
  BY <1>3, SymbolAt
<1>4. ASSUME NEW sec, NEW x
      PROVE  QueuedOrGap(resolve_func_by_offset(f, sec, x)).name \in Names \cup {NoName}
  BY <1>1, <1>2, ResolvedType DEF QueuedOrGap
<1>5. ASSUME r.sym \in DOMAIN f.syms PROVE LocalCode(f, s, a, r, t).name \in Names \cup {NoName}
  BY <1>2, <1>3, <1>4, <1>5 DEF LocalCode
<1>6. ASSUME r.sym \in DOMAIN f.syms PROVE PcRelative(f, s, shims, a, r, t).name \in Names \cup {NoName}
  <2> HIDE DEF r, t
  <2> QED BY <1>1, <1>2, <1>3, <1>5, <1>6 DEF PcRelative
<1>7. Reference(f, s, shims, a).name \in Names \cup {NoName}
  <2> HIDE DEF r, t
  <2>1. Reference(f, s, shims, a) =
          IF r.sym \notin DOMAIN f.syms THEN Recorded("unanalyzable")
          ELSE IF r.type = "abs" THEN Recorded("hard_fails")
          ELSE IF r.type = "pc" THEN PcRelative(f, s, shims, a, r, t)
          ELSE Nothing
    BY DEF Reference, r, t
  <2>2. CASE r.sym \notin DOMAIN f.syms
    <3>1. Reference(f, s, shims, a) = Recorded("unanalyzable")
      BY <2>1, <2>2
    <3> QED BY <3>1, <1>1
  <2>3. CASE r.sym \in DOMAIN f.syms /\ r.type = "abs"
    <3>1. Reference(f, s, shims, a) = Recorded("hard_fails")
      BY <2>1, <2>3
    <3> QED BY <3>1, <1>1
  <2>4. CASE r.sym \in DOMAIN f.syms /\ r.type = "pc"
    <3>1. Reference(f, s, shims, a) = PcRelative(f, s, shims, a, r, t)
      BY <2>1, <2>4
    <3> QED BY <3>1, <1>6, <2>4
  <2>5. CASE r.sym \in DOMAIN f.syms /\ r.type \notin {"abs", "pc"}
    <3>1. Reference(f, s, shims, a) = Nothing
      BY <2>1, <2>5
    <3> QED BY <3>1, <1>1
  <2> QED BY <2>2, <2>3, <2>4, <2>5
<1>8. DirectTarget(f, s, a) \in Names \cup {NoName}
  BY ResolvedType DEF DirectTarget
<1> QED
  BY <1>1, <1>2, <1>7, <1>8 DEF Outcome

\* The instructions of a function are at natural addresses.
LEMMA InsnAddresses ==
  ASSUME NEW f, NEW s \in Symbol
  PROVE  disasm(f, s) \subseteq Nat
  BY DEF disasm, Symbol

-----------------------------------------------------------------------------
(* The queue as a set.                                                       *)

LEMMA Popped ==
  ASSUME queue \in Seq(Names), queue # << >>, queue' = Tail(queue), QueueFresh
  PROVE  /\ Head(queue) \in Names /\ Head(queue) \in Waiting
         /\ queue' \in Seq(Names) /\ Waiting' = Waiting \ {Head(queue)}
         /\ \A i, j \in DOMAIN queue' : queue'[i] = queue'[j] => i = j
<1>1. queue' \in Seq(Names) /\ Len(queue') = Len(queue) - 1 /\ Len(queue) \in Nat \ {0}
  OBVIOUS
<1>2. \A i \in DOMAIN queue' : i \in Nat /\ i + 1 \in DOMAIN queue /\ i + 1 # 1 /\ queue'[i] = queue[i + 1]
  BY <1>1
<1>3. Head(queue) = queue[1] /\ 1 \in DOMAIN queue
  BY <1>1
<1>4. \A i \in DOMAIN queue : i \in Nat /\ (i = 1 \/ (i - 1 \in DOMAIN queue' /\ queue[i] = queue'[i - 1]))
  BY <1>1, <1>2
<1>5. \A i, j \in DOMAIN queue : queue[i] = queue[j] => i = j
  BY DEF QueueFresh
<1>6. Waiting' \subseteq Waiting \ {Head(queue)}
  BY <1>2, <1>3, <1>5 DEF Waiting
<1>7. Waiting \ {Head(queue)} \subseteq Waiting'
  <2> SUFFICES ASSUME NEW i \in DOMAIN queue, queue[i] # Head(queue) PROVE queue[i] \in Waiting'
    BY DEF Waiting
  <2>1. i - 1 \in DOMAIN queue' /\ queue[i] = queue'[i - 1]
    BY <1>3, <1>4
  <2> QED BY <2>1 DEF Waiting
<1>8. \A i, j \in DOMAIN queue' : queue'[i] = queue'[j] => i = j
  <2> SUFFICES ASSUME NEW i \in DOMAIN queue', NEW j \in DOMAIN queue', queue'[i] = queue'[j] PROVE i = j
    OBVIOUS
  <2>1. i + 1 = j + 1
    BY <1>2, <1>5
  <2> QED BY <1>2, <2>1
<1>9. Head(queue) \in Names /\ Head(queue) \in Waiting
  BY <1>3 DEF Waiting
<1>10. Waiting' = Waiting \ {Head(queue)}
  BY <1>6, <1>7
<1> QED
  BY <1>1, <1>8, <1>9, <1>10

LEMMA Pushed ==
  ASSUME queue \in Seq(Names), NEW n \in Names \cup {NoName}, queue' = queue_func(n), visited' = visited, QueueFresh
  PROVE  /\ queue' \in Seq(Names) /\ QueueFresh'
         /\ Waiting \subseteq Waiting' /\ Waiting' \subseteq Waiting \cup ({n} \ {NoName})
         /\ n \in visited \cup Waiting' \cup {NoName}
<1>1. CASE n = NoName \/ n \in visited \/ n \in Waiting
  <2>1. queue' = queue
    BY <1>1 DEF queue_func
  <2> QED BY <2>1, <1>1 DEF QueueFresh, Waiting
<1>2. CASE ~(n = NoName \/ n \in visited \/ n \in Waiting)
  <2>1. queue' = Append(queue, n) /\ n \in Names
    BY <1>2 DEF queue_func
  <2>2. queue' \in Seq(Names) /\ DOMAIN queue' = DOMAIN queue \cup {Len(queue) + 1}
        /\ Len(queue) + 1 \notin DOMAIN queue
    BY <2>1
  <2>3. queue'[Len(queue) + 1] = n /\ \A i \in DOMAIN queue : queue'[i] = queue[i]
    BY <2>1
  <2>4. Waiting' = Waiting \cup {n}
    BY <2>2, <2>3 DEF Waiting
  <2>5. \A i \in DOMAIN queue : queue[i] # n
    BY <1>2 DEF Waiting
  <2> QED BY <1>2, <2>2, <2>3, <2>4, <2>5 DEF QueueFresh
<1> QED BY <1>1, <1>2

-----------------------------------------------------------------------------
(* The inductive invariant.                                                  *)

\* Types, the queue, and the verdict comes last.
Shape ==
  /\ prog \in Programs /\ TypeOK /\ QueueFresh
  /\ func \in visited \cup {NoName}
  /\ exit_code # NoCode => func = NoName /\ queue = << >>

F == prog.files[elf]
Result(a) == Outcome(F, sym, prog.shims, a)
Op(a) == InsnAt(F, sym, a).op

\* While instructions are left, those analysed are not privileged.
NoneStopped == func # NoName /\ left # {} => \A b \in disasm(F, sym) \ left : Op(b) # "priv"

\* What the analysed code leads to is known,
Known == visited \cup Waiting
Reach ==
  /\ prog.target \in Known
  /\ \A n \in visited : n # func => Follows(prog, n) \subseteq Known
  /\ func # NoName => \A a \in Examined(F, sym) \ left : Result(a).name \in Known \cup {NoName}

\* and what is known is in every closed set.
Minimal == \A S \in SUBSET Names : ClosedUnder(prog, S) => Known \subseteq S

\* The lists of the report against the code analysed so far.
ForbiddenSoFar ==
  \/ \E a \in Scanned(F, sym) \ left : Op(a) = "priv"
  \/ \E a \in Examined(F, sym) \ left : Result(a).list = "hard_fails"

GapSoFar == \E a \in Examined(F, sym) \ left : Result(a).list = "unanalyzable"

FailsNoted ==
  found["hard_fails"] # {} <=>
    \/ \E n \in visited : n # func /\ Forbidden(prog, n)
    \/ func # NoName /\ ForbiddenSoFar

GapsNoted ==
  (found["missing_deps"] # {} \/ found["unanalyzable"] # {}) <=>
    \/ \E n \in visited : n # func /\ Gap(prog, n)
    \/ func # NoName /\ GapSoFar

Decided == exit_code # NoCode => exit_code = Verdict(found)

IInv == Shape /\ NoneStopped /\ Reach /\ Minimal /\ FailsNoted /\ GapsNoted /\ Decided

-----------------------------------------------------------------------------
\* The function under analysis is the one that its name stands for.
LEMMA Current ==
  ASSUME Shape, func # NoName
  PROVE  /\ Entry(prog, func) = "none" /\ func \in visited /\ func \in Names
         /\ F = OwnerFile(prog, func) /\ sym = Sym(prog, func) /\ left \subseteq disasm(F, sym)
         /\ sym \in Symbol /\ F.syms \in Seq(Symbol) /\ disasm(F, sym) \subseteq Nat
<1>1. /\ Entry(prog, func) = "none" /\ func \in visited /\ func \in Names
      /\ F = OwnerFile(prog, func) /\ sym = Sym(prog, func) /\ left \subseteq disasm(F, sym)
  BY DEF Shape, TypeOK, F, OwnerFile
<1>2. resolve_symbol_owner(prog, func) # NoOwner
  BY <1>1 DEF Entry
<1>3. prog \in Programs
  BY DEF Shape
<1>4. sym \in Symbol /\ F.syms \in Seq(Symbol)
  BY <1>1, <1>2, <1>3, OwnerFound
<1> QED BY <1>1, <1>4, InsnAddresses

\* All of it analysed is the whole function.
LEMMA AllAnalysed ==
  ASSUME Shape, func # NoName, left = {}
  PROVE  /\ ForbiddenSoFar <=> Forbidden(prog, func)
         /\ GapSoFar <=> Gap(prog, func)
         /\ Follows(prog, func) = {Result(a).name : a \in Examined(F, sym) \ left} \ {NoName}
<1>1. /\ Entry(prog, func) = "none" /\ F = OwnerFile(prog, func) /\ sym = Sym(prog, func)
  BY Current
<1>2. Scanned(F, sym) \ left = Scanned(F, sym) /\ Examined(F, sym) \ left = Examined(F, sym)
  OBVIOUS
<1>3. \A a : Op(a) = InsnAt(OwnerFile(prog, func), Sym(prog, func), a).op
  BY <1>1 DEF Op
<1>4. \A a : Result(a) = Outcome(OwnerFile(prog, func), Sym(prog, func), prog.shims, a)
  BY <1>1 DEF Result
<1>5. ForbiddenSoFar <=> Forbidden(prog, func)
  BY <1>1, <1>2, <1>3, <1>4 DEF ForbiddenSoFar, Forbidden
<1>6. GapSoFar <=> Gap(prog, func)
  BY <1>1, <1>2, <1>4 DEF GapSoFar, Gap
<1>7. Follows(prog, func) = {Result(a).name : a \in Examined(F, sym) \ left} \ {NoName}
  BY <1>1, <1>2, <1>4 DEF Follows
<1> QED BY <1>5, <1>6, <1>7

\* The least instruction that is left is one that the tool looks at; those
\* before it are the ones analysed.
LEMMA NextScanned ==
  ASSUME Shape, NoneStopped, func # NoName, NEW a \in left, IsNext(a)
  PROVE  a \in Scanned(F, sym) /\ (Op(a) # "priv" => a \in Examined(F, sym))
<1>1. left \subseteq disasm(F, sym) /\ disasm(F, sym) \subseteq Nat
  BY Current
<1>2. \A b \in disasm(F, sym) : b < a => b \notin left
  BY <1>1 DEF IsNext
<1>3. \A b \in disasm(F, sym) : b < a => InsnAt(F, sym, b).op # "priv"
  BY <1>2 DEF NoneStopped, Op
<1>4. a \in Scanned(F, sym)
  BY <1>1, <1>3 DEF Scanned
<1> QED BY <1>4 DEF Examined, Op

-----------------------------------------------------------------------------
LEMMA Initially == Init => IInv
<1> SUFFICES ASSUME Init PROVE IInv
  OBVIOUS
<1>1. prog \in Programs /\ prog.target \in Names /\ queue = << prog.target >> /\ visited = {} /\ left = {}
      /\ func = NoName /\ exit_code = NoCode /\ found = [l \in Lists |-> {}]
  BY ProgramConstants DEF Init
<1>2. Waiting = {prog.target}
  BY <1>1 DEF Waiting
<1>3. Shape
  BY <1>1, <1>2 DEF Shape, TypeOK, QueueFresh
<1>4. Reach /\ Minimal
  BY <1>1, <1>2 DEF Reach, Minimal, Known, ClosedUnder
<1>5. "hard_fails" \in Lists /\ "missing_deps" \in Lists /\ "unanalyzable" \in Lists
  BY DEF Lists
<1>6. FailsNoted /\ GapsNoted
  BY <1>1, <1>5 DEF FailsNoted, GapsNoted
<1> QED
  BY <1>1, <1>3, <1>4, <1>6 DEF IInv, NoneStopped, Decided

\* What a note changes.
LEMMA Noted ==
  ASSUME Shape, NEW l, NEW x \in visited' \X Nat, NEW static \in BOOLEAN, found' = Note(l, x, static), visited \subseteq visited'
  PROVE  /\ DOMAIN found' = Lists /\ \A k \in Lists : found'[k] \subseteq visited' \X Nat
         /\ found'["hard_fails"] # {} <=> found["hard_fails"] # {} \/ l = "hard_fails"
         /\ found'["missing_deps"] # {} <=> found["missing_deps"] # {} \/ l = "missing_deps"
         /\ found'["unanalyzable"] # {} <=> found["unanalyzable"] # {} \/ l = "unanalyzable"
<1>1. DOMAIN found = Lists /\ \A k \in Lists : found[k] \subseteq visited \X Nat
  BY DEF Shape, TypeOK
<1>2. DOMAIN found' = Lists
  BY DEF Note
<1>3. \A k \in Lists : found'[k] = IF k = l \/ (k = "static_refs" /\ static) THEN found[k] \cup {x} ELSE found[k]
  BY DEF Note
<1>4. \A k \in Lists : found'[k] \subseteq visited' \X Nat
  <2>1. ASSUME NEW k \in Lists, NEW y \in found[k] PROVE y \in visited' \X Nat
    <3>1. y \in visited \X Nat
      BY <1>1
    <3> QED BY <3>1
  <2>2. ASSUME NEW k \in Lists, NEW y \in found'[k] PROVE y \in found[k] \/ y = x
    BY <1>3
  <2> QED BY <2>1, <2>2
<1>5. {"hard_fails", "missing_deps", "unanalyzable"} \subseteq Lists \ {"static_refs"}
  BY DEF Lists
<1> QED BY <1>2, <1>3, <1>4, <1>5

LEMMA EntryKinds ==
  ASSUME NEW n
  PROVE  Entry(prog, n) \in {"missing_deps", "none", "unanalyzable"}
  BY DEF Entry

\* Taking a name moves it from the queue to the visited names.
LEMMA TakeName ==
  ASSUME IInv, NextFunction, NEW n, n = Head(queue)
  PROVE  /\ n \in Names /\ n \notin visited /\ visited' = visited \cup {n} /\ NoName \notin visited'
         /\ func = NoName /\ exit_code = NoCode /\ left = {} /\ prog' = prog /\ exit_code' = exit_code
         /\ queue' \in Seq(Names) /\ Waiting' = Waiting \ {n} /\ QueueFresh' /\ Known' = Known
<1>1. /\ func = NoName /\ queue # << >> /\ queue' = Tail(queue) /\ visited' = visited \cup {n}
      /\ prog' = prog /\ exit_code' = exit_code
  BY DEF NextFunction, Mark
<1>2. queue \in Seq(Names) /\ QueueFresh /\ left = {} /\ exit_code = NoCode
  BY <1>1 DEF IInv, Shape, TypeOK
<1>3. n \in Names /\ n \in Waiting /\ queue' \in Seq(Names) /\ Waiting' = Waiting \ {n}
      /\ \A i, j \in DOMAIN queue' : queue'[i] = queue'[j] => i = j
  BY <1>1, <1>2, Popped
<1>4. n \notin visited
  BY <1>2, <1>3 DEF QueueFresh
<1>5. QueueFresh'
  BY <1>1, <1>2, <1>3 DEF QueueFresh
<1>6. Known' = Known
  BY <1>1, <1>3 DEF Known
<1>7. NoName \notin visited'
  BY <1>1, <1>3, NameConstants DEF IInv, Shape, TypeOK
<1> QED BY <1>1, <1>2, <1>3, <1>4, <1>5, <1>6, <1>7

\* A name without a readable function.
LEMMA NextFunctionGap ==
  ASSUME IInv, NextFunction, NEW n, n = Head(queue), Entry(prog, n) # "none"
  PROVE  IInv'
<1>1. /\ n \in Names /\ n \notin visited /\ visited' = visited \cup {n} /\ NoName \notin visited'
      /\ func = NoName /\ exit_code = NoCode /\ left = {} /\ prog' = prog /\ exit_code' = exit_code
      /\ queue' \in Seq(Names) /\ Waiting' = Waiting \ {n} /\ QueueFresh' /\ Known' = Known
  BY TakeName
<1>2. found' = Note(Entry(prog, n), << n, 0 >>, FALSE) /\ func' = func /\ elf' = elf /\ sym' = sym /\ left' = left
  BY <1>1 DEF NextFunction, current
<1>3. /\ DOMAIN found' = Lists /\ \A k \in Lists : found'[k] \subseteq visited' \X Nat
      /\ found'["hard_fails"] # {} <=> found["hard_fails"] # {} \/ Entry(prog, n) = "hard_fails"
      /\ found'["missing_deps"] # {} <=> found["missing_deps"] # {} \/ Entry(prog, n) = "missing_deps"
      /\ found'["unanalyzable"] # {} <=> found["unanalyzable"] # {} \/ Entry(prog, n) = "unanalyzable"
  BY <1>1, <1>2, Noted DEF IInv
<1>4. Shape'
  BY <1>1, <1>2, <1>3 DEF IInv, Shape, TypeOK
<1>5. Follows(prog, n) = {}
  BY DEF Follows
<1>6. Reach'
  BY <1>1, <1>2, <1>5 DEF IInv, Reach
<1>7. Minimal'
  BY <1>1 DEF IInv, Minimal
<1>8. ~Forbidden(prog, n) /\ Gap(prog, n)
  BY DEF Forbidden, Gap
<1>9. Entry(prog, n) \in {"missing_deps", "unanalyzable"}
  BY EntryKinds
<1>10. FailsNoted'
  <2>1. found'["hard_fails"] # {} <=> found["hard_fails"] # {}
    BY <1>3, <1>9
  <2>2. (\E m \in visited' : m # func' /\ Forbidden(prog', m)) <=> (\E m \in visited : m # func /\ Forbidden(prog, m))
    BY <1>1, <1>2, <1>8
  <2>3. func' = NoName /\ func = NoName
    BY <1>1, <1>2
  <2> QED BY <2>1, <2>2, <2>3, Zenon DEF IInv, FailsNoted
<1>11. GapsNoted'
  BY <1>1, <1>2, <1>3, <1>8, <1>9 DEF IInv, GapsNoted
<1> QED
  BY <1>1, <1>2, <1>4, <1>6, <1>7, <1>10, <1>11 DEF IInv, NoneStopped, Decided

\* A function is entered: none of it is analysed yet.
LEMMA NextFunctionCode ==
  ASSUME IInv, NextFunction, NEW n, n = Head(queue), Entry(prog, n) = "none"
  PROVE  IInv'
<1>1. /\ n \in Names /\ n \notin visited /\ visited' = visited \cup {n} /\ NoName \notin visited'
      /\ func = NoName /\ exit_code = NoCode /\ left = {} /\ prog' = prog /\ exit_code' = exit_code
      /\ queue' \in Seq(Names) /\ Waiting' = Waiting \ {n} /\ QueueFresh' /\ Known' = Known
  BY TakeName
<1>2. /\ found' = Note("none", << n, 0 >>, FALSE)
      /\ func' = n /\ elf' = resolve_symbol_owner(prog, n) /\ sym' = Sym(prog, n)
      /\ left' = disasm(OwnerFile(prog, n), Sym(prog, n))
  BY <1>1 DEF NextFunction
<1>3. /\ DOMAIN found' = Lists /\ \A k \in Lists : found'[k] \subseteq visited' \X Nat
      /\ found'["hard_fails"] # {} <=> found["hard_fails"] # {}
      /\ found'["missing_deps"] # {} <=> found["missing_deps"] # {}
      /\ found'["unanalyzable"] # {} <=> found["unanalyzable"] # {}
  BY <1>1, <1>2, Noted DEF IInv
<1>4. F' = OwnerFile(prog, n) /\ left' = disasm(F', sym')
  BY <1>1, <1>2 DEF F, OwnerFile
<1>5. n # NoName
  BY <1>1, NameConstants
<1>6. Shape'
  <2>1. TypeOK'
    BY <1>1, <1>2, <1>3, <1>4, <1>5 DEF IInv, Shape, TypeOK, F
  <2> QED BY <1>1, <1>2, <2>1 DEF IInv, Shape
<1>7. Scanned(F', sym') \subseteq left' /\ Examined(F', sym') \subseteq left'
  BY <1>4 DEF Scanned, Examined
<1>8. Reach'
  BY <1>1, <1>2, <1>7 DEF IInv, Reach
<1>9. Minimal'
  BY <1>1 DEF IInv, Minimal
<1>10. ~ForbiddenSoFar' /\ ~GapSoFar'
  BY <1>7 DEF ForbiddenSoFar, GapSoFar
<1>11. FailsNoted'
  <2>1. (\E m \in visited' : m # func' /\ Forbidden(prog', m)) <=> (\E m \in visited : m # func /\ Forbidden(prog, m))
    BY <1>1, <1>2
  <2> QED BY <1>1, <1>3, <1>10, <2>1, Zenon DEF IInv, FailsNoted
<1>12. GapsNoted'
  BY <1>1, <1>2, <1>3, <1>10 DEF IInv, GapsNoted
<1>13. NoneStopped'
  BY <1>4 DEF NoneStopped
<1> QED
  BY <1>1, <1>6, <1>8, <1>9, <1>11, <1>12, <1>13 DEF IInv, Decided

-----------------------------------------------------------------------------
\* A privileged instruction: it is noted, and the rest of the function is not
\* looked at.
LEMMA StepPrivileged ==
  ASSUME IInv, NEW a \in left, Privileged(a)
  PROVE  IInv'
<1> USE DEF IInv
<1>1. func # NoName /\ exit_code = NoCode
  BY DEF Shape, TypeOK
<1>2. /\ Op(a) = "priv" /\ IsNext(a) /\ left' = {}
      /\ found' = Note("hard_fails", << func, a >>, FALSE)
      /\ prog' = prog /\ queue' = queue /\ visited' = visited /\ exit_code' = exit_code
      /\ func' = func /\ elf' = elf /\ sym' = sym
  BY DEF Privileged, Op, F, current
<1>3. /\ func \in visited /\ left \subseteq disasm(F, sym) /\ disasm(F, sym) \subseteq Nat
  BY <1>1, Current
<1>4. a \in Scanned(F, sym)
  BY <1>1, <1>2, NextScanned
<1>5. Waiting' = Waiting /\ Known' = Known /\ F' = F /\ \A b : Op(b)' = Op(b) /\ Result(b)' = Result(b)
  BY <1>2 DEF Waiting, Known, F, Op, Result
<1>6. /\ DOMAIN found' = Lists /\ \A k \in Lists : found'[k] \subseteq visited' \X Nat
      /\ found'["hard_fails"] # {}
      /\ found'["missing_deps"] # {} <=> found["missing_deps"] # {}
      /\ found'["unanalyzable"] # {} <=> found["unanalyzable"] # {}
  <2>1. << func, a >> \in visited' \X Nat /\ FALSE \in BOOLEAN /\ visited \subseteq visited'
    BY <1>2, <1>3
  <2> QED BY <1>2, <2>1, Noted
<1>7. Shape'
  <2>1. QueueFresh'
    BY <1>2, <1>5 DEF Shape, QueueFresh
  <2>2. TypeOK'
    BY <1>1, <1>2, <1>6 DEF Shape, TypeOK, F
  <2> QED BY <1>1, <1>2, <2>1, <2>2 DEF Shape
\* Behind the instruction nothing counts as examined.
<1>8. \A b \in Examined(F, sym) : b \notin left
  <2>1. \A b \in Examined(F, sym) : b \in disasm(F, sym) /\ b # a /\ ~(a < b)
    BY <1>2, <1>3 DEF Examined, Scanned, Op
  <2>2. \A b \in Examined(F, sym) : b < a
    BY <1>3, <2>1
  <2> QED BY <1>2, <1>3, <2>2 DEF IsNext
<1>9. Examined(F, sym) \ left = Examined(F, sym) /\ Examined(F, sym) \ left' = Examined(F, sym)
  BY <1>2, <1>8
<1>10. Reach'
  BY <1>2, <1>5, <1>9 DEF Reach
<1>11. Minimal'
  BY <1>2, <1>5 DEF Minimal
<1>12. ForbiddenSoFar' /\ (GapSoFar' <=> GapSoFar)
  BY <1>2, <1>4, <1>5, <1>9 DEF ForbiddenSoFar, GapSoFar
<1>13. FailsNoted'
  BY <1>1, <1>2, <1>6, <1>12 DEF FailsNoted
<1>14. GapsNoted'
  BY <1>1, <1>2, <1>6, <1>12 DEF GapsNoted
<1> QED
  BY <1>1, <1>2, <1>7, <1>10, <1>11, <1>13, <1>14 DEF NoneStopped, Decided

\* Any other instruction: it is noted and what it leads to is known.
LEMMA StepInstruction ==
  ASSUME IInv, NEW a \in left, Instruction(a)
  PROVE  IInv'
<1> USE DEF IInv
<1>1. func # NoName /\ exit_code = NoCode
  BY DEF Shape, TypeOK
<1>2. /\ Op(a) # "priv" /\ IsNext(a) /\ left' = left \ {a}
      /\ found' = Note(Result(a).list, << func, a >>, IsStaticRef(F, sym, a))
      /\ queue' = queue_func(Result(a).name)
      /\ prog' = prog /\ visited' = visited /\ exit_code' = exit_code
      /\ func' = func /\ elf' = elf /\ sym' = sym
  BY DEF Instruction, Op, F, Result, current, Rest
<1>3. /\ func \in visited /\ left \subseteq disasm(F, sym) /\ disasm(F, sym) \subseteq Nat
      /\ Entry(prog, func) = "none" /\ F = OwnerFile(prog, func) /\ sym = Sym(prog, func)
      /\ F.syms \in Seq(Symbol)
  BY <1>1, Current
<1>4. a \in Scanned(F, sym) /\ a \in Examined(F, sym)
  BY <1>1, <1>2, NextScanned
<1>5. F' = F /\ \A b : Op(b)' = Op(b) /\ Result(b)' = Result(b)
  BY <1>2 DEF F, Op, Result
<1>6. Result(a).name \in Names \cup {NoName}
  BY <1>3, OutcomeName DEF Result
<1>7. /\ queue' \in Seq(Names) /\ QueueFresh'
      /\ Waiting \subseteq Waiting' /\ Waiting' \subseteq Waiting \cup ({Result(a).name} \ {NoName})
      /\ Result(a).name \in visited \cup Waiting' \cup {NoName}
  <2>1. queue \in Seq(Names) /\ QueueFresh
    BY DEF Shape, TypeOK
  <2> QED BY <1>2, <1>6, <2>1, Pushed
<1>8. /\ DOMAIN found' = Lists /\ \A k \in Lists : found'[k] \subseteq visited' \X Nat
      /\ found'["hard_fails"] # {} <=> found["hard_fails"] # {} \/ Result(a).list = "hard_fails"
      /\ found'["missing_deps"] # {} <=> found["missing_deps"] # {} \/ Result(a).list = "missing_deps"
      /\ found'["unanalyzable"] # {} <=> found["unanalyzable"] # {} \/ Result(a).list = "unanalyzable"
  <2>1. << func, a >> \in visited' \X Nat /\ visited \subseteq visited' /\ IsStaticRef(F, sym, a) \in BOOLEAN
    BY <1>2, <1>3 DEF IsStaticRef
  <2> QED BY <1>2, <2>1, Noted
<1>9. Shape'
  <2>1. TypeOK'
    BY <1>1, <1>2, <1>7, <1>8 DEF Shape, TypeOK, F
  <2> QED BY <1>1, <1>2, <1>7, <2>1 DEF Shape
<1>10. Known \subseteq Known' /\ Known' \subseteq Known \cup ({Result(a).name} \ {NoName})
       /\ Result(a).name \in Known' \cup {NoName}
  BY <1>2, <1>7 DEF Known
<1>11. \A b \in Examined(F, sym) \ left' : b = a \/ b \in Examined(F, sym) \ left
  BY <1>2
<1>12. Reach'
  <2>1. \A b \in Examined(F, sym) \ left' : Result(b).name \in Known' \cup {NoName}
    BY <1>1, <1>10, <1>11 DEF Reach
  <2>2. \A n \in visited : n # func => Follows(prog, n) \subseteq Known'
    BY <1>10 DEF Reach
  <2>3. prog.target \in Known'
    BY <1>10 DEF Reach
  <2>4. \A b \in (Examined(F, sym) \ left)' : Result(b)'.name \in (Known \cup {NoName})'
    BY <1>2, <1>5, <2>1
  <2> QED BY <1>2, <2>2, <2>3, <2>4 DEF Reach
<1>13. Minimal'
  <2>1. Result(a).name # NoName => Result(a).name \in Follows(prog, func)
    BY <1>3, <1>4 DEF Follows, Result
  <2>2. ASSUME NEW S \in SUBSET Names, ClosedUnder(prog, S) PROVE Known' \subseteq S
    <3>1. Known \subseteq S
      BY <2>2 DEF Minimal
    <3>2. Follows(prog, func) \subseteq S
      BY <1>3, <2>2, <3>1 DEF ClosedUnder, Known
    <3> QED BY <1>10, <2>1, <3>1, <3>2
  <2> QED BY <1>2, <2>2 DEF Minimal
<1>14. Scanned(F, sym) \ left' = (Scanned(F, sym) \ left) \cup {a} /\ Examined(F, sym) \ left' = (Examined(F, sym) \ left) \cup {a}
  BY <1>2, <1>4
<1>15. ForbiddenSoFar' <=> ForbiddenSoFar \/ Result(a).list = "hard_fails"
  BY <1>2, <1>5, <1>14 DEF ForbiddenSoFar
<1>16. GapSoFar' <=> GapSoFar \/ Result(a).list = "unanalyzable"
  BY <1>2, <1>5, <1>14 DEF GapSoFar
<1>17. FailsNoted'
  BY <1>1, <1>2, <1>8, <1>15 DEF FailsNoted
<1>18. Result(a).list # "missing_deps"
  BY DEF Result, Outcome, Reference, PcRelative, LocalCode, QueuedOrGap, Recorded, Queued, Nothing
<1>19. GapsNoted'
  BY <1>1, <1>2, <1>8, <1>16, <1>18 DEF GapsNoted
<1>20. NoneStopped'
  BY <1>1, <1>2, <1>3, <1>5 DEF NoneStopped
<1> QED
  BY <1>1, <1>2, <1>9, <1>12, <1>13, <1>17, <1>19, <1>20 DEF Decided

\* The end of a function: what holds of the code analysed so far holds of it.
LEMMA StepFunctionDone ==
  ASSUME IInv, FunctionDone
  PROVE  IInv'
<1> USE DEF IInv
<1>1. /\ func # NoName /\ left = {} /\ func' = NoName /\ left' = left
      /\ prog' = prog /\ queue' = queue /\ visited' = visited /\ found' = found /\ exit_code' = exit_code
  BY DEF FunctionDone
<1>2. func \in visited /\ exit_code = NoCode
  BY <1>1, Current DEF Shape
<1>3. /\ ForbiddenSoFar <=> Forbidden(prog, func)
      /\ GapSoFar <=> Gap(prog, func)
      /\ Follows(prog, func) = {Result(a).name : a \in Examined(F, sym) \ left} \ {NoName}
  BY <1>1, AllAnalysed
<1>4. Waiting' = Waiting /\ Known' = Known
  BY <1>1 DEF Waiting, Known
<1>5. Shape'
  BY <1>1, <1>2, <1>4 DEF Shape, TypeOK, QueueFresh
<1>6. Follows(prog, func) \subseteq Known
  BY <1>1, <1>3 DEF Reach
<1>7. Reach'
  BY <1>1, <1>4, <1>6 DEF Reach
<1>8. Minimal'
  BY <1>1, <1>4 DEF Minimal
<1>9. NoName \notin visited
  BY NameConstants DEF Shape, TypeOK
<1>10. FailsNoted'
  BY <1>1, <1>2, <1>3, <1>9 DEF FailsNoted
<1>11. GapsNoted'
  BY <1>1, <1>2, <1>3, <1>9 DEF GapsNoted
<1> QED
  BY <1>1, <1>2, <1>5, <1>7, <1>8, <1>10, <1>11 DEF NoneStopped, Decided

LEMMA StepReport ==
  ASSUME IInv, generate_report
  PROVE  IInv'
<1> USE DEF IInv
<1>1. /\ func = NoName /\ queue = << >> /\ exit_code' = Verdict(found)
      /\ prog' = prog /\ queue' = queue /\ visited' = visited /\ found' = found /\ left' = left
      /\ func' = func /\ elf' = elf /\ sym' = sym
  BY DEF generate_report, current
<1>2. exit_code' \in {0, 1, 2, NoCode}
  BY <1>1 DEF Verdict
<1>3. Shape'
  BY <1>1, <1>2 DEF Shape, TypeOK, QueueFresh, Waiting
<1>4. Reach' /\ Minimal'
  BY <1>1 DEF Reach, Minimal, Known, Waiting
<1> QED
  BY <1>1, <1>3, <1>4 DEF NoneStopped, FailsNoted, GapsNoted, Decided

LEMMA Unchanged ==
  ASSUME IInv, UNCHANGED vars
  PROVE  IInv'
  BY DEF IInv, vars, current, Shape, TypeOK, QueueFresh, NoneStopped, Reach, Minimal, Known, Waiting, FailsNoted,
         GapsNoted, Decided, F, Op, Result, ForbiddenSoFar, GapSoFar

THEOREM Inductive == Spec => []IInv
<1>1. IInv /\ [Next]_vars => IInv'
  <2> SUFFICES ASSUME IInv, [Next]_vars PROVE IInv'
    OBVIOUS
  <2>1. CASE NextFunction
    BY <2>1, NextFunctionGap, NextFunctionCode
  <2>2. CASE \E a \in left : Privileged(a) \/ Instruction(a)
    BY <2>2, StepPrivileged, StepInstruction
  <2>3. CASE FunctionDone
    BY <2>3, StepFunctionDone
  <2>4. CASE generate_report
    BY <2>4, StepReport
  <2>5. CASE Exited \/ UNCHANGED vars
    BY <2>5, Unchanged DEF Exited
  <2> QED BY <2>1, <2>2, <2>3, <2>4, <2>5 DEF Next
<1> QED BY <1>1, Initially, PTL DEF Spec

-----------------------------------------------------------------------------
(* No name waits twice or after its turn, and each record is about a         *)
(* function that was taken from the queue (queue_func, analyze).             *)
THEOREM AnalysedOnce == Spec => [](TypeOK /\ QueueFresh)
<1>1. IInv => TypeOK /\ QueueFresh
  BY DEF IInv, Shape
<1> QED BY <1>1, Inductive, PTL

LEMMA AtTheEnd ==
  ASSUME IInv, exit_code # NoCode
  PROVE  func = NoName /\ Known = visited /\ NoName \notin visited /\ visited \subseteq Names
<1>1. func = NoName /\ queue = << >> /\ visited \subseteq Names
  BY DEF IInv, Shape, TypeOK
<1>2. Waiting = {}
  BY <1>1 DEF Waiting
<1> QED BY <1>1, <1>2, NameConstants DEF Known

(* For any files, what the tool has visited when it reports is the least set  *)
(* that has the target and what its members lead to (analyze).               *)
THEOREM ClosureCorrect == Spec => []ClosureExact
<1>1. ASSUME IInv PROVE ClosureExact
  <2> SUFFICES ASSUME exit_code # NoCode
               PROVE  /\ ClosedUnder(prog, visited)
                      /\ \A S \in SUBSET visited : ClosedUnder(prog, S) => S = visited
    BY DEF ClosureExact
  <2>1. func = NoName /\ Known = visited /\ NoName \notin visited /\ visited \subseteq Names
    BY <1>1, AtTheEnd
  <2>2. ClosedUnder(prog, visited)
    BY <1>1, <2>1 DEF IInv, Reach, ClosedUnder
  <2>3. ASSUME NEW S \in SUBSET visited, ClosedUnder(prog, S) PROVE S = visited
    BY <1>1, <2>1, <2>3 DEF IInv, Minimal
  <2> QED BY <2>2, <2>3
<1> QED BY <1>1, Inductive, PTL

(* For any files the verdict is FAIL when some function of the closure has    *)
(* forbidden code, else INCOMPLETE when one has a gap, else PASS             *)
(* (generate_report).                                                        *)
THEOREM VerdictCorrect == Spec => []VerdictExact
<1>1. ASSUME IInv PROVE VerdictExact
  <2> SUFFICES ASSUME exit_code # NoCode
               PROVE  exit_code = IF \E n \in visited : Forbidden(prog, n) THEN 1
                                  ELSE IF \E n \in visited : Gap(prog, n) THEN 2 ELSE 0
    BY DEF VerdictExact
  <2>1. func = NoName /\ NoName \notin visited /\ exit_code = Verdict(found)
    BY <1>1, AtTheEnd DEF IInv, Decided
  <2>2. found["hard_fails"] # {} <=> \E n \in visited : Forbidden(prog, n)
    BY <1>1, <2>1 DEF IInv, FailsNoted
  <2>3. found["missing_deps"] # {} \/ found["unanalyzable"] # {} <=> \E n \in visited : Gap(prog, n)
    BY <1>1, <2>1 DEF IInv, GapsNoted
  <2> QED BY <2>1, <2>2, <2>3 DEF Verdict
<1> QED BY <1>1, Inductive, PTL

-----------------------------------------------------------------------------
(* PASS and the code.  The files are as ELFObj reads them and as an assembler *)
(* writes them; nothing is asked of the code itself.                          *)

\* A relocated call or jump leads to code: to a place inside of the function
\* that it names, or of the section, which is at 0.
LeadsToCode(f) ==
  \A sec, a, o \in Nat :
    /\ << sec, a >> \in DOMAIN f.code /\ f.code[<< sec, a >>].op \in {"call", "jmp"}
    /\ << sec, o >> \in DOMAIN f.relocs /\ o \in a .. a + f.code[<< sec, a >>].len - 1
    => LET r == f.relocs[<< sec, o >>]
           t == f.syms[r.sym]
       IN  r.type = "pc" /\ r.sym \in DOMAIN f.syms /\ t.sec \in DOMAIN f.secs =>
             /\ f.secs[t.sec].exec
             /\ t.type = "section" => t.value = 0
             /\ t.type = "func" /\ t.size > 0 => r.addend - o + a + f.code[<< sec, a >>].len \in 0 .. t.size - 1

AssembledFile(f) ==
  /\ f = ELFObj(f.secs, f.syms, f.code, f.relocs)
  /\ \A i \in DOMAIN f.syms : f.syms[i].type = "func" => f.syms[i].name # NoName
  /\ LeadsToCode(f)

Assembled == \A p \in Programs : IsFiniteSet(DOMAIN p.files) /\ \A k \in DOMAIN p.files : AssembledFile(p.files[k])

\* What disasm's recursion computes exists: the starts are the least set that is
\* closed under it.
StartsFrom(g, lo, hi, A, R) ==
  g = [a \in lo .. hi |-> a \in A /\ (a = lo \/ \E b \in lo .. a - 1 : g[b] /\ << b, a >> \in R)]

LEMMA StartsExist ==
  ASSUME NEW lo \in Int, NEW hi \in Int, NEW A, NEW R
  PROVE  \E g : StartsFrom(g, lo, hi, A, R)
<1> DEFINE D == lo .. hi
           Step(Y) == {a \in D : a \in A /\ (a = lo \/ \E b \in lo .. a - 1 : b \in Y /\ << b, a >> \in R)}
           X == {a \in D : \A Y \in SUBSET D : Step(Y) \subseteq Y => a \in Y}
           G == [a \in D |-> a \in X]
<1>1. X \in SUBSET D
  OBVIOUS
<1>2. \A Y, Z : Y \subseteq Z => Step(Y) \subseteq Step(Z)
  OBVIOUS
<1>3. Step(X) \subseteq X
  <2> SUFFICES ASSUME NEW a \in Step(X), NEW Y \in SUBSET D, Step(Y) \subseteq Y PROVE a \in Y
    OBVIOUS
  <2>1. X \subseteq Y
    OBVIOUS
  <2> QED BY <2>1, <1>2
<1>4. X \subseteq Step(X)
  <2>1. Step(Step(X)) \subseteq Step(X)
    BY <1>2, <1>3
  <2>2. Step(X) \in SUBSET D
    OBVIOUS
  <2> QED BY <2>1, <2>2
<1>5. ASSUME NEW a \in D
      PROVE  (a \in X) = (a \in A /\ (a = lo \/ \E b \in lo .. a - 1 : G[b] /\ << b, a >> \in R))
  <2>1. a \in X <=> a \in A /\ (a = lo \/ \E b \in lo .. a - 1 : b \in X /\ << b, a >> \in R)
    BY <1>3, <1>4
  <2>2. \A b \in lo .. a - 1 : b \in D
    OBVIOUS
  <2> HIDE DEF X
  <2>3. \A b \in lo .. a - 1 : G[b] <=> b \in X
    BY <2>2
  <2> HIDE DEF G
  <2> QED BY <2>1, <2>3
<1> HIDE DEF X
<1>6. G = [a \in D |-> a \in A /\ (a = lo \/ \E b \in lo .. a - 1 : G[b] /\ << b, a >> \in R)]
  BY <1>5
<1> HIDE DEF G
<1> QED BY <1>6 DEF StartsFrom

\* The instructions found are of the file and inside of the function.
LEMMA Disassembled ==
  ASSUME NEW f, NEW s \in Symbol, NEW a \in disasm(f, s)
  PROVE  << s.sec, a >> \in DOMAIN f.code
<1> DEFINE end == s.value + s.size
           lo == s.value
           hi == end - 1
           A == {x \in lo .. hi : << s.sec, x >> \in DOMAIN f.code /\ x + InsnAt(f, s, x).len <= end}
           R == {p \in (lo .. hi) \X (lo .. hi) : p[1] + InsnAt(f, s, p[1]).len = p[2]}
           Is(g) == g = [x \in lo .. hi |->
                           /\ << s.sec, x >> \in DOMAIN f.code
                           /\ x + InsnAt(f, s, x).len <= end
                           /\ x = lo \/ \E b \in lo .. x - 1 : g[b] /\ b + InsnAt(f, s, b).len = x]
<1>1. s.value \in Nat /\ s.size \in Nat /\ lo \in Int /\ hi \in Int
  BY DEF Symbol
<1>2. PICK g : StartsFrom(g, lo, hi, A, R)
  <2>1. lo \in Int /\ hi \in Int
    BY <1>1
  <2> HIDE DEF A, R, lo, hi
  <2> QED BY <2>1, StartsExist
<1>3. Is(g)
  <2>1. ASSUME NEW x \in lo .. hi
        PROVE  (x \in A /\ (x = lo \/ \E b \in lo .. x - 1 : g[b] /\ << b, x >> \in R))
               = (/\ << s.sec, x >> \in DOMAIN f.code
                  /\ x + InsnAt(f, s, x).len <= end
                  /\ x = lo \/ \E b \in lo .. x - 1 : g[b] /\ b + InsnAt(f, s, b).len = x)
    <3>1. \A b \in lo .. x - 1 : b \in lo .. hi /\ (<< b, x >> \in R <=> b + InsnAt(f, s, b).len = x)
      BY <1>1
    <3> QED BY <3>1
  <2> QED BY <2>1, <1>2 DEF StartsFrom
<1>4. Is(CHOOSE h : Is(h))
  BY <1>3
<1>5. disasm(f, s) = {x \in lo .. hi : (CHOOSE h : Is(h))[x]}
  BY DEF disasm
<1> HIDE DEF Is
<1>6. (CHOOSE h : Is(h))[a] /\ a \in lo .. hi
  BY <1>5
<1> QED BY <1>4, <1>6 DEF Is

LEMMA AtMostOne ==
  ASSUME NEW S, IsFiniteSet(S), Cardinality(S) <= 1, NEW x \in S
  PROVE  S = {x}
<1>1. Cardinality(S) \in Nat /\ Cardinality(S) # 0
  BY FS_CardinalityType, FS_EmptySet
<1>2. Cardinality(S) = 1
  BY <1>1
<1> QED BY <1>2, FS_Singleton

\* A name that is defined once is found in the file that defines it.
LEMMA FoundOnce ==
  ASSUME Assembled, NEW p \in Programs, NamesUnique(p), NEW k \in DOMAIN p.files,
         NEW i \in DOMAIN p.files[k].syms, p.files[k].syms[i].name # NoName, p.files[k].syms[i].sec # Undef
  PROVE  /\ resolve_symbol_owner(p, p.files[k].syms[i].name) = k
         /\ Sym(p, p.files[k].syms[i].name) = p.files[k].syms[i]
<1>1. PICK f : f = p.files[k]
  OBVIOUS
<1>2. PICK m : m = f.syms[i].name
  OBVIOUS
<1>3. f.syms \in Seq(Symbol) /\ f = ELFObj(f.secs, f.syms, f.code, f.relocs) /\ IsFiniteSet(DOMAIN p.files)
      /\ DOMAIN p.files \subseteq Nat \ {NoOwner}
  BY <1>1, ProgramConstants DEF Assembled, AssembledFile
<1>4. m \in Names
  BY <1>1, <1>2, <1>3, SymbolAt
<1>5. i \in Definitions(f.syms, m) /\ IsFiniteSet(Definitions(f.syms, m))
  <2>1. i \in Definitions(f.syms, m)
    BY <1>1, <1>2 DEF Definitions
  <2>2. Len(f.syms) \in Nat /\ DOMAIN f.syms = 1 .. Len(f.syms)
    BY <1>3
  <2>3. IsFiniteSet(DOMAIN f.syms)
    BY <2>2, FS_Interval
  <2>4. Definitions(f.syms, m) \in SUBSET DOMAIN f.syms
    BY DEF Definitions
  <2> QED BY <2>1, <2>3, <2>4, FS_Subset
<1>6. f.sym_dict = [n \in {x \in Names : Definitions(f.syms, x) # {}} |-> f.syms[LastDefinition(f.syms, n)]]
  <2>1. ELFObj(f.secs, f.syms, f.code, f.relocs).sym_dict
          = [n \in {x \in Names : Definitions(f.syms, x) # {}} |-> f.syms[LastDefinition(f.syms, n)]]
    BY DEF ELFObj
  <2> QED BY <2>1, <1>3
<1>7. m \in DOMAIN f.sym_dict /\ f.sym_dict[m] = f.syms[LastDefinition(f.syms, m)]
  BY <1>4, <1>5, <1>6
<1>8. k \in Owners(p, m)
  BY <1>1, <1>7 DEF Owners
<1>9. Owners(p, m) = {k}
  <2>1. Owners(p, m) \in SUBSET DOMAIN p.files
    BY DEF Owners
  <2>2. IsFiniteSet(Owners(p, m))
    BY <2>1, <1>3, FS_Subset
  <2>3. Cardinality(Owners(p, m)) <= 1
    BY <1>4 DEF NamesUnique
  <2> QED BY <2>2, <2>3, <1>8, AtMostOne
<1>10. resolve_symbol_owner(p, m) = k
  <2>1. k <= k
    BY <1>3
  <2>2. (CHOOSE y \in {k} : \A j \in {k} : y <= j) = k
    BY <2>1
  <2>3. resolve_symbol_owner(p, m) = CHOOSE y \in {k} : \A j \in {k} : y <= j
    BY <1>9 DEF resolve_symbol_owner
  <2> QED BY <2>2, <2>3
<1>11. LastDefinition(f.syms, m) = i
  <2>1. Cardinality(Definitions(f.syms, m)) <= 1
    BY <1>1, <1>4, <1>8 DEF NamesUnique
  <2>2. Definitions(f.syms, m) = {i}
    BY <2>1, <1>5, AtMostOne
  <2>3. i <= i
    BY <1>1, <1>3
  <2>4. (CHOOSE y \in {i} : \A j \in {i} : j <= y) = i
    BY <2>3
  <2>5. LastDefinition(f.syms, m) = CHOOSE y \in {i} : \A j \in {i} : j <= y
    BY <2>2 DEF LastDefinition
  <2> QED BY <2>4, <2>5
<1> QED
  BY <1>1, <1>2, <1>7, <1>10, <1>11 DEF Sym, OwnerFile

\* The name that a search returns is that of a function with the offset in it.
LEMMA Resolved ==
  ASSUME NEW f, f.syms \in Seq(Symbol), NEW sec, NEW x, resolve_func_by_offset(f, sec, x) # NoName
  PROVE  \E i \in DOMAIN f.syms : Covers(f.syms[i], sec, x) /\ f.syms[i].name = resolve_func_by_offset(f, sec, x)
<1> DEFINE hits == {i \in DOMAIN f.syms : Covers(f.syms[i], sec, x)}
<1>1. hits # {} /\ resolve_func_by_offset(f, sec, x) = f.syms[CHOOSE i \in hits : \A j \in hits : i <= j].name
  BY DEF resolve_func_by_offset, FirstName
<1>2. hits \in SUBSET Nat
  OBVIOUS
<1>3. PICK i \in hits : \A j \in hits : i <= j
  BY <1>1, <1>2, LeastNat
<1>4. (CHOOSE y \in hits : \A j \in hits : y <= j) \in hits
  BY <1>3
<1> QED BY <1>1, <1>4

\* Where some function is, and all functions have names, the search finds one.
LEMMA Resolvable ==
  ASSUME NEW f, f.syms \in Seq(Symbol), NEW sec, NEW x, NEW j \in DOMAIN f.syms, Covers(f.syms[j], sec, x),
         \A i \in DOMAIN f.syms : f.syms[i].type = "func" => f.syms[i].name # NoName
  PROVE  resolve_func_by_offset(f, sec, x) # NoName
<1> DEFINE hits == {i \in DOMAIN f.syms : Covers(f.syms[i], sec, x)}
<1>1. j \in hits
  OBVIOUS
<1>2. resolve_func_by_offset(f, sec, x) = f.syms[CHOOSE i \in hits : \A y \in hits : i <= y].name
  BY <1>1 DEF resolve_func_by_offset, FirstName
<1>3. hits \in SUBSET Nat
  OBVIOUS
<1>4. PICK i \in hits : \A y \in hits : i <= y
  BY <1>1, <1>3, LeastNat
<1>5. (CHOOSE y \in hits : \A z \in hits : y <= z) \in hits
  BY <1>4
<1> QED BY <1>2, <1>5 DEF Covers

\* The symbol that is found for a name has it.
LEMMA OwnName ==
  ASSUME Assembled, NEW p \in Programs, NEW n, resolve_symbol_owner(p, n) # NoOwner
  PROVE  Sym(p, n).name = n
<1>1. PICK k : k = resolve_symbol_owner(p, n)
  OBVIOUS
<1>2. PICK f : f = OwnerFile(p, n)
  OBVIOUS
<1>3. k \in DOMAIN p.files /\ f = p.files[k] /\ n \in DOMAIN f.sym_dict /\ f.syms \in Seq(Symbol)
  BY <1>1, <1>2, OwnerFound DEF OwnerFile
<1>4. f = ELFObj(f.secs, f.syms, f.code, f.relocs)
  BY <1>3 DEF Assembled, AssembledFile
<1>5. ELFObj(f.secs, f.syms, f.code, f.relocs).sym_dict
        = [m \in {x \in Names : Definitions(f.syms, x) # {}} |-> f.syms[LastDefinition(f.syms, m)]]
  BY DEF ELFObj
<1>6. Definitions(f.syms, n) # {} /\ f.sym_dict[n] = f.syms[LastDefinition(f.syms, n)]
  BY <1>3, <1>4, <1>5
<1>7. LastDefinition(f.syms, n) \in Definitions(f.syms, n)
  <2>1. Definitions(f.syms, n) \subseteq 1 .. Len(f.syms) /\ Len(f.syms) \in Nat
    BY <1>3 DEF Definitions
  <2> DEFINE D == {Len(f.syms) - i : i \in Definitions(f.syms, n)}
  <2>2. D \in SUBSET Nat /\ D # {} /\ \A i \in Definitions(f.syms, n) : Len(f.syms) - i \in D
    BY <2>1, <1>6
  <2>3. \A y \in D : \E i \in Definitions(f.syms, n) : y = Len(f.syms) - i
    OBVIOUS
  <2> HIDE DEF D
  <2>4. PICK y \in D : \A z \in D : y <= z
    BY <2>2, LeastNat
  <2>5. PICK i \in Definitions(f.syms, n) : y = Len(f.syms) - i
    BY <2>3
  <2>6. \A j \in Definitions(f.syms, n) : j <= i
    BY <2>1, <2>2, <2>4, <2>5
  <2> QED BY <2>6 DEF LastDefinition
<1> QED
  BY <1>2, <1>6, <1>7 DEF Definitions, Sym

\* A place in a function that was visited and has no gap is analysed.
LEMMA PlaceAnalysed ==
  ASSUME Assembled, prog \in Programs, NamesUnique(prog), NEW k \in DOMAIN prog.files,
         NEW i \in DOMAIN prog.files[k].syms, NEW sec, NEW x,
         prog.files[k].syms[i].name \in visited, prog.files[k].syms[i].name # NoName,
         Entry(prog, prog.files[k].syms[i].name) = "none",
         prog.files[k].syms[i].sec = sec, sec # Undef,
         prog.files[k].syms[i].size > 0 => /\ prog.files[k].syms[i].value <= x
                                           /\ x < prog.files[k].syms[i].value + prog.files[k].syms[i].size
  PROVE  Analysed(prog, k, sec, x)
<1>1. PICK t : t = prog.files[k].syms[i]
  OBVIOUS
<1>2. resolve_symbol_owner(prog, t.name) = k /\ Sym(prog, t.name) = t
  BY SMTT(60), <1>1, FoundOnce
<1>3. t.size > 0
  BY <1>1, <1>2 DEF Entry, Readable
<1> QED
  BY <1>1, <1>2, <1>3 DEF Analysed

\* What a call or jump without a gap lands on is of a visited function, if what
\* the function leads to is visited and has no gap.
LEMMA CallLands ==
  ASSUME Assembled, prog \in Programs, NamesUnique(prog), visited \subseteq Names,
         \A m \in visited : ~Gap(prog, m) /\ Follows(prog, m) \subseteq visited,
         NEW n \in visited, NEW f, f = OwnerFile(prog, n), NEW s, s = Sym(prog, n), NEW k, k = resolve_symbol_owner(prog, n),
         NEW a \in Examined(f, s), InsnAt(f, s, a).op \in {"call", "jmp"}, NEW l \in Landings(f, s, a),
         ~HasReloc(f, s, a) => \E i \in DOMAIN f.syms : Covers(f.syms[i], l[1], l[2])
  PROVE  Analysed(prog, k, l[1], l[2])
<1>1. \A m \in visited : Entry(prog, m) = "none"
  BY DEF Gap
<1>2. k # NoOwner /\ Readable(f, s)
  BY <1>1 DEF Entry
<1>3. k \in DOMAIN prog.files /\ f = prog.files[k] /\ s \in Symbol /\ f.syms \in Seq(Symbol)
  BY <1>2, OwnerFound DEF OwnerFile
<1>4. /\ f.secs \in Seq(Section)
      /\ \A i \in DOMAIN f.syms : f.syms[i].type = "func" => f.syms[i].name # NoName
      /\ LeadsToCode(f)
  <2>1. f.secs \in Seq(Section)
    BY <1>3, ProgramConstants
  <2>2. AssembledFile(f)
    BY <1>3 DEF Assembled
  <2> QED BY <2>1, <2>2 DEF AssembledFile
<1>5. \A q \in DOMAIN f.secs : q # Undef
  BY <1>4 DEF Undef
<1>6. \A i \in DOMAIN f.syms : /\ f.syms[i].name \in Names \cup {NoName} /\ f.syms[i].value \in Nat
                               /\ f.syms[i].size \in Nat /\ f.syms[i].sec \in Nat
  <2>1. \A i \in DOMAIN f.syms : f.syms[i] \in Symbol
    BY <1>3
  <2> QED BY <2>1 DEF Symbol
<1>7. Outcome(f, s, prog.shims, a).list # "unanalyzable"
      /\ (Outcome(f, s, prog.shims, a).name # NoName => Outcome(f, s, prog.shims, a).name \in visited)
  <2>1. Outcome(f, s, prog.shims, a).list # "unanalyzable"
    BY DEF Gap
  <2>2. Follows(prog, n) = {Outcome(f, s, prog.shims, y).name : y \in Examined(f, s)} \ {NoName}
    BY <1>1 DEF Follows
  <2> QED BY <2>1, <2>2
<1>8. ASSUME NEW i \in DOMAIN f.syms, NEW sec, NEW x, f.syms[i].name \in visited, f.syms[i].name # NoName,
             f.syms[i].sec = sec, sec # Undef,
             f.syms[i].size > 0 => f.syms[i].value <= x /\ x < f.syms[i].value + f.syms[i].size
      PROVE  Analysed(prog, k, sec, x)
  BY <1>1, <1>3, <1>8, PlaceAnalysed
<1>9. ASSUME NEW sec, NEW x, sec # Undef, resolve_func_by_offset(f, sec, x) \in visited
      PROVE  Analysed(prog, k, sec, x)
  <2>1. resolve_func_by_offset(f, sec, x) # NoName
    BY <1>9, NameConstants
  <2>2. PICK i \in DOMAIN f.syms : Covers(f.syms[i], sec, x) /\ f.syms[i].name = resolve_func_by_offset(f, sec, x)
    BY <2>1, <1>3, Resolved
  <2>3. f.syms[i].sec = sec /\ (f.syms[i].size > 0 => f.syms[i].value <= x /\ x < f.syms[i].value + f.syms[i].size)
    BY <2>2, <1>6 DEF Covers
  <2> QED BY <2>1, <2>2, <2>3, <1>8, <1>9
<1>10. CASE ~HasReloc(f, s, a)
  <2>1. PICK x : x = InsnAt(f, s, a).to
    OBVIOUS
  <2>2. InsnAt(f, s, a).imm /\ l = << s.sec, x >>
    BY <1>10, <2>1 DEF Landings
  <2>3. PICK j \in DOMAIN f.syms : Covers(f.syms[j], s.sec, x)
    BY <1>10, <2>2
  <2>4. PICK m : m = resolve_func_by_offset(f, s.sec, x)
    OBVIOUS
  <2>5. m # NoName
    BY <2>3, <2>4, <1>3, <1>4, Resolvable
  <2>6. Outcome(f, s, prog.shims, a).name = IF m = s.name THEN NoName ELSE m
    BY <1>10, <2>1, <2>2, <2>4 DEF Outcome, is_branch, DirectTarget, Queued
  <2>7. m \in visited
    <3>1. CASE m = s.name
      BY <3>1, <1>2, OwnName
    <3>2. CASE m # s.name
      BY <3>2, <2>5, <2>6, <1>7
    <3> QED BY <3>1, <3>2
  <2>8. s.sec # Undef
    BY <1>2, <1>5 DEF Readable
  <2> QED BY <2>2, <2>4, <2>7, <2>8, <1>9
<1>11. CASE HasReloc(f, s, a)
  <2>1. PICK o : o = RelocField(f, s, a)
    OBVIOUS
  <2>2. PICK r : r = f.relocs[<< s.sec, o >>]
    OBVIOUS
  <2>3. PICK t : t = f.syms[r.sym]
    OBVIOUS
  <2>4. PICK len : len = InsnAt(f, s, a).len
    OBVIOUS
  <2>5. r = _find_relocation_for_instruction(f, s, a)
    BY <2>1, <2>2 DEF _find_relocation_for_instruction
  <2>6. /\ r.type = "pc" /\ t.sec # Undef /\ t.type \in {"func", "section"}
        /\ t.name \notin Instrumentation \cup IndirectThunks \cup ReturnThunks
        /\ l = << t.sec, t.value + r.addend - o + a + len >>
    BY <1>11, <2>1, <2>3, <2>4, <2>5 DEF Landings
  <2>7. a \in Nat /\ s.sec \in Nat /\ << s.sec, a >> \in DOMAIN f.code
    <3>1. a \in disasm(f, s)
      BY DEF Examined, Scanned
    <3>2. s.sec \in Nat
      BY <1>3 DEF Symbol
    <3> QED BY <3>1, <3>2, <1>3, InsnAddresses, Disassembled
  <2>8. len \in Nat /\ o \in Nat /\ o \in a .. a + len - 1 /\ << s.sec, o >> \in DOMAIN f.relocs
    <3>1. len \in Nat
      <4>1. f.code[<< s.sec, a >>] \in Insn
        BY <2>7, <1>3, ProgramConstants
      <4> QED BY <4>1, <2>4 DEF InsnAt, Insn
    <3>2. Fields(f, s, a) # {} /\ Fields(f, s, a) = {q \in a .. a + len - 1 : << s.sec, q >> \in DOMAIN f.relocs}
      BY <1>11, <2>4 DEF HasReloc, Fields
    <3>5. Fields(f, s, a) \in SUBSET Nat
      BY <3>1, <3>2, <2>7
    <3>3. PICK y \in Fields(f, s, a) : \A z \in Fields(f, s, a) : y <= z
      BY <3>2, <3>5, LeastNat
    <3>4. o \in Fields(f, s, a)
      BY <2>1, <3>3 DEF RelocField
    <3>6. o \in a .. a + len - 1 /\ << s.sec, o >> \in DOMAIN f.relocs
      BY <3>2, <3>4
    <3> QED BY <3>1, <3>4, <3>5, <3>6
  <2>9. r.addend \in Int
    BY <2>2, <2>8, <1>3, ProgramConstants DEF Reloc
  <2>10. r.sym \in DOMAIN f.syms /\ Outcome(f, s, prog.shims, a) = PcRelative(f, s, prog.shims, a, r, t)
    <3>1. Outcome(f, s, prog.shims, a) = Reference(f, s, prog.shims, a)
      BY <1>11 DEF Outcome
    <3>2. r.sym \in DOMAIN f.syms
      BY <3>1, <2>5, <1>7 DEF Reference, Recorded
    <3> QED BY <3>1, <3>2, <2>3, <2>5, <2>6 DEF Reference
  <2>11. t.sec \in DOMAIN f.secs
    BY <2>6, <2>10, <1>7 DEF PcRelative, Recorded
  <2>12. /\ f.secs[t.sec].exec
         /\ t.type = "section" => t.value = 0
         /\ t.type = "func" /\ t.size > 0 => r.addend - o + a + len \in 0 .. t.size - 1
    <3>1. PICK c : c = f.code[<< s.sec, a >>]
      OBVIOUS
    <3>2. c.op \in {"call", "jmp"} /\ c.len = len
      BY <3>1, <2>4 DEF InsnAt
    <3>3. r.type = "pc" /\ r.sym \in DOMAIN f.syms /\ t.sec \in DOMAIN f.secs
      BY <2>6, <2>10, <2>11
    <3>4. LeadsToCode(f)
      BY <1>4
    <3>5. /\ r.type = "pc" /\ r.sym \in DOMAIN f.syms /\ t.sec \in DOMAIN f.secs =>
               /\ f.secs[t.sec].exec
               /\ t.type = "section" => t.value = 0
               /\ t.type = "func" /\ t.size > 0 => r.addend - o + a + c.len \in 0 .. t.size - 1
      <4>1. c.op \in {"call", "jmp"} /\ o \in a .. a + c.len - 1
        BY <3>2, <2>8
      <4>2. s.sec \in Nat /\ a \in Nat /\ o \in Nat
        BY <2>7, <2>8
      <4>3. << s.sec, a >> \in DOMAIN f.code /\ << s.sec, o >> \in DOMAIN f.relocs
        BY <2>7, <2>8
      <4> QED BY ZenonT(60), <3>1, <3>4, <4>1, <4>2, <4>3, <2>2, <2>3, Zenon DEF LeadsToCode
    <3> QED BY <3>2, <3>3, <3>5
  <2>13. Outcome(f, s, prog.shims, a) = LocalCode(f, s, a, r, t)
    BY <2>6, <2>10, <2>11, <2>12 DEF PcRelative
  <2>14. t.value \in Nat /\ t.size \in Nat
    BY <2>3, <2>10, <1>6
  <2>15. CASE t.type = "func"
    <3>1. t.name # NoName
      BY <2>3, <2>10, <2>15, <1>4
    <3>2. Outcome(f, s, prog.shims, a).name = t.name
      BY <3>1, <2>13, <2>15 DEF LocalCode, Queued
    <3>3. t.name \in visited
      BY <3>1, <3>2, <1>7
    <3>4. t.size > 0 => /\ t.value <= t.value + r.addend - o + a + len
                        /\ t.value + r.addend - o + a + len < t.value + t.size
      BY <2>7, <2>8, <2>9, <2>12, <2>14, <2>15
    <3> QED BY <3>1, <3>3, <3>4, <2>3, <2>6, <2>10, <1>8
  <2>16. CASE t.type = "section"
    <3>1. PICK x : x = r.addend - o + a + len
      OBVIOUS
    <3>2. PICK m : m = resolve_func_by_offset(f, t.sec, x)
      OBVIOUS
    <3>3. Outcome(f, s, prog.shims, a) = QueuedOrGap(m)
      BY <2>1, <2>4, <2>13, <2>16, <3>1, <3>2 DEF LocalCode
    <3>4. m # NoName
      BY <3>3, <1>7 DEF QueuedOrGap, Recorded
    <3>5. m \in visited
      BY <3>3, <3>4, <1>7 DEF QueuedOrGap, Queued
    <3>6. l = << t.sec, x >>
      BY <2>6, <2>7, <2>8, <2>9, <2>12, <2>16, <3>1
    <3> QED BY <3>2, <3>5, <3>6, <2>6, <1>9
  <2> QED BY <2>6, <2>15, <2>16
<1> QED BY <1>10, <1>11

(* For any files as an assembler writes them, and any code: after PASS every  *)
(* call and jump of the closure that lands in a function of its file lands   *)
(* in the bytes of a function that was analysed, as long as no name is       *)
(* defined twice (resolve_func_by_offset, _analyze_function).                *)
THEOREM PassFollowsCalls ==
  ASSUME Assembled
  PROVE  Spec => []CallsFollowed
<1>1. ASSUME IInv PROVE CallsFollowed
  <2> SUFFICES ASSUME exit_code = 0, NamesUnique(prog), NEW n \in visited, NEW f, f = OwnerFile(prog, n),
                      NEW s, s = Sym(prog, n), NEW a \in Examined(f, s), InsnAt(f, s, a).op \in {"call", "jmp"},
                      NEW l \in Landings(f, s, a),
                      ~HasReloc(f, s, a) => \E i \in DOMAIN f.syms : Covers(f.syms[i], l[1], l[2])
               PROVE  Analysed(prog, resolve_symbol_owner(prog, n), l[1], l[2])
    BY DEF CallsFollowed, LandInClosure
  <2>1. exit_code # NoCode
    BY DEF NoCode
  <2>2. func = NoName /\ Known = visited /\ NoName \notin visited /\ visited \subseteq Names
    BY <1>1, <2>1, AtTheEnd
  <2>3. \A m \in visited : Follows(prog, m) \subseteq visited
    BY <1>1, <2>2 DEF IInv, Reach
  <2>4. \A m \in visited : ~Gap(prog, m)
    <3>1. found["missing_deps"] = {} /\ found["unanalyzable"] = {}
      BY <1>1, <2>1 DEF IInv, Decided, Verdict
    <3> QED BY <1>1, <2>2, <3>1 DEF IInv, GapsNoted
  <2>5. prog \in Programs
    BY <1>1 DEF IInv, Shape
  <2> QED BY <2>2, <2>3, <2>4, <2>5, CallLands
<1> QED BY <1>1, Inductive, PTL
=============================================================================
